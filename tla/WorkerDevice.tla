--------------------------- MODULE WorkerDevice ---------------------------
(***************************************************************************)
(* What the device registry promises for every worker, however many        *)
(* requests overlap: at any time the worker has at most one device that    *)
(* may sign attendance, a device once replaced never comes back, and a     *)
(* replacement swaps the old device for the new one in one step, so that   *)
(* a worker who has a device is never left without one.                    *)
(***************************************************************************)
CONSTANTS Worker, Device

VARIABLES
    current,    \* current[w]: the devices of w that may sign, one at most
    bound       \* every device that was ever bound

vars == <<current, bound>>

Init ==
    /\ current = [w \in Worker |-> {}]
    /\ bound = {}

\* Worker w gets device d, which replaces whatever device w had.
Bind(w, d) ==
    /\ d \notin bound
    /\ current' = [current EXCEPT ![w] = {d}]
    /\ bound' = bound \cup {d}

Next == \E w \in Worker, d \in Device : Bind(w, d)

Spec == Init /\ [][Next]_vars
============================================================================
