------------------------ MODULE MCDeviceEnrollment ------------------------
(* Instances of DeviceEnrollment for TLC.                                  *)
EXTENDS DeviceEnrollment, TLC

Symmetry == Permutations(Worker) \cup Permutations(Key) \cup Permutations(Request)
============================================================================
