---------------------------- MODULE MCEnrollment ----------------------------
(* Instances of Enrollment: two machines made from one image (the same host   *)
(* name) with different machine ids.                                          *)
EXTENDS Enrollment, TLC

CONSTANTS m1, m2, n1, n2, i1, i2

MCHostname == [m \in {m1, m2} |-> n1]
MCMachineId == (m1 :> i1) @@ (m2 :> i2)
=============================================================================
