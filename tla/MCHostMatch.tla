---------------------------- MODULE MCHostMatch ----------------------------
(* Small instances of HostMatch: two builds that share an advisory but not   *)
(* the product stream it is published under, and one that shares the stream. *)
EXTENDS HostMatch

CONSTANTS h1, i1, i2, s1, s2, a1, a2, b1, b2, b3

MCLinks == [b \in Builds |->
    CASE b = b1 -> {<<s1, a1>>}
      [] b = b2 -> {<<s2, a1>>, <<s2, a2>>}
      [] OTHER  -> {<<s1, a2>>}]

=============================================================================
