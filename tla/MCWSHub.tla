------------------------------- MODULE MCWSHub -------------------------------
(* Instances of WSHub: one topic of each kind, two callbacks at once, and a      *)
(* buffer that the events of one topic can fill.                                *)
EXTENDS WSHub
=============================================================================
