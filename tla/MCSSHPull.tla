----------------------------- MODULE MCSSHPull -----------------------------
(* Instances of SSHPull: two requests at once, a scheduled pull and a manual  *)
(* one, two frequencies and two versions of the machine.                      *)
EXTENDS SSHPull
=============================================================================
