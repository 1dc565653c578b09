---------------------------- MODULE MCScopeSync ----------------------------
(* Instances of ScopeSync: three builds cover "the build before, this one and *)
(* the next", three failures a failed run, a failed retry and a crash, and    *)
(* one withdrawal the return from any of them to an earlier one.              *)
EXTENDS ScopeSync
=============================================================================
