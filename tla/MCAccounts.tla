----------------------------- MODULE MCAccounts -----------------------------
(* Instances of Accounts: two servers, two requests, two e-mail addresses.     *)
EXTENDS Accounts, TLC

\* Servers and requests are interchangeable, and no property is about liveness.
Symmetry == Permutations(Instances) \cup Permutations(Requests)
=============================================================================
