----------------------------- MODULE MCAccounts -----------------------------
(***************************************************************************)
(* Accounts with two requests at a time and up to two accounts.          *)
(***************************************************************************)
EXTENDS Accounts, TLC

CONSTANTS r1, r2, t1, t2, t3

(* Requests, and tokens, differ in their name only.                         *)
Interchangeable == Permutations(Requests) \cup Permutations(Tokens)
=============================================================================
