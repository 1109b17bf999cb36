----------------------------- MODULE MCAccounts -----------------------------
(***************************************************************************)
(* Instances of Accounts for TLC: three accounts, one of which a script    *)
(* may act as.                                                             *)
(***************************************************************************)
EXTENDS Accounts, TLC

CONSTANTS u1, u2, u3

MCUsers == {u1, u2, u3}
MCScripts == {u1}
MCSymmetry == Permutations({u2, u3})
=============================================================================
