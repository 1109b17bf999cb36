---------------------------- MODULE MCAdminRaces ----------------------------
(***************************************************************************)
(* Instances of AdminRaces for TLC: three accounts, two overlapping slots.  *)
(***************************************************************************)
EXTENDS AdminRaces, TLC

CONSTANTS u1, u2, u3, r1, r2

MCUsers == {u1, u2, u3}
MCNoScripts == {}
TwoSlots == {r1, r2}
SlotSymmetry == Permutations(MCUsers) \cup Permutations(TwoSlots)
=============================================================================
