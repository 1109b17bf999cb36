----------------------------- MODULE MCIdentity -----------------------------
(***************************************************************************)
(* Instances of Identity for TLC.                                          *)
(***************************************************************************)
EXTENDS Identity, TLC

CONSTANTS u1, u2, u3, r1, r2, t1, t2, e1, e2, g1, g2

MCUsers == {u1, u2, u3}
MCNoScripts == {}
TwoSlots == {r1, r2}
MCTabs == {t1, t2}
MCAddresses == {e1, e2}
MCSubjects == {g1, g2}
MCKnown == {g1}
MCFirstGoogle == (g1 :> e2) @@ (g2 :> NONE)
MCSymmetry == Permutations(MCUsers) \cup Permutations(TwoSlots) \cup Permutations(MCTabs)
=============================================================================
