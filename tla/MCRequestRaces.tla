--------------------------- MODULE MCRequestRaces ---------------------------
(***************************************************************************)
(* Instances of RequestRaces for TLC: one administrator, one agent, one    *)
(* incident, two overlapping requests.                                     *)
(***************************************************************************)
EXTENDS RequestRaces, TLC

CONSTANTS adm, ag1, i1, r1, r2

Pair        == {adm, ag1}
PairSeed    == [u \in Pair |-> IF u = adm THEN "ADMIN" ELSE "AGENT"]
Solo        == {adm}
SoloSeed    == [u \in Solo |-> "ADMIN"]
AllKinds    == {"status", "assign", "unassign", "sla", "priority", "proof"}
WriteKinds  == {"status", "assign", "unassign", "priority"}
ProofKinds  == {"status", "proof"}
NoScripts   == {}
OneIncident == {i1}
NoTime      == {0}
FireOnly    == {"FIRE_HAZARD"}
P2Only      == {"P2"}
OneHour     == {1}
TwoSlots    == {r1, r2}
SlotSymmetry == Permutations(TwoSlots)
=============================================================================
