---------------------------- MODULE MCDashboards ----------------------------
(***************************************************************************)
(* Instances of Dashboards for TLC.                                        *)
(***************************************************************************)
EXTENDS Dashboards, TLC

CONSTANTS i1, i2, a1, a2, b, s1, s2

MCIncidents == {i1, i2}
MCUsers == {a1, a2, b}
MCMe == a1
MCBoss == b
MCSlots == {s1, s2}
MCFirstRows == (i1 :> [status |-> "ASSIGNED", agent |-> a1, version |-> 0])
            @@ (i2 :> [status |-> "RESOLVED", agent |-> a1, version |-> 0])
MCAway == {a2}
=============================================================================
