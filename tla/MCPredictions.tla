--------------------------- MODULE MCPredictions ---------------------------
(***************************************************************************)
(* Instances of Predictions for TLC.  Periods and thresholds are scaled    *)
(* down, each so that its own window opens and closes within a few         *)
(* minutes; the order of the real periods is not kept.                     *)
(***************************************************************************)
EXTENDS Predictions

CONSTANTS city

Four == 0 .. 3
Two  == {1, 2}
One  == {2}

Spot    == [area |-> city, ix |-> 1, iy |-> 1]
Outside == [area |-> NONE, ix |-> 0, iy |-> 0]
SpotAndOutside == {Spot, Outside}

\* The first incident is history, the second is predicted: of the same kind and
\* place, or an unsupported one outside of every service area.
MCReports == {<<1, "POTHOLE", Spot, 1>>, <<2, "POTHOLE", Spot, 1>>,
              <<2, "FIRE_HAZARD", Outside, 1>>}
Trained   == {1, 2}
Windows   == {1, 2}

\* Resolutions that took longer than a minute were not seen in training.
Ranges == [wl_recent_mean_log_res |-> {{<<1, 1>>}}]
NoWild == {}
ModelOk(altered) == [trusted |-> TRUE, altered |-> altered, broken |-> {}, runtime |-> TRUE]
MCBundles == {<<TRUE, "v1", ModelOk({})>>, <<TRUE, "v1", ModelOk({"feature_ranges", "sla"})>>}
=============================================================================
