---------------------------- MODULE MCDownloads ----------------------------
(* Chicago, San Francisco and two years of Boston, for TLC. *)
EXTENDS Downloads

CONSTANTS chicago, sanfrancisco, boston19, boston20

MCAppended == {chicago}
MCRewritten == {sanfrancisco}
MCStreamed == {boston19, boston20}
MCDataset == [f \in {chicago, sanfrancisco, boston19, boston20} |->
                IF f \in MCStreamed THEN "boston311" ELSE f]
MCCommands == {<<chicago>>, <<sanfrancisco>>, <<boston19, boston20>>}
MCFirstSize == [f \in {chicago, sanfrancisco, boston19, boston20} |->
                CASE f = chicago -> 3 [] f = sanfrancisco -> 2 [] f = boston19 -> 2 [] OTHER -> 1]
MCLimits == {NONE, 1}
=============================================================================
