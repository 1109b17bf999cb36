----------------------------- MODULE MCPipeline -----------------------------
(* Two sources over six weeks, with fixtures of one report each. *)
EXTENDS Pipeline

MCRecords == 1..16

\* number, src, at, closed, due, place, zone, category, parent
MCRows == {
  <<1, "chicago311", 10, 40, NONE, 100, "w1", "POTHOLE", NONE>>,
  <<2, "chicago311", 200, 500, NONE, 150, "w1", "POTHOLE", 1>>,
  <<3, "chicago311", 210, 210, NONE, 340, "w1", "POTHOLE", 2>>,
  <<4, "chicago311", 600, 700, NONE, 320, "w2", "GARBAGE", 3>>,
  <<5, "chicago311", 900, 950, NONE, 5000, "w1", "OPEN_MANHOLE", NONE>>,
  <<6, "chicago311", 905, NONE, NONE, NONE, NONE, "UNMAPPED", NONE>>,
  <<7, "chicago311", 1100, NONE, NONE, NONE, "w2", "GARBAGE", 5>>,
  <<8, "chicago311", 450, 460, NONE, 120, "w1", "INFORMATION", 1>>,
  <<9, "nyc311", 20, 90, 100, 9000, "b1", "GARBAGE", NONE>>,
  <<10, "nyc311", 400, 430, 420, 9050, "b1", "GARBAGE", NONE>>,
  <<11, "nyc311", 800, 900, 1000, 9100, "b1", "POTHOLE", NONE>>,
  <<12, "nyc311", 860, 1000, 900, 9300, "b1", "POTHOLE", NONE>>,
  <<13, "chicago311", 30, 60, NONE, 100, "w1", "POTHOLE", NONE>>,
  <<14, "chicago311", 700, 720, NONE, 100, "w1", "POTHOLE", 13>>,
  <<15, "nyc311", 50, 60, 55, 9000, "b1", "GARBAGE", NONE>>,
  <<16, "chicago311", NONE, 300, NONE, 130, "w1", "POTHOLE", 2>>}

MCFacts == [r \in MCRecords |->
  CHOOSE facts \in {[src |-> row[2], at |-> row[3], closed |-> row[4], due |-> row[5],
                     row |-> row[2], place |-> row[6], zone |-> row[7], category |-> row[8], parent |-> row[9]] :
                      row \in {x \in MCRows : x[1] = r}} : TRUE]

\* Each city lies along one row of cells; those of New York are the narrower.
MCCellWidth == [chicago311 |-> 130, nyc311 |-> 60]

MCBaseScore == [c \in {"POTHOLE", "GARBAGE", "OPEN_MANHOLE"} |->
                 IF c = "OPEN_MANHOLE" THEN 95 ELSE IF c = "POTHOLE" THEN 70 ELSE 40]
MCAbsoluteP1 == {"OPEN_MANHOLE"}
MCExcluded == {"INFORMATION"}
MCCities == <<"chicago311", "nyc311">>
Both(c, n) == [s \in {"chicago311", "nyc311"} |-> IF s = "chicago311" THEN c ELSE n]
MCFixtures == Both({13, 14}, {15})

\* Complete; a later extract that lost and gained reports; New York alone.
MCDeliveries == {Both(1..8, 9..12), Both({1, 2, 3, 5, 16}, {9, 12}), Both({}, 9..11)}

Command(fixtures, from, only, keep) ==
  [fixtures |-> fixtures, from |-> from, only |-> only, keep |-> keep]
MCCommands == {
  Command(FALSE, 1, NONE, FALSE), Command(FALSE, 1, NONE, TRUE),
  Command(TRUE, 1, NONE, FALSE), Command(FALSE, 4, NONE, FALSE),
  Command(FALSE, 6, NONE, FALSE), Command(FALSE, 1, "build_incidents", FALSE)}
=============================================================================
