------------------------------ MODULE Pipeline ------------------------------
(***************************************************************************)
(* scripts/run_pipeline.py and the scripts it starts, as a program whose   *)
(* memory is the files of data/processed/: one step writes its tables one  *)
(* after another, in place, from the tables it finds on disk.  The         *)
(* publishers' files change between runs, a run may start at a phase, be a *)
(* single step, use the fixtures, go on after an error, or be killed while *)
(* it writes.                                                              *)
(*                                                                         *)
(* A table is modelled by its rows and by the columns the rules of         *)
(* DatasetRules compute, and checked by those of DatasetAudits; a file     *)
(* that is missing is not in the domain of `file`, and of one whose write  *)
(* was cut it holds nothing.  Random draws are modelled by all the pairs   *)
(* they can contain.                                                       *)
(***************************************************************************)
EXTENDS DatasetAudits, Sequences

CONSTANTS
  Cities,        \* the sources, in the order in which phase 2 takes them
  Fixtures,      \* Fixtures[s]: the synthetic records of tests/fixtures
  Deliveries,    \* what data/raw can hold
  Commands,      \* the ways in which the operator starts the runner
  MaxStarts,     \* bounds
  MaxDeliveries,
  MaxKills

VARIABLES
  raw,       \* raw[s]: the records of data/raw/s, none when there is no file
  file,      \* file[name]: the table on disk, of the files that are there
  torn,      \* the files on disk whose write was cut
  run,       \* the runner's remaining work, or NONE
  outcome,   \* the report of the run that left the files as they are, or NONE
  spare      \* what is left of the bounds

vars == <<raw, file, torn, run, outcome, spare>>

Sources == {Cities[i] : i \in DOMAIN Cities}

ASSUME PipelineAssumption ==
  /\ MaxStarts \in Nat /\ MaxDeliveries \in Nat /\ MaxKills \in Nat
  /\ Cities \in Seq({"sf311", "boston311", "chicago311", "nyc311"})
  /\ \A s \in Sources : Fixtures[s] \subseteq {r \in Records : Source[r] = s}
  /\ \A d \in Deliveries : \A s \in Sources : d[s] \subseteq {r \in Records : Source[r] = s}
  /\ \A c \in Commands : c.from \in 1..7

-----------------------------------------------------------------------------
(* The steps and the tables they write. *)

Built == [
  build_incidents |-> <<"incidents">>,
  build_time_features |-> <<"time">>,
  build_geo_features |-> <<"geo">>,
  build_priority_features |-> <<"prioritised", "priority">>,
  build_resolution_dataset |-> <<"resolution">>,
  build_hotspot_dataset |-> <<"hotspot">>,
  build_duplicate_pairs |-> <<"duplicates">>,
  build_ml_dataset |-> <<"ml">>,
  build_task_datasets |-> <<"resolution_ml", "sla_ml", "hotspot_ml", "duplicate_ml",
                            "priority_features">>]

\* A preprocessing step is named by its source.
Writes(step) ==
  IF step \in DOMAIN Built THEN Built[step]
  ELSE IF step \in Sources THEN <<step>> ELSE <<>>

Files == Sources \cup UNION {{Built[b][i] : i \in DOMAIN Built[b]} : b \in DOMAIN Built}

Phases_PriorityFirst == <<   \* MUTANT: scores before the features exist
  <<"dataset_status", "validate_mappings">>,
  Cities,
  <<"build_incidents">>,
  <<"build_priority_features">>,
  <<"build_time_features", "build_geo_features">>,
  <<"build_resolution_dataset", "build_hotspot_dataset", "build_duplicate_pairs",
    "build_ml_dataset", "build_task_datasets">>,
  <<"data_quality_report", "validate_provenance", "validate_leakage", "validate_outputs",
    "audit_pipeline", "audit_task_datasets", "audit_statistics", "report_category_candidates">> >>

\* The steps of each phase, in their order
Phases == <<
  <<"dataset_status", "validate_mappings">>,
  Cities,
  <<"build_incidents">>,
  <<"build_time_features", "build_geo_features">>,
  <<"build_priority_features">>,
  <<"build_resolution_dataset", "build_hotspot_dataset", "build_duplicate_pairs",
    "build_ml_dataset", "build_task_datasets">>,
  <<"data_quality_report", "validate_provenance", "validate_leakage", "validate_outputs",
    "audit_pipeline", "audit_task_datasets", "audit_statistics", "report_category_candidates">> >>

\* A step's place: its phase, and where it stands in it
Places == UNION {{phase} \X DOMAIN Phases[phase] : phase \in DOMAIN Phases}
StepAt(x) == Phases[x[1]][x[2]]
Before(x, y) == x[1] < y[1] \/ (x[1] = y[1] /\ x[2] < y[2])
First(places) == CHOOSE x \in places : \A y \in places : x = y \/ Before(x, y)

Delivered == {s \in Sources : raw[s] # {}}

\* The steps of a command: from a phase on, or the single one it names; of the
\* cities, those that have files.
Asked(c) ==
  {x \in Places : /\ x[1] >= c.from
                  /\ c.only \in {NONE, StepAt(x)}
                  /\ StepAt(x) \in Sources => c.fixtures \/ StepAt(x) \in Delivered}

-----------------------------------------------------------------------------
(* What is on disk. *)

On(f) == f \in DOMAIN file
Tables(fs) == {f \in fs : On(f)}

\* load_incidents: the prioritised table if there is one.
Corpus == IF On("prioritised") THEN "prioritised" ELSE "incidents"
Rows(f) == IF f = "prioritised" THEN DOMAIN file[f] ELSE file[f]

\* A left join on incident_id: rows that a feature table lacks get nulls.
Timed(r) == On("time") /\ r \in file["time"]
\* Without the table of time features a step derives them.
TimedOrDerived(r) == On("time") => Timed(r)
Density(r) == IF On("geo") /\ r \in DOMAIN file["geo"] THEN file["geo"][r] ELSE NULLS

\* What a script that only checks reads, and without which of it it gives up.
Reads(reads, needs) == [reads |-> reads, needs |-> needs]

TaskTables == {Built["build_task_datasets"][k] : k \in 1..5}

DatasetStatus == Reads(Sources, {})
ValidateMappings == Reads({"incidents"}, {})
DataQualityReport == Reads(Sources \cup {Corpus, "resolution", "hotspot", "duplicates"}, {})
ValidateProvenance == Reads({"incidents", "duplicates"}, {"incidents"})
ValidateLeakage ==
  Reads({"incidents", "geo", "priority", "resolution", "hotspot", "duplicates"}, {})
ValidateOutputs ==
  Reads({"incidents", "priority", "resolution", "hotspot", "duplicates"},
        {"priority", "resolution", "hotspot", "duplicates"})
AuditPipeline ==
  Reads(Sources \cup {Corpus, "time", "geo", "priority", "ml", "resolution", "hotspot"}, {Corpus})
AuditTaskDatasets == Reads({"geo"} \cup TaskTables, {})
AuditStatistics == Reads({"ml", "prioritised", "resolution"} \cup TaskTables, {})
ReportCategoryCandidates == Reads({}, {})

Checks ==
  [dataset_status |-> DatasetStatus, validate_mappings |-> ValidateMappings,
   data_quality_report |-> DataQualityReport, validate_provenance |-> ValidateProvenance,
   validate_leakage |-> ValidateLeakage, validate_outputs |-> ValidateOutputs,
   audit_pipeline |-> AuditPipeline, audit_task_datasets |-> AuditTaskDatasets,
   audit_statistics |-> AuditStatistics, report_category_candidates |-> ReportCategoryCandidates]

TaskSource == <<"resolution", "resolution", "hotspot", "duplicates", "priority">>

\* The tables a step reads before it writes its i-th output.
Inputs(step, i) ==
  CASE step \in DOMAIN Checks -> Checks[step].reads
    [] step \in Sources -> {}
    [] step = "build_incidents" -> Sources
    [] step \in {"build_time_features", "build_geo_features", "build_duplicate_pairs"} ->
         {"incidents"}
    [] step = "build_priority_features" -> {"incidents", "time", "geo"}
    [] step \in {"build_resolution_dataset", "build_ml_dataset"} -> {Corpus, "time", "geo"}
    [] step = "build_hotspot_dataset" -> {Corpus}
    [] step = "build_task_datasets" -> {TaskSource[i]}

\* The tables without which a step gives up.
Needs(step) ==
  CASE step \in DOMAIN Checks -> Checks[step].needs
    [] step \in {"build_time_features", "build_geo_features", "build_priority_features",
                 "build_duplicate_pairs"} -> {"incidents"}
    [] step \in {"build_resolution_dataset", "build_hotspot_dataset"} -> {Corpus}
    [] step = "build_ml_dataset" -> {Corpus, "time", "geo"}
    [] OTHER -> {}

-----------------------------------------------------------------------------
(* What the steps write. *)

Split(rows) ==
  LET per == ChronologicalSplit(Restrict(At, rows), Source)
      global == ChronologicalSplit(Restrict(At, rows), OneGroup(rows))
  IN [r \in rows |-> [split |-> per[r], global |-> global[r]]]

Prioritised(rows) == [r \in rows |-> ApplyBlock(r, Density(r))]

AllIncidents == UNION {file[s] : s \in Tables(Sources)}
TimeRows(rows) == rows
GeoRows(rows) == HistoricalDensity(rows)

PriorityRows(rows) ==
  LET split == Split(rows)
  IN [r \in rows |-> [policy |-> ApplyBlock(r, Density(r)), density |-> Density(r),
                      timed |-> TimedOrDerived(r), split |-> split[r]]]

ResolutionRows(rows) ==
  LET closed == Closed(InScope(rows))
      split == Split(closed)
  IN [r \in closed |-> [hours |-> ResolutionHours(r), breach |-> SlaBreach(r),
                        density |-> Density(r), timed |-> TimedOrDerived(r), split |-> split[r]]]

MlRows(f) ==
  LET split == Split(Rows(f))
  IN [r \in Rows(f) |->
       [policy |-> IF f = "prioritised" THEN file[f][r] ELSE NONE,
        density |-> Density(r), timed |-> Timed(r),
        hours |-> ResolutionHours(r), breach |-> SlaBreach(r), split |-> split[r]]]

WithTarget(resolution) ==
  [r \in {q \in DOMAIN resolution : resolution[q].breach # NONE} |-> resolution[r]]

\* The task tables take all rows of their source, but for sla_ml.
ResolutionTask == file["resolution"]
SlaTask == WithTarget(file["resolution"])
HotspotTask == file["hotspot"]
DuplicateTask == file["duplicates"]
PriorityTask == file["priority"]

TaskTable(i) ==
  CASE i = 1 -> ResolutionTask [] i = 2 -> SlaTask [] i = 3 -> HotspotTask
    [] i = 4 -> DuplicateTask [] i = 5 -> PriorityTask

\* The rows a preprocessing step takes from the publisher's file, or a fixture.
SourceRows(source) == Cleaned(IF run.fixtures THEN Fixtures[source] ELSE raw[source])

Table(step, i) ==
  CASE step \in Sources -> SourceRows(step)
    [] step = "build_incidents" -> AllIncidents
    [] step = "build_time_features" -> TimeRows(file["incidents"])
    [] step = "build_geo_features" -> GeoRows(file["incidents"])
    [] step = "build_priority_features" ->
         IF i = 1 THEN Prioritised(file["incidents"]) ELSE PriorityRows(file["incidents"])
    [] step = "build_resolution_dataset" -> ResolutionRows(Rows(Corpus))
    [] step = "build_hotspot_dataset" -> HotspotPanel(Rows(Corpus))
    [] step = "build_duplicate_pairs" -> DuplicatePairs(file["incidents"])
    [] step = "build_ml_dataset" -> MlRows(Corpus)
    [] step = "build_task_datasets" -> TaskTable(i)

LeftAlone_IfPresent(step, i) ==   \* MUTANT: a table that exists is not built again
  Writes(step) # <<>> /\ On(Writes(step)[i])

\* An output that a step leaves as it is: a source without rows never opens its
\* writer, a task without a source table is passed over, and so is sla_ml when
\* no row has a target.
LeftAlone(step, i) ==
  \/ step \in Sources /\ SourceRows(step) = {}
  \/ /\ step = "build_task_datasets"
     /\ \/ \E f \in Inputs(step, i) : ~On(f)
        \/ i = 2 /\ DOMAIN SlaTask = {}

-----------------------------------------------------------------------------
(* What the checks find.  A check compares only the tables it finds. *)

OutputsSound ==
  /\ OrderedRows(file["priority"]) /\ OrderedRows(file["resolution"])              \* OUT-3
  /\ FirstInOneFold(file["duplicates"])                                           \* OUT-4
  /\ DOMAIN file["duplicates"].positives # {}                                     \* OUT-4b
  /\ DOMAIN file["duplicates"].negatives # {}
  /\ \E r \in DOMAIN file["priority"] : file["priority"][r].density # NULLS        \* OUT-8c
  /\ LagsAgree(file["hotspot"])                                                   \* OUT-10

LeakageFindings ==
  (IF On("hotspot")
     THEN Flag("LEAK-2", LagsAgree(file["hotspot"])) \cup Flag("LEAK-3", TargetsAgree(file["hotspot"]))
          \cup Flag("LEAK-5", OrderedPanel(file["hotspot"]))
     ELSE {})
  \cup (IF On("geo") /\ On("incidents")
          THEN Flag("LEAK-4", DensityAgrees(file["geo"], file["incidents"])) ELSE {})
  \cup (IF On("priority") THEN Flag("LEAK-5", OrderedRows(file["priority"])) ELSE {})
  \cup (IF On("duplicates") THEN Flag("LEAK-6", FirstInOneFold(file["duplicates"])) ELSE {})

AuditFindings ==
  LET corpus == Rows(Corpus) IN
  AuditDataset(corpus, [s \in Tables(Sources) |-> Cardinality(file[s])])
  \cup (IF On("time") THEN FeaturesCover("DS-5/time", file["time"], corpus)
                           \cup AuditTime(corpus, file["time"]) ELSE {})
  \cup (IF On("geo") THEN FeaturesCover("DS-5/geo", DOMAIN file["geo"], corpus)
                          \cup AuditDensity(file["geo"], corpus) ELSE {})
  \cup (IF On("priority") THEN AuditPriority(file["priority"]) \cup AuditTarget(corpus) ELSE {})
  \cup (UNION {AuditSplit(file[f]) : f \in Tables({"priority", "resolution", "ml"})})
  \cup (IF On("hotspot") THEN AuditPanelSplit(file["hotspot"]) ELSE {})

TaskFindings ==
  (IF On("hotspot_ml") THEN AuditPanel(file["hotspot_ml"]) ELSE {})
  \cup (IF On("duplicate_ml") THEN AuditPairs(file["duplicate_ml"]) ELSE {})
  \cup (UNION {AuditTask(file[f]) \cup (IF On("geo") THEN AuditJoined(file[f], file["geo"]) ELSE {}) :
                  f \in Tables({"resolution_ml", "sla_ml", "priority_features"})})
  \cup (UNION {AuditPopulated(DOMAIN file[f]) : f \in Tables({"resolution_ml", "sla_ml"})})

\* The failures that a script only reports, those included that it may report.
Alarms(step) ==
  CASE step = "validate_leakage" -> LeakageFindings
    [] step = "audit_pipeline" -> AuditFindings
    [] step = "audit_task_datasets" -> TaskFindings
    [] OTHER -> {}

WithoutHour == IF On("time") THEN Rows(Corpus) \ WithHour(Rows(Corpus), file["time"]) ELSE {}

\* The i-th output of a step, or its check, does not end with a non-zero code.
\* The time profile of audit_pipeline takes the least hour of every source.
Succeeds(step, i) ==
  /\ Inputs(step, i) \cap torn = {}
  /\ \A f \in Needs(step) : On(f)
  /\ step \in {"build_incidents", "report_category_candidates"} => Tables(Sources) # {}
  /\ step = "build_hotspot_dataset" => Zoned(Rows(Corpus)) # {}
  /\ step = "build_duplicate_pairs" => Positives(file["incidents"]) # {}
  /\ step = "validate_outputs" => OutputsSound
  /\ step = "audit_pipeline" =>
       \A r \in WithoutHour : \E q \in Rows(Corpus) \ WithoutHour : Source[q] = Source[r]

\* Where pandas is older than 2.2, which requirements.txt admits, TF-5 raises when
\* it compares an hour with a null.
MayRaise(step) == step = "audit_pipeline" /\ Succeeds(step, 1) /\ WithoutHour # {}

-----------------------------------------------------------------------------
(* Actions. *)

Step == StepAt(First(run.todo))
Output == run.part + 1
Spend(what) == /\ spare[what] > 0
               /\ spare' = [spare EXCEPT ![what] = @ - 1]

\* The table is written over the one on disk.
Put(name, table) ==
  /\ file' = [f \in DOMAIN file \cup {name} |-> IF f = name THEN table ELSE file[f]]
  /\ torn' = torn \ {name}

Cut(name) ==
  /\ file' = [f \in DOMAIN file \cup {name} |-> IF f = name THEN {} ELSE file[f]]
  /\ torn' = torn \cup {name}

Init ==
  /\ raw \in Deliveries
  /\ file = <<>> /\ torn = {}
  /\ run = NONE
  /\ outcome = NONE
  /\ spare = [starts |-> MaxStarts, deliveries |-> MaxDeliveries, kills |-> MaxKills]

\* Refused when data/raw is empty or the command names no step.
Start(c) ==
  /\ run = NONE
  /\ c.fixtures \/ Delivered # {}
  /\ Asked(c) # {}
  /\ Spend("starts")
  /\ run' = [fixtures |-> c.fixtures, from |-> c.from, only |-> c.only, keep |-> c.keep,
             todo |-> Asked(c), part |-> 0, failed |-> {}, alarms |-> {}]
  /\ outcome' = NONE
  /\ UNCHANGED <<raw, file, torn>>

Advance ==
  IF Output < Len(Writes(Step)) THEN [run EXCEPT !.part = Output]
  ELSE [run EXCEPT !.todo = @ \ {First(@)}, !.part = 0, !.alarms = @ \cup Alarms(Step)]

Working == run # NONE /\ run.todo # {}
Writing == Working /\ Writes(Step) # <<>> /\ Succeeds(Step, Output) /\ ~LeftAlone(Step, Output)

WriteTable ==
  /\ Writing
  /\ Put(Writes(Step)[Output], Table(Step, Output))
  /\ run' = Advance
  /\ UNCHANGED <<raw, outcome, spare>>

\* A check, or an output that is left alone.
PassOn ==
  /\ Working
  /\ Succeeds(Step, Output)
  /\ ~Writing
  /\ run' = Advance
  /\ UNCHANGED <<raw, file, torn, outcome, spare>>

StepFails ==
  /\ Working
  /\ ~Succeeds(Step, Output) \/ MayRaise(Step)
  /\ run' = [run EXCEPT !.failed = @ \cup {Step}, !.part = 0,
                        !.todo = IF run.keep THEN @ \ {First(@)} ELSE {}]
  /\ UNCHANGED <<raw, file, torn, outcome, spare>>

\* The report of the run.
Finish ==
  /\ run # NONE
  /\ run.todo = {}
  /\ run' = NONE
  /\ outcome' = [fixtures |-> run.fixtures, from |-> run.from, only |-> run.only,
                 keep |-> run.keep, failed |-> run.failed, alarms |-> run.alarms]
  /\ UNCHANGED <<raw, file, torn, spare>>

\* The table being written is cut.
Kill ==
  /\ Writing
  /\ Spend("kills")
  /\ Cut(Writes(Step)[Output])
  /\ run' = NONE
  /\ UNCHANGED <<raw, outcome>>

\* New files arrive in data/raw.
Deliver ==
  /\ run = NONE
  /\ Spend("deliveries")
  /\ raw' \in Deliveries \ {raw}
  /\ outcome' = NONE
  /\ UNCHANGED <<file, torn, run>>

\* The operator deletes data/processed, as the marker of a fixture run asks.
DeleteProcessed ==
  /\ run = NONE
  /\ Spend("deliveries")
  /\ file' = <<>> /\ torn' = {}
  /\ outcome' = NONE
  /\ UNCHANGED <<raw, run>>

Next ==
  \/ \E c \in Commands : Start(c)
  \/ WriteTable \/ PassOn \/ StepFails \/ Finish
  \/ Kill \/ Deliver \/ DeleteProcessed

PipelineSpec == Init /\ [][Next]_vars

-----------------------------------------------------------------------------
(* Properties. *)

Readable(f) == On(f) /\ f \notin torn
FoldNames == Folds \cup {"unassigned"}

\* Tables hold rows of their kind, and the runner is at an output of its step.
PipelineTypeOK ==
  /\ raw \in Deliveries
  /\ torn \subseteq DOMAIN file /\ DOMAIN file \subseteq Files
  /\ \A f \in Sources \cup {"incidents", "time"} : Readable(f) => file[f] \subseteq Records
  /\ \A f \in {"priority", "ml", "resolution"} : Readable(f) =>
       \A r \in DOMAIN file[f] : file[f][r].split.split \in FoldNames
  /\ Working => run.part \in 0..Len(Writes(Step)) /\ (run.part > 0 => run.part < Len(Writes(Step)))
  /\ run = NONE \/ run.failed \subseteq {StepAt(x) : x \in Places}

Finished == run = NONE /\ outcome # NONE

\* Every table is the one that this incident table gives.
Coherent(rows) ==
  LET closed == Closed(InScope(rows))
  IN /\ \A f \in {"time", "geo", "prioritised", "priority", "ml", "resolution", "hotspot", "duplicates",
                 "resolution_ml", "hotspot_ml", "duplicate_ml", "priority_features"} : Readable(f)
     /\ file["time"] = rows
     /\ file["geo"] = HistoricalDensity(rows)
     /\ file["prioritised"] = [r \in rows |-> ApplyBlock(r, file["geo"][r])]
     /\ \A f \in {"priority", "ml"} :
          /\ DOMAIN file[f] = rows
          /\ \A r \in rows : file[f][r].policy = file["prioritised"][r] /\ file[f][r].timed
     /\ DOMAIN file["resolution"] = closed
     /\ \A r \in closed : file["resolution"][r].density = file["geo"][r] /\ file["resolution"][r].timed
     /\ file["hotspot"] = HotspotPanel(rows)
     /\ file["duplicates"] = DuplicatePairs(rows)
     /\ file["resolution_ml"] = file["resolution"]
     /\ file["hotspot_ml"] = file["hotspot"]
     /\ file["duplicate_ml"] = file["duplicates"]
     /\ file["priority_features"] = file["priority"]
     /\ DOMAIN SlaTask # {} => Readable("sla_ml") /\ file["sla_ml"] = SlaTask

\* Phase 1, which only looks at what an earlier run left
Verifiers == {"dataset_status", "validate_mappings"}

\* A run from phase 4 or earlier in which no step failed that builds anything
Rebuilt ==
  /\ Finished /\ outcome.only = NONE /\ outcome.from <= 4
  /\ outcome.failed = {} \/ (outcome.keep /\ outcome.failed \subseteq Verifiers)

\* After such a run, whatever was on disk before it, all the datasets describe
\* the incident table on disk.  And the state is typed.
OneCorpus ==
  /\ PipelineTypeOK
  /\ Rebuilt => Readable("incidents") /\ Coherent(file["incidents"])

Undated(rows) == rows \ Known(rows, At)
Placed(rows) == {r \in rows : Facts[r].place # NONE}

\* What the checks may say of tables that are as they should be: it speaks of the
\* incidents themselves.  Too few rows for three folds; a row without a time, which
\* has no hour, and if it has a place no density either; one band, or a score for
\* each category; no closed report, no week; no quiet week, or no other.
ExpectedAlarms(rows) ==
  LET density == HistoricalDensity(rows)
      policy == [r \in rows |-> ApplyBlock(r, density[r])]
      panel == HotspotPanel(rows)
  IN {"SPL-1", "TL-11", "TL-5"}
     \cup Flag("TF-5", Undated(rows) = {}) \cup Flag("DN-1", Undated(Placed(rows)) = {})
     \cup Flag("PR-2", SeveralBands(policy)) \cup Flag("PR-7", ScoresVary(policy))
     \cup Flag("TG-5", Closed(rows) # {})
     \cup Flag("TASK-4", Closed(InScope(rows)) # {} /\ DOMAIN panel # {})
     \cup Flag("TL-9b", QuietWeek(panel)) \cup Flag("TL-9c", QuietWeek(panel) /\ BusyWeek(panel))

\* Of what a run without failures, from phase 3 or earlier, has built the scripts'
\* own checks say nothing else: whatever was on disk before, nothing that compares
\* a table with another one or with its derivation fails.
CleanRunRaisesNoAlarm ==
  Finished /\ outcome.only = NONE /\ outcome.from <= 3 /\ outcome.failed = {}
    => outcome.alarms \subseteq ExpectedAlarms(file["incidents"])

\* The incident table of each delivery
Corpora == [d \in Deliveries |-> UNION {Cleaned(d[s]) : s \in Sources}]

EveryTaskHasData(rows) ==
  /\ \A s \in Sources : \E r \in Known(rows, At) : Source[r] = s
  /\ Zoned(rows) # {} /\ Usable(rows) # {} /\ Positives(rows) # {}
  /\ \E fold \in {IncidentSplits(rows)} : Negatives(rows, fold) # {}

\* The step that an old pandas may fail where a report has no time
Raising(rows) == IF Undated(rows) = {} THEN {} ELSE {"audit_pipeline"}

\* With every city delivered, a run of all phases fails only in the first one,
\* on a table an earlier kill tore, or as MayRaise says; and one that goes on after
\* errors rebuilds the incident table and leaves none torn, but for an sla_ml that
\* no row asks for.
FullRunHeals ==
  Finished /\ outcome.only = NONE /\ outcome.from = 1 /\ ~outcome.fixtures
    /\ EveryTaskHasData(Corpora[raw])
    => IF outcome.keep
         THEN /\ torn \subseteq {"sla_ml"}
              /\ Readable("incidents") /\ file["incidents"] = Corpora[raw]
              /\ torn = {} => outcome.failed \subseteq Verifiers \cup Raising(Corpora[raw])
         ELSE ~(outcome.failed \subseteq Raising(Corpora[raw])) =>
                \/ outcome.failed \subseteq Verifiers /\ torn \cap (Sources \cup {"incidents"}) # {}
                \/ "sla_ml" \in torn

\* Each group is cut in time order, and no fold is empty that three distinct
\* times could fill.
Inhabited(rows, T, F) ==
  LET dated == Known(rows, T)
  IN Cardinality({T[r] : r \in dated}) >= 3 => {F[r] : r \in dated} = Folds

GlobalFold(table) == [r \in DOMAIN table |-> table[r].split.global]

FoldsAreOrderedAndInhabited ==
  run = NONE =>
    /\ \A f \in {"priority", "ml", "resolution"} : Readable(f) =>
         /\ OrderedRows(file[f])
         /\ \A s \in Sources :
              Inhabited({r \in DOMAIN file[f] : Source[r] = s}, At, FoldOf(file[f]))
         /\ Ordered(DOMAIN file[f], At, OneGroup(DOMAIN file[f]), GlobalFold(file[f]))
         /\ Inhabited(DOMAIN file[f], At, GlobalFold(file[f]))
    /\ Readable("hotspot") =>
         /\ OrderedPanel(file["hotspot"])
         /\ \A s \in Sources :
              Inhabited({x \in DOMAIN file["hotspot"] : x[1][1] = s}, PanelStart(file["hotspot"]),
                        PanelFold(file["hotspot"]))

\* No incident is in pairs of two folds, on whichever side of a pair it is.
DuplicateGroupsStayInOneFold ==
  run = NONE /\ Readable("duplicates") =>
    EntitiesInOneFold(file["duplicates"])

=============================================================================
