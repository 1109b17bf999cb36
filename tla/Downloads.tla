----------------------------- MODULE Downloads -----------------------------
(***************************************************************************)
(* The download scripts of the data pipeline (scripts/download) and the    *)
(* manifest they keep (scripts/utils/manifest.py).  Three ways of writing  *)
(* a raw file:                                                             *)
(*   Appended   Chicago: pages appended after the rows already on disk     *)
(*   Rewritten  San Francisco, New York: pages written into a file that is *)
(*              opened anew                                                *)
(*   Streamed   Boston: one CSV per year, streamed into a partial file     *)
(* A script may be killed at any point and started again; requests fail;   *)
(* the publisher adds rows, withdraws rows and issues yearly files anew.   *)
(***************************************************************************)
EXTENDS Naturals, Sequences, SequencesExt

CONSTANTS Appended, Rewritten, Streamed,
          Dataset,        \* the dataset a raw file belongs to
          Commands,       \* what a script may be told to fetch, file by file
          FirstSize,      \* the rows of each file that are published at first
          PageSize, MaxRetries,
          Limits,         \* values of --max-pages; NONE is no limit
          MaxFaults,      \* bound: failures, kills and publications
          CORRUPT,        \* a manifest that is not JSON
          NONE

Paged == Appended \union Rewritten
Files == Paged \union Streamed
Datasets == {Dataset[f] : f \in Files}

\* Each script writes one paged file, or the yearly files one after the other.
ASSUME DownloadsAssumption ==
    /\ PageSize \in Nat \ {0} /\ MaxRetries \in Nat \ {0} /\ MaxFaults \in Nat
    /\ Appended \intersect Rewritten = {} /\ Paged \intersect Streamed = {}
    /\ FirstSize \in [Files -> Nat]
    /\ \A c \in Commands : \/ c \in Seq(Streamed) /\ c # <<>>
                           \/ \E f \in Paged : c = <<f>>

Row == [key : Nat, edition : Nat]
RawFile == [rows : Seq(Row), torn : BOOLEAN]

\* A missing file is no file, and what is no JSON is no manifest.
ASSUME NoFileAssumption ==
    /\ NONE \notin Seq(Row) /\ NONE \notin RawFile
    /\ \A S \in SUBSET Files : CORRUPT \notin [S -> Seq(Row)]

VARIABLES
    published,  \* what the publisher serves: for each file a sequence of rows
    raw,        \* the raw file: [rows, torn], NONE when it does not exist
    inner,      \* the .csv.part.part of stream_to_file, NONE when there is none
    outer,      \* the .csv.part of download_year
    manifest,   \* per dataset the listed content of each listed file, or CORRUPT
    failed,     \* the datasets with a FAILED manifest
    run,        \* the script that is running
    spare       \* the faults that may still happen

vars == <<published, raw, inner, outer, manifest, failed, run, spare>>

JUNK == [key |-> 0, edition |-> 0]   \* a row spoiled by the torn line before it
Empty == [rows |-> <<>>, torn |-> FALSE]
Idle == [pc |-> "idle", todo |-> <<>>, limit |-> NONE, expected |-> NONE,
         offset |-> 0, pages |-> 0, tries |-> 0, body |-> <<>>]

\* n rows in the order of their keys, which is the order every read asks for
Issue(n, edition) == [k \in 1..n |-> [key |-> k, edition |-> edition]]

Init ==
    /\ published = [f \in Files |-> Issue(FirstSize[f], 1)]
    /\ raw = [f \in Files |-> NONE]
    /\ inner = [f \in Streamed |-> NONE]
    /\ outer = [f \in Streamed |-> NONE]
    /\ manifest = [d \in Datasets |-> <<>>]
    /\ failed = {}
    /\ run = Idle
    /\ spare = MaxFaults

File == Head(run.todo)
Rows(f) == IF raw[f] = NONE THEN <<>> ELSE raw[f].rows

\* count_existing_rows counts lines: a torn last line is one
CountExistingRows(file) ==
    IF file = NONE THEN 0 ELSE Len(file.rows) + (IF file.torn THEN 1 ELSE 0)

\* appending to a file with a torn last line spoils the first row appended
Extended(file, rows) ==
    [rows |-> IF file.torn /\ rows # <<>> THEN file.rows \o <<JUNK>> \o Tail(rows)
              ELSE file.rows \o rows,
     torn |-> file.torn /\ rows = <<>>]

RepairPartialLastLine_Skipped(file) == file   \* MUTANT: the torn line is counted as a row

RepairPartialLastLine_All(file) ==   \* MUTANT: finds no newline and truncates the file
    IF file # NONE /\ file.torn THEN Empty ELSE file

RepairPartialLastLine(file) == IF file = NONE THEN NONE ELSE [file EXCEPT !.torn = FALSE]

\* the page the server answers
PageAt(f, offset) ==
    SubSeq(published[f], offset + 1, IF offset + PageSize < Len(published[f])
                                     THEN offset + PageSize ELSE Len(published[f]))

----------------------------------------------------------------------------
(* How a script ends, and how an attempt fails *)

\* fail: the non-acquisition is recorded
Fail ==
    /\ failed' = failed \union {Dataset[File]}
    /\ run' = Idle

\* the next year, or exit code 0
NextFile ==
    run' = IF Len(run.todo) = 1 THEN Idle
           ELSE [Idle EXCEPT !.pc = "year", !.todo = Tail(run.todo)]

AttemptFails_Unbounded ==   \* MUTANT: retries for ever
    run' = [run EXCEPT !.tries = 0] /\ UNCHANGED failed

\* _request and request_page try again, MaxRetries times at the most
AttemptFails ==
    IF run.tries + 1 = MaxRetries THEN Fail
    ELSE run' = [run EXCEPT !.tries = @ + 1] /\ UNCHANGED failed

Go(pc) == run' = [run EXCEPT !.pc = pc, !.tries = 0]

----------------------------------------------------------------------------
(* The steps of a script *)

\* main up to the preflight; Chicago repairs its file before anything else
Begin(c, limit) ==
    /\ run = Idle
    /\ run' = [Idle EXCEPT !.pc = "preflight", !.todo = c, !.limit = limit]
    /\ raw' = [f \in Files |-> IF f = c[1] /\ f \in Appended
                               THEN RepairPartialLastLine(raw[f]) ELSE raw[f]]
    /\ UNCHANGED <<published, inner, outer, manifest, failed, spare>>

Preflight ==
    /\ run.pc = "preflight"
    /\ Go(IF File \in Streamed THEN "year" ELSE "count")
    /\ UNCHANGED <<published, raw, inner, outer, manifest, failed, spare>>

Counted_AnyRows(n) ==   \* MUTANT: whatever is on disk is taken to be complete
    /\ LET existing == CountExistingRows(raw[File]) IN
       IF File \in Appended
       THEN /\ UNCHANGED raw
            /\ IF n # NONE /\ existing > 0
               THEN run' = Idle
               ELSE run' = [run EXCEPT !.pc = "page", !.expected = n, !.offset = existing]
       ELSE /\ raw' = [raw EXCEPT ![File] = Empty]
            /\ run' = [run EXCEPT !.pc = "page"]
    /\ UNCHANGED <<published, inner, outer, manifest, failed>>

\* what follows socrata_count, which answers n or NONE
Counted(n) ==
    /\ LET existing == CountExistingRows(raw[File]) IN
       IF File \in Appended
       THEN /\ UNCHANGED raw
            /\ IF n # NONE /\ existing >= n
               THEN run' = Idle
               ELSE run' = [run EXCEPT !.pc = "page", !.expected = n, !.offset = existing]
       ELSE /\ raw' = [raw EXCEPT ![File] = Empty]
            /\ run' = [run EXCEPT !.pc = "page"]
    /\ UNCHANGED <<published, inner, outer, manifest, failed>>


CountAnswered == run.pc = "count" /\ Counted(Len(published[File])) /\ UNCHANGED spare
CountFails == run.pc = "count" /\ spare > 0 /\ Counted(NONE) /\ spare' = spare - 1

\* the loop's own tests end the reading, or a page is asked for
LastPageRead ==
    \/ run.limit # NONE /\ run.pages >= run.limit
    \/ run.expected # NONE /\ run.offset >= run.expected
    \/ PageAt(File, run.offset) = <<>>

GetPage ==
    /\ run.pc = "page"
    /\ IF LastPageRead THEN Go("record")
       ELSE run' = [run EXCEPT !.pc = "write", !.tries = 0, !.body = PageAt(File, run.offset)]
    /\ UNCHANGED <<published, raw, inner, outer, manifest, failed, spare>>

\* append_page, or the inner loop of write_jsonl_pages; a short page is the last
WritePage ==
    /\ run.pc = "write"
    /\ raw' = [raw EXCEPT ![File] = Extended(IF @ = NONE THEN Empty ELSE @, run.body)]
    /\ run' = [run EXCEPT !.pc = IF Len(run.body) < PageSize THEN "record" ELSE "page",
                          !.offset = @ + Len(run.body), !.pages = @ + 1, !.body = <<>>]
    /\ UNCHANGED <<published, inner, outer, manifest, failed, spare>>

BeginYear_TrustsPartial ==   \* MUTANT: a .csv.part counts as a finished year
    /\ run.pc = "year"
    /\ IF raw[File] # NONE \/ outer[File] # NONE
       THEN NextFile /\ UNCHANGED outer
       ELSE Go("get") /\ outer' = [outer EXCEPT ![File] = NONE]
    /\ UNCHANGED <<published, raw, inner, manifest, failed, spare>>

\* download_year: a finished year is skipped, an old .csv.part is removed
BeginYear ==
    /\ run.pc = "year"
    /\ IF raw[File] # NONE
       THEN NextFile /\ UNCHANGED outer
       ELSE Go("get") /\ outer' = [outer EXCEPT ![File] = NONE]
    /\ UNCHANGED <<published, raw, inner, manifest, failed, spare>>


\* stream_to_file asks for what its own partial file lacks; the server refuses
\* a range that begins at the end, and that attempt fails like any other
Get ==
    /\ run.pc = "get"
    /\ LET from == IF inner[File] = NONE THEN 0 ELSE Len(inner[File]) IN
       IF inner[File] # NONE /\ from >= Len(published[File])
       THEN AttemptFails /\ UNCHANGED inner
       ELSE /\ run' = [run EXCEPT !.pc = "stream", !.tries = 0,
                                  !.body = SubSeq(published[File], from + 1, Len(published[File]))]
            /\ inner' = [inner EXCEPT ![File] = IF @ = NONE THEN <<>> ELSE @]
            /\ UNCHANGED failed
    /\ UNCHANGED <<published, raw, outer, manifest, spare>>

Stream ==
    /\ run.pc = "stream"
    /\ IF run.body # <<>>
       THEN /\ inner' = [inner EXCEPT ![File] = Append(@, Head(run.body))]
            /\ run' = [run EXCEPT !.body = Tail(@)]
            /\ UNCHANGED outer
       ELSE /\ inner' = [inner EXCEPT ![File] = NONE]
            /\ outer' = [outer EXCEPT ![File] = inner[File]]
            /\ Go("validate")
    /\ UNCHANGED <<published, raw, manifest, failed, spare>>

\* an empty year is an error; only a validated one gets its name
Validate ==
    /\ run.pc = "validate"
    /\ outer' = [outer EXCEPT ![File] = NONE]
    /\ IF outer[File] = <<>>
       THEN Fail /\ UNCHANGED raw
       ELSE /\ raw' = [raw EXCEPT ![File] = [rows |-> outer[File], torn |-> FALSE]]
            /\ Go("record")
            /\ UNCHANGED failed
    /\ UNCHANGED <<published, inner, manifest, spare>>

\* record: replaces the file's entry; a manifest that cannot be read counts as empty
Listed(d, f, rows) ==
    LET others == IF manifest[d] = CORRUPT THEN {} ELSE DOMAIN manifest[d] \ {f} IN
    [g \in others \union {f} |-> IF g = f THEN rows ELSE manifest[d][g]]

RecordEntry ==
    /\ run.pc = "record"
    /\ manifest' = [manifest EXCEPT ![Dataset[File]] = Listed(Dataset[File], File, Rows(File))]
    /\ NextFile
    /\ UNCHANGED <<published, raw, inner, outer, failed, spare>>

----------------------------------------------------------------------------
(* Faults *)

\* a request fails, or the egress proxy blocks its host, which is not retried
RequestFails ==
    /\ spare > 0 /\ run.pc \in {"preflight", "page", "get"}
    /\ run.pc = "page" => ~ LastPageRead
    /\ spare' = spare - 1
    /\ AttemptFails \/ Fail
    /\ UNCHANGED <<published, raw, inner, outer, manifest>>

\* the connection breaks inside a body: no retry, the exception ends the year
StreamBreaks ==
    /\ spare > 0 /\ run.pc = "stream" /\ run.body # <<>>
    /\ spare' = spare - 1
    /\ Fail
    /\ UNCHANGED <<published, raw, inner, outer, manifest>>

\* what a kill leaves of the file being written: an append that got as far as
\* any prefix of its page, a rewritten file as much of it as was flushed
Leftovers(f) ==
    LET written == Extended(IF raw[f] = NONE THEN Empty ELSE raw[f], run.body)
        least == IF f \in Appended THEN Len(Rows(f)) ELSE 0 IN
    {raw[f]} \union
    {[rows |-> SubSeq(written.rows, 1, n), torn |-> t] :
        n \in least..Len(written.rows), t \in BOOLEAN}

\* record rewrites the manifest in place: killed inside, it leaves no JSON
Kill ==
    /\ spare > 0 /\ run.pc # "idle"
    /\ spare' = spare - 1
    /\ run' = Idle
    /\ IF run.pc = "write" \/ (run.pc = "page" /\ File \in Rewritten)
       THEN \E file \in Leftovers(File) : raw' = [raw EXCEPT ![File] = file]
       ELSE UNCHANGED raw
    /\ \/ UNCHANGED manifest
       \/ run.pc = "record" /\ manifest' = [manifest EXCEPT ![Dataset[File]] = CORRUPT]
    /\ UNCHANGED <<published, inner, outer, failed>>

\* the publisher: reports get ascending keys; a report may be withdrawn, or
\* leave the filter; a yearly file is replaced as a whole
LastKey(f) == IF published[f] = <<>> THEN 0 ELSE Last(published[f]).key

Publish(f) ==
    /\ spare > 0
    /\ spare' = spare - 1
    /\ published' = [published EXCEPT ![f] = Append(@, [key |-> LastKey(f) + 1, edition |-> 1])]
    /\ UNCHANGED <<raw, inner, outer, manifest, failed, run>>

Withdraw(f, i) ==
    /\ spare > 0 /\ i < Len(published[f])
    /\ spare' = spare - 1
    /\ published' = [published EXCEPT ![f] = RemoveAt(@, i)]
    /\ UNCHANGED <<raw, inner, outer, manifest, failed, run>>

Reissue(f) ==
    /\ spare > 0 /\ published[f] # <<>>
    /\ spare' = spare - 1
    /\ published' = [published EXCEPT ![f] = Issue(Len(@), @[1].edition + 1)]
    /\ UNCHANGED <<raw, inner, outer, manifest, failed, run>>

----------------------------------------------------------------------------

Progress ==
    \/ Preflight
    \/ CountAnswered
    \/ GetPage
    \/ WritePage
    \/ BeginYear
    \/ Get
    \/ Stream
    \/ Validate
    \/ RecordEntry

Next ==
    \/ \E c \in Commands, limit \in Limits : Begin(c, limit)
    \/ Progress
    \/ CountFails
    \/ RequestFails
    \/ StreamBreaks
    \/ Kill
    \/ \E f \in Paged : Publish(f)
    \/ \E f \in Paged : \E i \in 1..Len(published[f]) : Withdraw(f, i)
    \/ \E f \in Streamed : Reissue(f)

\* A running script goes on, and every script is run again and again without
\* a limit: the scripts are made to be, and only faults are bounded.
Fairness ==
    /\ WF_vars(Progress)
    /\ \A c \in Commands : SF_vars(Begin(c, NONE))

DownloadsSpec == Init /\ [][Next]_vars /\ Fairness

----------------------------------------------------------------------------
(* Properties *)

\* Types: rows are of a publisher or spoiled, partial files are only kept of years.
DownloadsTypeOK ==
    /\ \A f \in Files :
           /\ published[f] \in Seq(Row)
           /\ raw[f] # NONE => raw[f] \in RawFile
    /\ DOMAIN inner = Streamed /\ DOMAIN outer = Streamed
    /\ failed \subseteq Datasets
    /\ spare \in 0..MaxFaults
    /\ run.tries < MaxRetries

\* The scripts implement the mirror: whatever is killed, fails, is withdrawn or
\* issued anew, and whenever it is started again, a raw file holds no row twice,
\* none out of order, none spoiled, and none is missing before its last one
\* unless it was withdrawn; a yearly file appears whole; Chicago's file never
\* loses a row; an entry of the manifest is what its file held.
M == INSTANCE Mirror WITH
        copy <- [f \in Files |-> IF raw[f] = NONE THEN NONE ELSE raw[f].rows],
        listed <- [f \in Files |-> IF manifest[Dataset[f]] = CORRUPT THEN NONE
                                   ELSE IF f \in DOMAIN manifest[Dataset[f]]
                                        THEN manifest[Dataset[f]][f] ELSE NONE]
ImplementsMirror == M!MirrorSpec

\* What the manifest lists of Chicago and of the years is still in the file,
\* also after further runs and kills: both are listed after they are written
\* and neither is written again.  (A rewritten file may well hold less.)
\* And the state is typed.
ListedRowsStay ==
    /\ DownloadsTypeOK
    /\ \A f \in Appended \union Streamed :
          LET entries == manifest[Dataset[f]] IN
          (entries # CORRUPT /\ f \in DOMAIN entries) => IsPrefix(entries[f], Rows(f))

\* The retries are bounded: a script that runs comes to an end.
EveryRunEnds == (run # Idle) ~> (run = Idle)

\* Run again and again, Chicago's script has every row in the end and keeps
\* them, and the others have every row again and again.
Complete(f) == raw[f] # NONE /\ ~ raw[f].torn /\ raw[f].rows = published[f]
Undisturbed(f) == M!NeverWithdrawn(published[f]) /\ published[f] # <<>>
TablesArrive ==
    /\ \A f \in Appended : <>[](Undisturbed(f) => Complete(f))
    /\ \A f \in Rewritten : []<>(Undisturbed(f) => Complete(f))

\* A year arrives unless, of it or of an earlier one, a partial file was left
\* that has all the published file has: the range it asks for is refused.
Stuck(f) == \/ published[f] = <<>>
            \/ inner[f] # NONE /\ Len(inner[f]) >= Len(published[f])
YearsArriveUnlessStuck ==
    \A f \in Streamed : <>[](raw[f] # NONE \/ \E g \in Streamed : Stuck(g))
=============================================================================
