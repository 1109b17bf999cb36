------------------------------- MODULE Mirror -------------------------------
(***************************************************************************)
(* What the download scripts promise of the raw files: each is a faithful  *)
(* copy of what a publisher serves, as far as it goes.  No pages, partial  *)
(* files, retries or crashes: a copy only ever takes another faithful      *)
(* value.  Downloads implements this module.                               *)
(***************************************************************************)
EXTENDS Naturals, Sequences, SequencesExt

CONSTANTS Appended, Rewritten, Streamed, Dataset, NONE

VARIABLES
    published,  \* the publisher's rows of each file, each with a key and an edition
    copy,       \* the rows of each raw file, NONE when there is no such file
    listed      \* the rows each file had when the manifest's entry was written

mirrorVars == <<published, copy, listed>>

Files == Appended \union Rewritten \union Streamed
RowsOf(rows) == IF rows = NONE THEN <<>> ELSE rows

Ascending(rows) == \A i \in 1..(Len(rows) - 1) : rows[i].key < rows[i + 1].key
NeverWithdrawn(rows) == \A i \in 1..Len(rows) : rows[i].key = i
NeverReissued(rows) == \A i \in 1..Len(rows) : rows[i].edition = 1

\* No row twice or out of order; and without a gap, unless the publisher
\* withdrew a row while the copy was being made.
Faithful(rows, source) ==
    /\ Ascending(rows)
    /\ NeverWithdrawn(source) => IsPrefix(rows, source)

MirrorInit ==
    /\ copy = [f \in Files |-> NONE]
    /\ listed = [f \in Files |-> NONE]

Publication(f) ==
    /\ published' = [published EXCEPT ![f] = published'[f]]
    /\ UNCHANGED <<copy, listed>>

\* an appended copy keeps what it has
Extend(f) ==
    /\ copy' = [copy EXCEPT ![f] = copy'[f]]
    /\ IsPrefix(RowsOf(copy[f]), RowsOf(copy'[f]))
    /\ Faithful(RowsOf(copy'[f]), published[f])
    /\ UNCHANGED <<published, listed>>

\* a rewritten copy may start again, whatever it had
Rewrite(f) ==
    /\ copy' = [copy EXCEPT ![f] = copy'[f]]
    /\ Faithful(RowsOf(copy'[f]), published[f])
    /\ UNCHANGED <<published, listed>>

\* a yearly file appears whole and stays
Expose(f) ==
    /\ copy[f] = NONE
    /\ copy' = [copy EXCEPT ![f] = copy'[f]]
    /\ copy'[f] # NONE /\ copy'[f] # <<>>
    /\ NeverReissued(published[f]) => copy'[f] = published[f]
    /\ UNCHANGED <<published, listed>>

\* an entry is the content of its file, and is written when a file is there
List(f) ==
    /\ listed' = [listed EXCEPT ![f] = RowsOf(copy[f])]
    /\ UNCHANGED <<published, copy>>

\* killed while it is rewritten, a dataset's manifest is lost
Forget(d) ==
    /\ listed' = [f \in Files |-> IF Dataset[f] = d THEN NONE ELSE listed[f]]
    /\ UNCHANGED <<published, copy>>

MirrorNext ==
    \/ \E f \in Files : Publication(f) \/ List(f)
    \/ \E f \in Appended : Extend(f)
    \/ \E f \in Rewritten : Rewrite(f)
    \/ \E f \in Streamed : Expose(f)
    \/ \E d \in {Dataset[f] : f \in Files} : Forget(d)

MirrorSpec == MirrorInit /\ [][MirrorNext]_mirrorVars

=============================================================================
