-------------------------- MODULE DashboardsProofs --------------------------
(***************************************************************************)
(* Proofs about Dashboards, for any number of incidents, agents, requests  *)
(* on their way and events: the pages offer what the API accepts, and the  *)
(* administrator's audit trail is never behind what the page has reported  *)
(* done.                                                                   *)
(*                                                                         *)
(* Both rest on what the requests and answers on their way have in them    *)
(* (Sound): a status button was offered for the row the request carries,   *)
(* and the entries an answer tells of are in the trail of the API, whoever *)
(* acts meanwhile, in whatever order answers come and whatever becomes of  *)
(* the viewer's role.                                                      *)
(***************************************************************************)
EXTENDS Dashboards, TLAPS

Kinds == {"load", "status", "assign", "edit", "availability", "roster"}

RequestFields == {"live", "kind", "inc", "to", "override", "seen", "answer", "entries"}

Rows == [Incidents -> Row \cup {NONE}]
Rosters == [Users -> BOOLEAN \cup {NONE}]
Counts == [Incidents -> Nat]
AtMost(e, t) == \A i \in Incidents : e[i] <= t[i]

OfferedTo(w, status) == IF w = "admin" THEN OfferedToAdmin[status] ELSE OfferedToAgent(status)

\* What a page sends, when its user is w.
Asked(q, w) ==
    /\ DOMAIN q = RequestFields
    /\ q.kind \in Kinds
    /\ w = "agent" => q.kind \in {"load", "status", "availability"}
    /\ q.kind \in {"status", "assign", "edit"} => q.inc \in Incidents
    /\ q.kind = "status" => /\ q.to \in Statuses /\ q.seen \in Row
                            /\ q.to \in OfferedTo(w, q.seen.status)
    /\ q.kind = "assign" => q.to \in Users \cup {NONE}
    /\ q.kind = "availability" => q.inc \in Users /\ q.to \in BOOLEAN

\* The viewer had the role of the page, and the row drawn was theirs to move.
Theirs(q, w, role) == role = RoleOf(w) /\ (w = "agent" => q.seen.agent = Me)

\* What the API answers, when the trail has t entries.
Answers(q, w, t) ==
    q.answer # NONE =>
        /\ q.answer.entries \in Counts /\ AtMost(q.answer.entries, t)
        /\ q.kind = "status" /\ q.answer.code \in {403, 422} /\ Theirs(q, w, q.answer.role)
              => q.answer.value # q.seen
        /\ q.answer.code = 200 =>
              /\ q.kind = "load" =>
                    /\ q.answer.value.rows \in Rows /\ q.answer.value.roster \in Rosters
                    /\ q.answer.entries = Nothing
              /\ q.kind = "roster" => q.answer.value \in Rosters
              /\ q.kind = "availability" => q.answer.value \in BOOLEAN
              /\ q.kind \in {"status", "assign", "edit"} => q.answer.value \in Row

Sound(q, w, t) ==
    /\ Asked(q, w) /\ Answers(q, w, t)
    /\ q.entries \in Counts /\ AtMost(q.entries, t)

NetInv ==
    /\ DOMAIN net = Slots
    /\ \A s \in Slots : net[s] = IDLE \/ Sound(net[s], who, trail)

OpenPages == [open : {TRUE}, rows : Rows, roster : Rosters, selected : Incidents \cup {NONE},
              loading : BOOLEAN, busy : Users \cup {"panel", NONE}, toggling : BOOLEAN,
              prompt : Users \cup {NONE},
              trail : [step : {"asked", "served", "shown", "failed"}, events : Nat] \cup {NONE}]

\* An open page of user w.
Proper(p, w) ==
    /\ p \in OpenPages
    /\ w = "agent" => p.prompt = NONE
    /\ p.toggling => w = "agent"

\* The trail on it, when the user knows of k entries.
Informed(p, w, k) ==
    p.trail # NONE =>
        /\ Selected(p) # NONE
        /\ w = "admin" /\ p.trail.step \in {"served", "shown"} => p.trail.events >= k[p.selected]

PageInv == page = Closed \/ (Proper(page, who) /\ Informed(page, who, known))

Waiting(n, kinds) == \E s \in Slots : n[s] # IDLE /\ n[s].live /\ n[s].kind \in kinds
BusyKinds(w) == IF w = "agent" THEN {"status"}
                ELSE {"status", "assign", "edit", "roster", "availability"}

\* A control waits for a request, and an answer for a page.
Attended(p, n, w) ==
    IF p.open THEN /\ p.loading => Waiting(n, {"load"})
                   /\ p.toggling => Waiting(n, {"availability"})
                   /\ p.busy # NONE => Waiting(n, BusyKinds(w))
    ELSE ~ Waiting(n, Kinds)

ServerInv ==
    /\ row \in [Incidents -> Row] /\ trail \in Counts
    /\ account \in [Users -> Account]
    /\ known \in Counts /\ AtMost(known, trail)
    /\ spare \in 0 .. MaxEvents /\ who \in Pages

BoardInv == ServerInv /\ NetInv /\ PageInv /\ Attended(page, net, who)

-----------------------------------------------------------------------------
(* Requests, answers and what is on its way *)

LEMMA NoRow ==
    /\ NONE \notin Row /\ NONE \notin Incidents /\ NONE \notin Users
    /\ Me \in Users /\ Boss \in Users
    /\ \A r \in Row : r.status \in Statuses /\ r.agent \in Users \cup {NONE} /\ r.version \in Nat
  BY DashboardsAssumption DEF Row

LEMMA NoEntries == Nothing \in Counts /\ \A i \in Incidents : Nothing[i] = 0
  BY DEF Nothing, Counts

LEMMA NotIdle == ASSUME NEW q, q.kind \in Kinds PROVE q # IDLE
  BY DEF Kinds, IDLE

\* A request with another answer.
LEMMA WithAnswer ==
    ASSUME NEW q, DOMAIN q = RequestFields, NEW a
    PROVE  LET n == [q EXCEPT !.answer = a]
           IN  /\ DOMAIN n = RequestFields /\ n.answer = a
               /\ n.live = q.live /\ n.kind = q.kind /\ n.inc = q.inc /\ n.to = q.to
               /\ n.override = q.override /\ n.seen = q.seen /\ n.entries = q.entries
  BY DEF RequestFields

LEMMA AskedStays ==
    ASSUME NEW q, NEW w, Asked(q, w), NEW a
    PROVE  LET n == [q EXCEPT !.answer = a]
           IN  /\ Asked(n, w) /\ n.answer = a /\ n.live = q.live /\ n.kind = q.kind
               /\ n.seen = q.seen /\ n.entries = q.entries
<1> DEFINE n == [q EXCEPT !.answer = a]
<1>1. /\ DOMAIN n = RequestFields /\ n.answer = a
      /\ n.live = q.live /\ n.kind = q.kind /\ n.inc = q.inc /\ n.to = q.to
      /\ n.seen = q.seen /\ n.entries = q.entries
  BY WithAnswer DEF Asked
<1> HIDE DEF n
<1>2. Asked(n, w)
  BY <1>1 DEF Asked
<1> QED
  BY <1>1, <1>2 DEF n

LEMMA AtMostGrows ==
    ASSUME NEW e \in Counts, NEW t \in Counts, NEW u \in Counts, AtMost(e, t), AtMost(t, u)
    PROVE  AtMost(e, u)
<1>1. \A i \in Incidents : e[i] \in Nat /\ t[i] \in Nat /\ u[i] \in Nat
  BY DEF Counts
<1> QED
  BY <1>1 DEF AtMost

\* The trail only grows, so what was sound stays so.
LEMMA SoundStays ==
    ASSUME NEW q, NEW w, NEW t \in Counts, NEW u \in Counts, Sound(q, w, t), AtMost(t, u)
    PROVE  Sound(q, w, u)
<1>1. q.entries \in Counts /\ AtMost(q.entries, u)
  BY AtMostGrows DEF Sound
<1>2. q.answer # NONE => AtMost(q.answer.entries, u)
  BY AtMostGrows DEF Sound, Answers
<1> QED
  BY <1>1, <1>2 DEF Sound, Answers

\* One slot takes another request.
LEMMA NetStep ==
    ASSUME NetInv, NEW s \in Slots, NEW q, net' = [net EXCEPT ![s] = q],
           q = IDLE \/ Sound(q, who, trail'), UNCHANGED who,
           trail \in Counts, trail' \in Counts, AtMost(trail, trail')
    PROVE  NetInv'
<1>1. DOMAIN net' = Slots /\ net'[s] = q /\ \A x \in Slots : x # s => net'[x] = net[x]
  BY DEF NetInv
<1>2. \A x \in Slots : net[x] = IDLE \/ Sound(net[x], who, trail')
  BY SoundStays DEF NetInv
<1> QED
  BY <1>1, <1>2 DEF NetInv

LEMMA NetKept ==
    ASSUME NetInv, UNCHANGED <<net, who>>, trail \in Counts, trail' \in Counts, AtMost(trail, trail')
    PROVE  NetInv'
<1>1. \A x \in Slots : net[x] = IDLE \/ Sound(net[x], who, trail')
  BY SoundStays DEF NetInv
<1> QED
  BY <1>1 DEF NetInv

LEMMA AtMostSelf == ASSUME NEW t \in Counts PROVE AtMost(t, t)
  BY DEF AtMost, Counts

\* A page sends a request.
LEMMA SendStep ==
    ASSUME BoardInv, NEW s \in Slots, NEW q, Send(s, q), Asked(q, who), q.answer = NONE,
           q.entries = Nothing, UNCHANGED <<who, trail>>
    PROVE  /\ NetInv'
           /\ net[s] = IDLE /\ net'[s] = q /\ \A x \in Slots : x # s => net'[x] = net[x]
<1>1. net[s] = IDLE /\ net' = [net EXCEPT ![s] = q] /\ DOMAIN net = Slots
  BY DEF Send, BoardInv, NetInv
<1>2. trail \in Counts /\ AtMost(trail, trail)
  BY AtMostSelf DEF BoardInv, ServerInv
<1>3. Sound(q, who, trail)
  <2>1. AtMost(Nothing, trail) /\ Nothing \in Counts
    BY <1>2, NoEntries DEF AtMost, Counts
  <2> QED
    BY <2>1 DEF Sound, Answers
<1>4. NetInv'
  BY <1>1, <1>2, <1>3, NetStep DEF BoardInv
<1> QED
  BY <1>1, <1>4

LEMMA WhatIsAsked ==
    ASSUME NEW kind \in Kinds
    PROVE  LET q == Ask(kind)
           IN  /\ DOMAIN q = RequestFields /\ q.live = TRUE /\ q.kind = kind /\ q.answer = NONE
               /\ q.entries = Nothing /\ q.override = FALSE
  BY DEF Ask, RequestFields

-----------------------------------------------------------------------------
(* Pages *)

LEMMA PageFields ==
    ASSUME NEW p \in OpenPages
    PROVE  /\ p.open = TRUE /\ p.rows \in Rows /\ p.roster \in Rosters
           /\ p.selected \in Incidents \cup {NONE} /\ p.loading \in BOOLEAN
           /\ p.busy \in Users \cup {"panel", NONE} /\ p.toggling \in BOOLEAN
           /\ p.prompt \in Users \cup {NONE}
           /\ p.trail \in [step : {"asked", "served", "shown", "failed"}, events : Nat] \cup {NONE}
           /\ p # Closed
<1>1. /\ p.open = TRUE /\ p.rows \in Rows /\ p.roster \in Rosters
      /\ p.selected \in Incidents \cup {NONE} /\ p.loading \in BOOLEAN
      /\ p.busy \in Users \cup {"panel", NONE} /\ p.toggling \in BOOLEAN
      /\ p.prompt \in Users \cup {NONE}
      /\ p.trail \in [step : {"asked", "served", "shown", "failed"}, events : Nat] \cup {NONE}
  BY DEF OpenPages
<1>2. Closed.open = FALSE
  BY DEF Closed
<1> QED
  BY <1>1, <1>2

LEMMA OnPage ==
    ASSUME BoardInv, page.open
    PROVE  Proper(page, who) /\ Informed(page, who, known) /\ page \in OpenPages
  BY DEF BoardInv, PageInv, Closed, Proper

LEMMA Selecting ==
    ASSUME NEW p \in OpenPages
    PROVE  /\ Selected(p) \in Row \cup {NONE}
           /\ Selected(p) # NONE => /\ p.selected \in Incidents /\ Selected(p) \in Row
                                    /\ Selected(p) = p.rows[p.selected]
           /\ Key(p) = NONE <=> Selected(p) = NONE
           /\ \A o \in OpenPages : Key(o) = Key(p) /\ Key(p) # NONE => o.selected = p.selected
<1>1. ASSUME NEW o \in OpenPages
      PROVE  /\ Selected(o) \in Row \cup {NONE}
             /\ Selected(o) # NONE => /\ o.selected \in Incidents /\ Selected(o) \in Row
                                      /\ Selected(o) = o.rows[o.selected]
             /\ Key(o) = NONE <=> Selected(o) = NONE
             /\ Key(o) # NONE => Key(o) = <<o.selected, Selected(o).version>>
  <2>1. o.selected \in Incidents \cup {NONE} /\ o.rows \in Rows
    BY PageFields
  <2>2. Selected(o) = IF o.selected = NONE THEN NONE ELSE o.rows[o.selected]
    BY DEF Selected
  <2>3. /\ Selected(o) \in Row \cup {NONE}
        /\ Selected(o) # NONE => /\ o.selected \in Incidents /\ Selected(o) \in Row
                                 /\ Selected(o) = o.rows[o.selected]
    BY <2>1, <2>2, NoRow DEF Rows
  <2>4. Key(o) = IF Selected(o) = NONE THEN NONE ELSE <<o.selected, Selected(o).version>>
    BY DEF Key
  <2>5. Selected(o) # NONE => <<o.selected, Selected(o).version>> \in Incidents \X Nat
    BY <2>3, NoRow
  <2> QED
    BY <2>3, <2>4, <2>5, DashboardsAssumption
<1>2. ASSUME NEW o \in OpenPages, Key(o) = Key(p), Key(p) # NONE PROVE o.selected = p.selected
  <2>1. <<o.selected, Selected(o).version>> = <<p.selected, Selected(p).version>>
    BY <1>1, <1>2
  <2> QED
    BY <2>1
<1> QED
  BY <1>1, <1>2

\* The page redrawn: its trail goes with the panel, and what it goes on to show
\* is not behind what the user knows.
LEMMA Drawing ==
    ASSUME NEW old \in OpenPages, NEW new, Proper(new, who), NEW k, NEW l, NEW bumped \in BOOLEAN,
           Informed(old, who, k), who = "admin" /\ ~ bumped => l = k
    PROVE  LET p == Drawn(old, new, bumped)
           IN  /\ Proper(p, who) /\ Informed(p, who, l)
               /\ p.loading = new.loading /\ p.toggling = new.toggling /\ p.busy = new.busy
               /\ p.open
<1> DEFINE asked == [step |-> "asked", events |-> 0]
           t == IF Key(new) = NONE THEN NONE
                ELSE IF bumped \/ Key(new) # Key(old) THEN asked ELSE old.trail
           p == Drawn(old, new, bumped)
<1>1. p = [new EXCEPT !.trail = t] /\ new \in OpenPages
  BY DEF Drawn, Proper
<1>2. t \in [step : {"asked", "served", "shown", "failed"}, events : Nat] \cup {NONE}
  BY PageFields
<1>3. t # NONE /\ t.step \in {"served", "shown"} =>
          t = old.trail /\ ~ bumped /\ Key(new) = Key(old) /\ Key(new) # NONE
  OBVIOUS
<1>4. t # NONE => Key(new) # NONE
  OBVIOUS
<1> HIDE DEF t, p
<1>5. /\ p \in OpenPages /\ p.trail = t /\ p.rows = new.rows /\ p.selected = new.selected
      /\ p.prompt = new.prompt /\ p.loading = new.loading /\ p.toggling = new.toggling
      /\ p.busy = new.busy /\ p.open
  BY <1>1, <1>2 DEF OpenPages
<1>6. Proper(p, who)
  BY <1>5 DEF Proper
<1>7. Selected(p) = Selected(new)
  BY <1>5 DEF Selected
<1>8. Informed(p, who, l)
  <2>1. t # NONE => Selected(p) # NONE
    BY <1>1, <1>4, <1>7, Selecting
  <2>2. ASSUME who = "admin", t # NONE, t.step \in {"served", "shown"}
        PROVE  t.events >= l[p.selected]
    <3>1. l = k /\ t = old.trail
      BY <1>3, <2>2
    <3>2. old.selected = new.selected
      BY <1>1, <1>3, <2>2, Selecting
    <3> QED
      BY <1>5, <2>2, <3>1, <3>2 DEF Informed
  <2> QED
    BY <1>5, <2>1, <2>2 DEF Informed
<1> QED
  BY <1>5, <1>6, <1>8 DEF p

LEMMA WaitsFor ==
    ASSUME NEW n, NEW kinds, NEW more, kinds \subseteq more, Waiting(n, kinds)
    PROVE  Waiting(n, more)
  BY DEF Waiting

\* A page that has sent q: everything waits as before, or for q.
LEMMA SentWaits ==
    ASSUME NEW s \in Slots, NEW n, n[s] = IDLE, NEW m,
           m[s].kind \in Kinds, m[s].live, \A x \in Slots : x # s => m[x] = n[x]
    PROVE  /\ \A kinds : Waiting(n, kinds) => Waiting(m, kinds)
           /\ \A kinds : m[s].kind \in kinds => Waiting(m, kinds)
  BY NotIdle DEF Waiting

\* A request is served or lost: who waits for it goes on waiting.
LEMMA StillWaiting ==
    ASSUME NEW s \in Slots, NEW n, NEW m, n[s].kind \in Kinds,
           m[s].live = n[s].live, m[s].kind = n[s].kind, \A x \in Slots : x # s => m[x] = n[x]
    PROVE  \A kinds : Waiting(n, kinds) <=> Waiting(m, kinds)
  BY NotIdle DEF Waiting

\* A request is answered: who waits for another kind goes on waiting.
LEMMA OthersWait ==
    ASSUME NEW s \in Slots, NEW n, NEW m, \A x \in Slots : x # s => m[x] = n[x]
    PROVE  \A kinds : n[s].kind \notin kinds /\ Waiting(n, kinds) => Waiting(m, kinds)
  BY DEF Waiting

-----------------------------------------------------------------------------
(* The user *)

\* A request leaves the page, which then waits for it or for what it waited for.
LEMMA Sending ==
    ASSUME BoardInv, NEW s \in Slots, NEW q, Send(s, q), Asked(q, who), q.answer = NONE,
           q.entries = Nothing, q.live = TRUE, UNCHANGED <<row, trail, account, who>>,
           known' \in {known, Nothing}, spare' \in 0 .. MaxEvents,
           Proper(page', who), Informed(page', who, known'),
           page'.loading => (page.open /\ page.loading) \/ q.kind = "load",
           page'.toggling => (page.open /\ page.toggling) \/ q.kind = "availability",
           page'.busy # NONE => (page.open /\ page.busy # NONE) \/ q.kind \in BusyKinds(who)
    PROVE  BoardInv'
<1>1. /\ NetInv'
      /\ net[s] = IDLE /\ net'[s] = q /\ \A x \in Slots : x # s => net'[x] = net[x]
  BY SendStep
<1>2. ServerInv'
  BY NoEntries DEF BoardInv, ServerInv, AtMost, Counts
<1>3. PageInv' /\ page'.open = TRUE
  BY PageFields DEF PageInv, Proper
<1>4. /\ \A kinds : Waiting(net, kinds) => Waiting(net', kinds)
      /\ \A kinds : q.kind \in kinds => Waiting(net', kinds)
  BY <1>1, SentWaits DEF Asked
<1>5. page.open => /\ page.loading => Waiting(net, {"load"})
                   /\ page.toggling => Waiting(net, {"availability"})
                   /\ page.busy # NONE => Waiting(net, BusyKinds(who))
  BY DEF BoardInv, Attended
<1>6. page'.loading => Waiting(net', {"load"})
  BY <1>4, <1>5
<1>7. page'.toggling => Waiting(net', {"availability"})
  BY <1>4, <1>5
<1>8. page'.busy # NONE => Waiting(net', BusyKinds(who))
  BY <1>4, <1>5
<1>9. Attended(page', net', who')
  BY <1>3, <1>6, <1>7, <1>8 DEF Attended
<1> QED
  BY <1>1, <1>2, <1>3, <1>9 DEF BoardInv

LEMMA Spending == ASSUME BoardInv, Spend PROVE spare' \in 0 .. MaxEvents
  BY DashboardsAssumption DEF BoardInv, ServerInv, Spend

\* A click that asks for a change.
LEMMA Clicking ==
    ASSUME BoardInv, page.open, NEW s \in Slots, NEW q, NEW new, Change(s, q, new),
           Asked(q, who), q.answer = NONE, q.entries = Nothing, q.live = TRUE, Proper(new, who),
           new.loading = page.loading,
           new.toggling => page.toggling \/ q.kind = "availability",
           new.busy # NONE => page.busy # NONE \/ q.kind \in BusyKinds(who)
    PROVE  BoardInv'
<1>1. Send(s, q) /\ UNCHANGED <<row, trail, account, who, known>> /\ page' = Drawn(page, new, FALSE)
  BY DEF Change, server, Redraw
<1>2. spare' \in 0 .. MaxEvents
  BY Spending DEF Change
<1>3. /\ Proper(page', who) /\ Informed(page', who, known)
      /\ page'.loading = new.loading /\ page'.toggling = new.toggling /\ page'.busy = new.busy
  BY <1>1, OnPage, Drawing
<1> QED
  BY <1>1, <1>2, <1>3, Sending

\* The page with another value of one of its fields.
LEMMA PageWith ==
    ASSUME Proper(page, who)
    PROVE  /\ \A b \in Users \cup {"panel", NONE} :
                LET p == [page EXCEPT !.busy = b]
                IN  /\ Proper(p, who) /\ p.loading = page.loading /\ p.toggling = page.toggling
                    /\ p.busy = b
           /\ \A b \in BOOLEAN :
                LET p == [page EXCEPT !.loading = b]
                IN  /\ Proper(p, who) /\ p.loading = b /\ p.toggling = page.toggling
                    /\ p.busy = page.busy
           /\ \A b \in BOOLEAN : b = FALSE \/ who = "agent" =>
                LET p == [page EXCEPT !.toggling = b]
                IN  /\ Proper(p, who) /\ p.loading = page.loading /\ p.toggling = b
                    /\ p.busy = page.busy
           /\ \A b \in Users \cup {NONE} : b = NONE \/ who # "agent" =>
                LET p == [page EXCEPT !.prompt = b]
                IN  /\ Proper(p, who) /\ p.loading = page.loading /\ p.toggling = page.toggling
                    /\ p.busy = page.busy
<1>1. ASSUME NEW b \in Users \cup {"panel", NONE}
      PROVE  LET p == [page EXCEPT !.busy = b]
             IN  /\ Proper(p, who) /\ p.loading = page.loading /\ p.toggling = page.toggling
                 /\ p.busy = b
  BY DEF Proper, OpenPages
<1>2. ASSUME NEW b \in BOOLEAN
      PROVE  LET p == [page EXCEPT !.loading = b]
             IN  /\ Proper(p, who) /\ p.loading = b /\ p.toggling = page.toggling
                 /\ p.busy = page.busy
  BY DEF Proper, OpenPages
<1>3. ASSUME NEW b \in BOOLEAN, b = FALSE \/ who = "agent"
      PROVE  LET p == [page EXCEPT !.toggling = b]
             IN  /\ Proper(p, who) /\ p.loading = page.loading /\ p.toggling = b
                 /\ p.busy = page.busy
  BY <1>3 DEF Proper, OpenPages
<1>4. ASSUME NEW b \in Users \cup {NONE}, b = NONE \/ who # "agent"
      PROVE  LET p == [page EXCEPT !.prompt = b]
             IN  /\ Proper(p, who) /\ p.loading = page.loading /\ p.toggling = page.toggling
                 /\ p.busy = page.busy
  BY <1>4 DEF Proper, OpenPages
<1> QED
  BY <1>1, <1>2, <1>3, <1>4

LEMMA OpenStep == ASSUME BoardInv, NEW s \in Slots, Open(s) PROVE BoardInv'
<1>1. /\ Send(s, Ask("load")) /\ UNCHANGED <<row, trail, account, who, spare>>
      /\ page' = Fresh /\ known' = Nothing
  BY DEF Open
<1>2. "load" \in Kinds /\ Asked(Ask("load"), who)
  BY WhatIsAsked DEF Asked, Kinds
<1>3. /\ Proper(Fresh, who) /\ Fresh.trail = NONE /\ Fresh.loading = TRUE /\ Fresh.toggling = FALSE
      /\ Fresh.busy = NONE
  BY DEF Proper, OpenPages, Fresh, Rows, Rosters
<1>4. Informed(page', who, known')
  BY <1>1, <1>3 DEF Informed
<1>5. spare' \in 0 .. MaxEvents
  BY <1>1 DEF BoardInv, ServerInv
<1> QED
  BY <1>1, <1>2, <1>3, <1>4, <1>5, WhatIsAsked, Sending

LEMMA RefreshStep == ASSUME BoardInv, NEW s \in Slots, Refresh(s) PROVE BoardInv'
<1> DEFINE new == [page EXCEPT !.loading = TRUE]
<1>1. /\ Send(s, Ask("load")) /\ UNCHANGED <<row, trail, account, who, known, spare>>
      /\ page.open /\ page' = Drawn(page, new, FALSE)
  BY DEF Refresh, server, Redraw
<1>2. "load" \in Kinds /\ Asked(Ask("load"), who)
  BY WhatIsAsked DEF Asked, Kinds
<1>3. /\ Proper(new, who) /\ new.loading = TRUE /\ new.toggling = page.toggling
      /\ new.busy = page.busy
  BY <1>1, OnPage, PageWith
<1> HIDE DEF new
<1>4. /\ Proper(page', who) /\ Informed(page', who, known)
      /\ page'.loading = new.loading /\ page'.toggling = new.toggling /\ page'.busy = new.busy
  BY <1>1, <1>3, OnPage, Drawing
<1>5. spare' \in 0 .. MaxEvents
  BY <1>1 DEF BoardInv, ServerInv
<1> QED
  BY <1>1, <1>2, <1>3, <1>4, <1>5, WhatIsAsked, Sending

\* Only the page changes, and what it waits for stays.
LEMMA Redrawing ==
    ASSUME BoardInv, page.open, NEW new, Proper(new, who), Redraw(new, FALSE),
           new.loading = page.loading, new.toggling = page.toggling, new.busy = page.busy,
           UNCHANGED <<row, trail, account, who, net, known, spare>>
    PROVE  BoardInv'
<1>1. /\ Proper(page', who) /\ Informed(page', who, known)
      /\ page'.loading = new.loading /\ page'.toggling = new.toggling /\ page'.busy = new.busy
      /\ page'.open
  BY OnPage, Drawing DEF Redraw
<1>2. ServerInv' /\ NetInv' /\ PageInv'
  BY <1>1 DEF BoardInv, ServerInv, NetInv, PageInv
<1>3. Attended(page', net', who')
  BY <1>1 DEF BoardInv, Attended
<1> QED
  BY <1>2, <1>3 DEF BoardInv

LEMMA SelectStep == ASSUME BoardInv, NEW i \in Incidents \cup {NONE}, Select(i) PROVE BoardInv'
<1> DEFINE new == [page EXCEPT !.selected = i, !.prompt = NONE]
<1>1. page.open /\ Redraw(new, FALSE) /\ UNCHANGED <<row, trail, account, who, net, known, spare>>
  BY DEF Select, server
<1>2. /\ Proper(new, who) /\ new.loading = page.loading /\ new.toggling = page.toggling
      /\ new.busy = page.busy
  BY <1>1, OnPage DEF Proper, OpenPages
<1> QED
  BY <1>1, <1>2, Redrawing

LEMMA CancelOverrideStep == ASSUME BoardInv, CancelOverride PROVE BoardInv'
<1>1. /\ page.open /\ Redraw([page EXCEPT !.prompt = NONE], FALSE)
      /\ UNCHANGED <<row, trail, account, who, net, known, spare>>
  BY DEF CancelOverride, PanelReady, server
<1> QED
  BY <1>1, OnPage, PageWith, Redrawing

\* The request q of a click: what it is about, to which value, and the row it saw.
Clicked(q, kind, i, to, seen) ==
    /\ DOMAIN q = RequestFields /\ q.live = TRUE /\ q.kind = kind /\ q.inc = i /\ q.to = to
    /\ q.seen = seen /\ q.answer = NONE /\ q.entries = Nothing

LEMMA ClickedWith ==
    ASSUME NEW q, NEW kind, NEW i, NEW to, NEW seen, Clicked(q, kind, i, to, seen)
    PROVE  /\ \A v : Clicked([q EXCEPT !.to = v], kind, i, v, seen)
           /\ \A v, f : Clicked([q EXCEPT !.to = v, !.override = f], kind, i, v, seen)
           /\ \A j, v : Clicked([q EXCEPT !.inc = j, !.to = v], kind, j, v, seen)
           /\ \A j, r : Clicked([q EXCEPT !.inc = j, !.seen = r], kind, j, to, r)
<1>1. ASSUME NEW v PROVE Clicked([q EXCEPT !.to = v], kind, i, v, seen)
  BY DEF Clicked, RequestFields
<1>2. ASSUME NEW v, NEW f
      PROVE  Clicked([q EXCEPT !.to = v, !.override = f], kind, i, v, seen)
  BY DEF Clicked, RequestFields
<1>3. ASSUME NEW j, NEW v PROVE Clicked([q EXCEPT !.inc = j, !.to = v], kind, j, v, seen)
  BY DEF Clicked, RequestFields
<1>4. ASSUME NEW j, NEW r PROVE Clicked([q EXCEPT !.inc = j, !.seen = r], kind, j, to, r)
  BY DEF Clicked, RequestFields
<1> QED
  BY <1>1, <1>2, <1>3, <1>4

LEMMA AskClicked == ASSUME NEW kind PROVE Clicked(Ask(kind), kind, NONE, NONE, NONE)
  BY DEF Clicked, Ask, RequestFields

\* A request of the panel is about the row the panel shows.
LEMMA FromPanel ==
    ASSUME BoardInv, PanelReady, NEW kind
    PROVE  /\ page.open /\ Selected(page) \in Row /\ page.selected \in Incidents
           /\ Selected(page) = page.rows[page.selected]
           /\ Clicked(About(kind), kind, page.selected, NONE, Selected(page))
<1>1. Clicked(About(kind), kind, page.selected, NONE, Selected(page))
  BY AskClicked, ClickedWith DEF About
<1> QED
  BY <1>1, OnPage, Selecting DEF PanelReady

LEMMA PanelBusy ==
    ASSUME BoardInv, page.open, NEW b \in Users \cup {"panel"}
    PROVE  Proper(Busy(b), who) /\ Busy(b).loading = page.loading /\ Busy(b).toggling = page.toggling
  BY OnPage, PageWith DEF Busy

LEMMA ClickStatusStep ==
    ASSUME BoardInv, NEW s \in Slots, NEW to \in Statuses, ClickStatus(s, to)
    PROVE  BoardInv'
<1> DEFINE q == [About("status") EXCEPT !.to = to]
<1>1. PanelReady /\ to \in Offered(Selected(page).status) /\ Change(s, q, Busy("panel"))
  BY DEF ClickStatus
<1>2. /\ page.open /\ Selected(page) \in Row /\ page.selected \in Incidents
      /\ Selected(page) = page.rows[page.selected]
      /\ Clicked(q, "status", page.selected, to, Selected(page))
  BY <1>1, FromPanel, ClickedWith
<1>3. to \in OfferedTo(who, Selected(page).status)
  BY <1>1 DEF Offered, OfferedTo
<1> HIDE DEF q
<1>4. Asked(q, who)
  BY <1>2, <1>3 DEF Asked, Clicked, Kinds
<1>5. q.live = TRUE /\ q.answer = NONE /\ q.entries = Nothing /\ q.kind \in BusyKinds(who)
  BY <1>2 DEF Clicked, BusyKinds
<1> QED
  BY <1>1, <1>2, <1>4, <1>5, PanelBusy, Clicking

\* A click of the administrator on the panel.
LEMMA PanelClick ==
    ASSUME BoardInv, NEW s \in Slots, PanelReady, who # "agent", NEW kind \in {"assign", "edit"},
           NEW to, kind = "assign" => to \in Users \cup {NONE},
           NEW q, Clicked(q, kind, page.selected, to, Selected(page)), Change(s, q, Busy("panel"))
    PROVE  BoardInv'
<1>1. page.open /\ page.selected \in Incidents
  BY FromPanel
<1>2. Asked(q, who)
  BY <1>1 DEF Asked, Clicked, Kinds
<1>3. q.live = TRUE /\ q.answer = NONE /\ q.entries = Nothing /\ q.kind \in BusyKinds(who)
  BY DEF Clicked, BusyKinds
<1> QED
  BY <1>1, <1>2, <1>3, PanelBusy, Clicking

LEMMA ClickAssignStep ==
    ASSUME BoardInv, NEW s \in Slots, NEW a \in Users \cup {NONE}, ClickAssign(s, a)
    PROVE  BoardInv'
<1> DEFINE q == [About("assign") EXCEPT !.to = a]
<1>1. PanelReady /\ who # "agent" /\ Change(s, q, Busy("panel"))
  BY DEF ClickAssign
<1>2. Clicked(q, "assign", page.selected, a, Selected(page))
  BY <1>1, FromPanel, ClickedWith
<1> HIDE DEF q
<1> QED
  BY <1>1, <1>2, PanelClick

LEMMA ConfirmOverrideStep == ASSUME BoardInv, NEW s \in Slots, ConfirmOverride(s) PROVE BoardInv'
<1> DEFINE q == [About("assign") EXCEPT !.to = page.prompt, !.override = TRUE]
<1>1. PanelReady /\ page.prompt # NONE /\ Change(s, q, Busy("panel"))
  BY DEF ConfirmOverride
<1>2. who # "agent" /\ page.prompt \in Users
  BY <1>1, OnPage, PageFields DEF PanelReady, Proper
<1>3. Clicked(q, "assign", page.selected, page.prompt, Selected(page))
  BY <1>1, FromPanel, ClickedWith
<1> HIDE DEF q
<1> QED
  BY <1>1, <1>2, <1>3, PanelClick

LEMMA ClickEditStep == ASSUME BoardInv, NEW s \in Slots, ClickEdit(s) PROVE BoardInv'
<1>1. PanelReady /\ who # "agent" /\ Change(s, About("edit"), Busy("panel"))
  BY DEF ClickEdit
<1>2. Clicked(About("edit"), "edit", page.selected, NONE, Selected(page))
  BY <1>1, FromPanel
<1> QED
  BY <1>1, <1>2, PanelClick

\* A switch, of the roster or of the agent's own.
LEMMA SwitchAsked ==
    ASSUME BoardInv, page.open, NEW a \in Users, page.roster[a] # NONE
    PROVE  LET q == [Ask("availability") EXCEPT !.inc = a, !.to = ~page.roster[a]]
           IN  /\ Asked(q, who) /\ q.kind = "availability" /\ q.live = TRUE /\ q.answer = NONE
               /\ q.entries = Nothing
<1> DEFINE v == ~page.roster[a]
           q == [Ask("availability") EXCEPT !.inc = a, !.to = v]
<1>1. page.roster[a] \in BOOLEAN
  BY OnPage, PageFields DEF Rosters
<1>2. v \in BOOLEAN
  BY <1>1
<1> HIDE DEF v
<1>3. Clicked(q, "availability", a, v, NONE)
  BY AskClicked, ClickedWith
<1> HIDE DEF q
<1>4. Asked(q, who)
  BY <1>2, <1>3 DEF Asked, Clicked, Kinds
<1>5. q.kind = "availability" /\ q.live = TRUE /\ q.answer = NONE /\ q.entries = Nothing
  BY <1>3 DEF Clicked
<1> QED
  BY <1>4, <1>5 DEF q, v

LEMMA ClickAvailabilityStep ==
    ASSUME BoardInv, NEW s \in Slots, NEW a \in Users, ClickAvailability(s, a)
    PROVE  BoardInv'
<1> DEFINE q == [Ask("availability") EXCEPT !.inc = a, !.to = ~page.roster[a]]
<1>1. page.open /\ who # "agent" /\ page.roster[a] # NONE /\ Change(s, q, Busy(a))
  BY DEF ClickAvailability
<1>2. /\ Asked(q, who) /\ q.kind = "availability" /\ q.live = TRUE /\ q.answer = NONE
      /\ q.entries = Nothing
  BY <1>1, SwitchAsked
<1>3. /\ Proper(Busy(a), who) /\ Busy(a).loading = page.loading
      /\ Busy(a).toggling = page.toggling
  BY <1>1, OnPage, PageWith DEF Busy
<1>4. q.kind \in BusyKinds(who)
  BY <1>1, <1>2 DEF BusyKinds
<1> HIDE DEF q
<1> QED
  BY <1>1, <1>2, <1>3, <1>4, Clicking

LEMMA ToggleStep == ASSUME BoardInv, NEW s \in Slots, ToggleAvailability(s) PROVE BoardInv'
<1> DEFINE q == [Ask("availability") EXCEPT !.inc = Me, !.to = ~page.roster[Me]]
           new == [page EXCEPT !.toggling = TRUE]
<1>1. page.open /\ who = "agent" /\ page.roster[Me] # NONE /\ Change(s, q, new)
  BY DEF ToggleAvailability
<1>2. /\ Asked(q, who) /\ q.kind = "availability" /\ q.live = TRUE /\ q.answer = NONE
      /\ q.entries = Nothing
  BY <1>1, SwitchAsked, NoRow
<1>3. /\ Proper(new, who) /\ new.loading = page.loading /\ new.toggling = TRUE
      /\ new.busy = page.busy
  BY <1>1, OnPage, PageWith
<1> HIDE DEF q, new
<1> QED
  BY <1>1, <1>2, <1>3, Clicking

-----------------------------------------------------------------------------
(* The page is left *)

LEMMA Abandoned ==
    ASSUME NEW q, NEW w, NEW t, Sound(q, w, t), q.answer = NONE
    PROVE  LET n == [q EXCEPT !.live = FALSE] IN Sound(n, w, t) /\ n.live = FALSE
<1> DEFINE n == [q EXCEPT !.live = FALSE]
<1>1. /\ DOMAIN n = RequestFields /\ n.answer = q.answer
      /\ n.live = FALSE /\ n.kind = q.kind /\ n.inc = q.inc /\ n.to = q.to
      /\ n.seen = q.seen /\ n.entries = q.entries
  BY DEF Sound, Asked, RequestFields
<1> HIDE DEF n
<1>2. Asked(n, w)
  BY <1>1 DEF Sound, Asked
<1>3. Sound(n, w, t)
  BY <1>1, <1>2 DEF Sound, Answers
<1> QED
  BY <1>1, <1>3 DEF n

LEMMA LeaveStep ==
    ASSUME BoardInv, Leave, spare' \in 0 .. MaxEvents
    PROVE  BoardInv'
<1>1. /\ UNCHANGED <<row, trail, account, who, known>> /\ page' = Closed
      /\ net' = [s \in Slots |-> IF net[s] = IDLE \/ net[s].answer # NONE THEN IDLE
                                 ELSE [net[s] EXCEPT !.live = FALSE]]
  BY DEF Leave
<1>2. ASSUME NEW s \in Slots
      PROVE  net'[s] = IDLE \/ (Sound(net'[s], who, trail) /\ net'[s].live = FALSE)
  <2>1. CASE net[s] = IDLE \/ net[s].answer # NONE
    BY <1>1, <2>1
  <2>2. CASE net[s] # IDLE /\ net[s].answer = NONE
    <3>1. Sound(net[s], who, trail)
      BY <2>2 DEF BoardInv, NetInv
    <3>2. net'[s] = [net[s] EXCEPT !.live = FALSE]
      BY <1>1, <2>2
    <3> QED
      BY <2>2, <3>1, <3>2, Abandoned
  <2> QED
    BY <2>1, <2>2
<1>3. NetInv'
  BY <1>1, <1>2 DEF NetInv
<1>4. ~ Waiting(net', Kinds)
  BY <1>2 DEF Waiting
<1>5. page'.open = FALSE
  BY <1>1 DEF Closed
<1>6. ServerInv' /\ PageInv' /\ Attended(page', net', who')
  BY <1>1, <1>4, <1>5 DEF BoardInv, ServerInv, PageInv, Attended
<1> QED
  BY <1>3, <1>6 DEF BoardInv

LEMMA SignOutStep == ASSUME BoardInv, SignOut PROVE BoardInv'
  BY Spending, LeaveStep DEF SignOut

LEMMA UnauthenticatedStep == ASSUME BoardInv, Unauthenticated PROVE BoardInv'
  BY LeaveStep DEF Unauthenticated, BoardInv, ServerInv

-----------------------------------------------------------------------------
(* The API *)

\* The pages offer what the API accepts of a viewer in the page's role.
LEMMA OfferedIsAccepted ==
    ASSUME NEW r \in Row, NEW to \in OfferedTo(who, r.status), Role = RoleOf(who),
           who = "agent" => r.agent = Me, who \in Pages
    PROVE  StatusCode(r, to) = 200
<1>1. r.status \in Statuses
  BY NoRow
<1>2. who = "agent" => to \in AGENT_TRANSITIONS[r.status]
  BY <1>1 DEF OfferedTo, OfferedToAgent, AGENT_TRANSITIONS, Statuses
<1>3. CASE who = "agent"
  <2>1. to \in VALID_TRANSITIONS[r.status]
    BY <1>1, <1>3 DEF OfferedTo, OfferedToAgent, VALID_TRANSITIONS, Statuses
  <2>2. Role = "AGENT" /\ r.agent = Viewer
    BY <1>3 DEF RoleOf, Viewer
  <2> QED
    BY <1>2, <1>3, <2>1, <2>2 DEF StatusCode
<1>4. CASE who = "admin"
  <2>1. to \in VALID_TRANSITIONS[r.status]
    BY <1>1, <1>4 DEF OfferedTo, OfferedToAdmin, VALID_TRANSITIONS, Statuses
  <2>2. Role = "ADMIN"
    BY <1>4 DEF RoleOf
  <2> QED
    BY <2>1, <2>2 DEF StatusCode
<1> QED
  BY <1>3, <1>4 DEF Pages

LEMMA Entering ==
    ASSUME NEW i \in Incidents, NEW k \in Nat, NEW t \in Counts, k <= t[i]
    PROVE  [Nothing EXCEPT ![i] = k] \in Counts /\ AtMost([Nothing EXCEPT ![i] = k], t)
<1> DEFINE e == [Nothing EXCEPT ![i] = k]
<1>1. e = [j \in Incidents |-> IF j = i THEN k ELSE 0]
  BY DEF Nothing
<1>2. \A j \in Incidents : t[j] \in Nat /\ 0 <= t[j]
  BY DEF Counts
<1> HIDE DEF e
<1>3. e \in Counts /\ AtMost(e, t)
  BY <1>1, <1>2 DEF Counts, AtMost
<1> QED
  BY <1>3 DEF e

LEMMA NothingToTell == ASSUME NEW t \in Counts PROVE Nothing \in Counts /\ AtMost(Nothing, t)
  BY NoEntries DEF AtMost, Counts

LEMMA AnswerFields ==
    ASSUME NEW c, NEW v, NEW e
    PROVE  LET a == Answer(c, v, e)
           IN  a.code = c /\ a.value = v /\ a.entries = e /\ a.role = Role
  BY DEF Answer

\* null is not an answer.
LEMMA Answered == ASSUME BoardInv, NEW s \in Slots, net[s] # IDLE
                  PROVE  Asked(net[s], who) /\ net[s].kind \in Kinds
  BY DEF BoardInv, NetInv, Sound, Asked

\* A request is answered with a, a sound answer.
LEMMA Replying ==
    ASSUME BoardInv, NEW s \in Slots, net[s] # IDLE, NEW a, Reply(s, a), ServerInv',
           AtMost(trail, trail'), UNCHANGED <<who, page, known>>,
           a.entries \in Counts, AtMost(a.entries, trail'),
           net[s].kind = "status" /\ a.code \in {403, 422} /\ Theirs(net[s], who, a.role)
              => a.value # net[s].seen,
           a.code = 200 =>
              /\ net[s].kind = "load" =>
                    /\ a.value.rows \in Rows /\ a.value.roster \in Rosters
                    /\ a.entries = Nothing
              /\ net[s].kind = "roster" => a.value \in Rosters
              /\ net[s].kind = "availability" => a.value \in BOOLEAN
              /\ net[s].kind \in {"status", "assign", "edit"} => a.value \in Row
    PROVE  BoardInv'
<1> DEFINE q == net[s]
           n == [q EXCEPT !.answer = a]
<1>1. /\ Asked(n, who) /\ n.answer = a /\ n.live = q.live /\ n.kind = q.kind
      /\ n.seen = q.seen /\ n.entries = q.entries
  BY Answered, AskedStays
<1>2. q.entries \in Counts /\ AtMost(q.entries, trail')
  BY AtMostGrows DEF BoardInv, NetInv, Sound, ServerInv
<1>3. net' = [net EXCEPT ![s] = n]
  BY DEF Reply
<1> HIDE DEF n
<1>4. Answers(n, who, trail')
  BY <1>1 DEF Answers, Theirs
<1>5. Sound(n, who, trail')
  BY <1>1, <1>2, <1>4 DEF Sound
<1>6. NetInv'
  BY <1>3, <1>5, NetStep DEF BoardInv, ServerInv
<1>7. net'[s] = n /\ \A x \in Slots : x # s => net'[x] = net[x]
  BY <1>3 DEF BoardInv, NetInv
<1>8. \A kinds : Waiting(net, kinds) <=> Waiting(net', kinds)
  BY <1>1, <1>7, Answered, StillWaiting
<1>9. PageInv' /\ Attended(page', net', who')
  BY <1>8 DEF BoardInv, PageInv, Attended
<1> QED
  BY <1>6, <1>9 DEF BoardInv

\* An error.
LEMMA Refusing ==
    ASSUME BoardInv, NEW s \in Slots, net[s] # IDLE, NEW code, code # 200, NEW value,
           Reply(s, Answer(code, value, Nothing)), UNCHANGED <<row, trail, account, who, page, known>>,
           spare' \in 0 .. MaxEvents,
           net[s].kind = "status" /\ code \in {403, 422} /\ Theirs(net[s], who, Role)
              => value # net[s].seen
    PROVE  BoardInv'
<1> DEFINE a == Answer(code, value, Nothing)
<1>1. a.code = code /\ a.value = value /\ a.entries = Nothing /\ a.role = Role
  BY AnswerFields
<1>2. trail \in Counts /\ AtMost(trail, trail') /\ Nothing \in Counts /\ AtMost(Nothing, trail')
  BY AtMostSelf, NothingToTell DEF BoardInv, ServerInv
<1>3. ServerInv'
  BY DEF BoardInv, ServerInv
<1> HIDE DEF a
<1>4. Reply(s, a)
  BY DEF a
<1> QED
  BY <1>1, <1>2, <1>3, <1>4, Replying

LEMMA Writing ==
    ASSUME BoardInv, NEW i \in Incidents, NEW new \in Row, NEW moved \in BOOLEAN,
           NEW entries \in Nat, Write(i, new, moved, entries)
    PROVE  /\ row' \in [Incidents -> Row] /\ trail' \in Counts /\ AtMost(trail, trail')
           /\ account' = account
           /\ row'[i] \in Row /\ row'[i].agent = IF moved THEN new.agent ELSE row[i].agent
<1> DEFINE r == IF moved THEN [new EXCEPT !.version = @ + 1] ELSE row[i]
<1>1. row \in [Incidents -> Row] /\ trail \in Counts
  BY DEF BoardInv, ServerInv
<1>2. r \in Row /\ r.agent = IF moved THEN new.agent ELSE row[i].agent
  BY <1>1 DEF Row
<1>3. row' = [row EXCEPT ![i] = r]
  BY DEF Write
<1> HIDE DEF r
<1>4. row' \in [Incidents -> Row] /\ row'[i] = r
  BY <1>1, <1>2, <1>3
<1>5. trail' = [j \in Incidents |-> IF j = i THEN trail[i] + entries ELSE trail[j]]
  BY <1>1 DEF Write, Counts
<1>6. \A j \in Incidents : trail[j] \in Nat /\ trail'[j] \in Nat /\ trail[j] <= trail'[j]
  BY <1>1, <1>5 DEF Counts
<1>7. trail' \in Counts /\ AtMost(trail, trail')
  BY <1>5, <1>6 DEF Counts, AtMost
<1> QED
  BY <1>2, <1>4, <1>7 DEF Write

LEMMA ServerGrows ==
    ASSUME BoardInv, row' \in [Incidents -> Row], trail' \in Counts, AtMost(trail, trail'),
           account' \in [Users -> Account],
           UNCHANGED <<who, known>>, spare' \in 0 .. MaxEvents
    PROVE  ServerInv'
<1>1. AtMost(known, trail')
  BY AtMostGrows DEF BoardInv, ServerInv
<1> QED
  BY <1>1 DEF BoardInv, ServerInv

\* A change of an incident is carried out.
LEMMA DoneStep ==
    ASSUME BoardInv, NEW s \in Slots, net[s] # IDLE, NEW i \in Incidents, NEW new \in Row,
           NEW moved \in BOOLEAN, NEW entries \in Nat, Done(s, i, new, moved, entries),
           net[s].kind \in {"status", "assign", "edit"},
           UNCHANGED <<who, page, known, spare>>
    PROVE  BoardInv'
<1> DEFINE e == [Nothing EXCEPT ![i] = trail'[i]]
           a == Answer(200, row'[i], e)
<1>1. /\ row' \in [Incidents -> Row] /\ trail' \in Counts /\ AtMost(trail, trail')
      /\ account' = account
      /\ row'[i] \in Row /\ row'[i].agent = IF moved THEN new.agent ELSE row[i].agent
  BY Writing DEF Done
<1>2. ServerInv'
  BY <1>1, ServerGrows DEF BoardInv, ServerInv
<1>3. e \in Counts /\ AtMost(e, trail')
  <2>1. trail'[i] \in Nat /\ trail'[i] <= trail'[i]
    BY <1>1 DEF Counts
  <2> QED
    BY <1>1, <2>1, Entering
<1>4. a.code = 200 /\ a.value = row'[i] /\ a.entries = e
  BY AnswerFields
<1>5. Reply(s, a)
  BY DEF Done
<1> HIDE DEF a, e
<1> QED
  BY <1>1, <1>2, <1>3, <1>4, <1>5, Replying

LEMMA ServeStatusStep ==
    ASSUME BoardInv, NEW s \in Slots, net[s] # IDLE, ServeStatus(s, net[s], row[net[s].inc]),
           UNCHANGED <<who, page, known, spare>>
    PROVE  BoardInv'
<1> DEFINE q == net[s]
           r == row[q.inc]
<1>1. /\ q.kind = "status" /\ q.inc \in Incidents /\ q.to \in Statuses /\ q.seen \in Row
      /\ q.to \in OfferedTo(who, q.seen.status)
  BY Answered DEF ServeStatus, Asked
<1>2. r \in Row /\ spare \in 0 .. MaxEvents /\ who \in Pages
  BY <1>1 DEF BoardInv, ServerInv
<1>3. StatusCode(r, q.to) = 200 \/ StatusCode(r, q.to) \in {403, 422}
  BY DEF StatusCode
<1>4. CASE StatusCode(r, q.to) = 200
  <2>1. Done(s, q.inc, [r EXCEPT !.status = q.to], TRUE, 1)
    BY <1>4 DEF ServeStatus
  <2>2. [r EXCEPT !.status = q.to] \in Row /\ [r EXCEPT !.status = q.to].agent = r.agent
    BY <1>1, <1>2 DEF Row
  <2> HIDE DEF q, r
  <2>3. net[s].kind \in {"status", "assign", "edit"}
    BY <1>1 DEF q
  <2> QED
    BY <1>1, <2>1, <2>2, <2>3, DoneStep
<1>5. CASE StatusCode(r, q.to) # 200
  <2>1. Reply(s, Answer(StatusCode(r, q.to), r, Nothing)) /\ UNCHANGED <<row, trail, account>>
    BY <1>5 DEF ServeStatus, Refuse, server
  <2>2. Theirs(q, who, Role) => r # q.seen
    BY <1>1, <1>2, <1>5, OfferedIsAccepted DEF Theirs
  <2> QED
    BY <1>2, <1>5, <2>1, <2>2, Refusing
<1> QED
  BY <1>4, <1>5

LEMMA AssignedRow ==
    ASSUME NEW r \in Row, NEW a \in Users \cup {NONE}
    PROVE  Assigned(r, a) \in Row
<1> DEFINE st == IF a = NONE THEN IF r.status = "ASSIGNED" THEN "REPORTED" ELSE r.status
                 ELSE IF r.status \in {"REPORTED", "TRIAGED"} THEN "ASSIGNED" ELSE r.status
<1>1. st \in Statuses
  BY NoRow DEF Statuses
<1>2. [r EXCEPT !.agent = a, !.status = st] \in Row
  BY <1>1 DEF Row
<1>3. Assigned(r, a) = [r EXCEPT !.agent = a, !.status = st]
  BY DEF Assigned, Row
<1> QED
  BY <1>2, <1>3

LEMMA AssignCounts == ASSUME NEW r, NEW a PROVE AssignEntries(r, a) \in Nat
<1>1. \A b : Bit(b) \in Nat
  BY DEF Bit
<1> QED
  BY <1>1 DEF AssignEntries

LEMMA ServeAssignStep ==
    ASSUME BoardInv, NEW s \in Slots, net[s] # IDLE, ServeAssign(s, net[s], row[net[s].inc]),
           UNCHANGED <<who, page, known, spare>>
    PROVE  BoardInv'
<1> DEFINE q == net[s]
           r == row[q.inc]
<1>1. q.kind = "assign" /\ q.inc \in Incidents /\ q.to \in Users \cup {NONE}
  BY Answered DEF ServeAssign, Asked
<1>2. r \in Row /\ spare \in 0 .. MaxEvents
  BY <1>1 DEF BoardInv, ServerInv
<1>3. CASE AssignCode(q.to, q.override) = 200
  <2>1. Done(s, q.inc, Assigned(r, q.to), Assigned(r, q.to) # r, AssignEntries(r, q.to))
    BY <1>3 DEF ServeAssign
  <2>2. (Assigned(r, q.to) # r) \in BOOLEAN
    OBVIOUS
  <2>3. net[s].kind \in {"status", "assign", "edit"}
    BY <1>1
  <2> HIDE DEF q, r
  <2> QED
    BY <1>1, <1>2, <2>1, <2>2, <2>3, AssignedRow, AssignCounts, DoneStep
<1>4. CASE AssignCode(q.to, q.override) # 200
  <2>1. /\ Reply(s, Answer(AssignCode(q.to, q.override), r, Nothing))
        /\ UNCHANGED <<row, trail, account>>
    BY <1>4 DEF ServeAssign, Refuse, server
  <2> QED
    BY <1>1, <1>2, <1>4, <2>1, Refusing
<1> QED
  BY <1>3, <1>4

LEMMA ServeEditStep ==
    ASSUME BoardInv, NEW s \in Slots, net[s] # IDLE, ServeEdit(s, net[s], row[net[s].inc]),
           UNCHANGED <<who, page, known, spare>>
    PROVE  BoardInv'
<1>1. net[s].kind = "edit" /\ net[s].inc \in Incidents
  BY Answered DEF ServeEdit, Asked
<1>2. row[net[s].inc] \in Row /\ spare \in 0 .. MaxEvents
  BY <1>1 DEF BoardInv, ServerInv
<1>3. CASE Authorized
  <2>1. PICK moved \in BOOLEAN : Done(s, net[s].inc, row[net[s].inc], moved, Bit(moved))
    BY <1>3 DEF ServeEdit
  <2>2. Bit(moved) \in Nat
    BY DEF Bit
  <2> QED
    BY <1>1, <1>2, <2>1, <2>2, DoneStep
<1>4. CASE ~ Authorized
  <2>1. Reply(s, Answer(403, row[net[s].inc], Nothing)) /\ UNCHANGED <<row, trail, account>>
    BY <1>4 DEF ServeEdit, Refuse, server
  <2> QED
    BY <1>1, <1>2, <2>1, Refusing
<1> QED
  BY <1>3, <1>4

\* A switch adds an entry to every incident on the agent's plate.
LEMMA Switching ==
    ASSUME BoardInv, NEW a \in Users, NEW v \in BOOLEAN, SetAvailability(a, v)
    PROVE  /\ row' \in [Incidents -> Row] /\ trail' \in Counts /\ AtMost(trail, trail')
           /\ account' \in [Users -> Account]
<1>1. /\ row \in [Incidents -> Row] /\ trail \in Counts
      /\ account \in [Users -> Account]
  BY DEF BoardInv, ServerInv
<1>2. /\ account' = [account EXCEPT ![a].available = v] /\ row' = row
      /\ trail' = [i \in Incidents |-> trail[i] + Bit(i \in Plate(a, v))]
  BY DEF SetAvailability
<1>3. \A b : Bit(b) \in Nat
  BY DEF Bit
<1>4. \A i \in Incidents : trail[i] \in Nat /\ trail'[i] \in Nat /\ trail[i] <= trail'[i]
  BY <1>1, <1>2, <1>3 DEF Counts
<1>5. trail' \in Counts /\ AtMost(trail, trail')
  BY <1>2, <1>4 DEF Counts, AtMost
<1>6. account' \in [Users -> Account]
  BY <1>1, <1>2 DEF Account
<1> QED
  BY <1>1, <1>2, <1>5, <1>6

LEMMA ServeAvailabilityStep ==
    ASSUME BoardInv, NEW s \in Slots, net[s] # IDLE, ServeAvailability(s, net[s]),
           UNCHANGED <<who, page, known, spare>>
    PROVE  BoardInv'
<1> DEFINE q == net[s]
<1>1. q.kind = "availability" /\ q.inc \in Users /\ q.to \in BOOLEAN
  BY Answered DEF ServeAvailability, Asked
<1>2. CASE Authorized /\ IsAgent(q.inc)
  <2> DEFINE e == [i \in Incidents |-> IF i \in Plate(q.inc, q.to) THEN trail'[i] ELSE 0]
             a == Answer(200, q.to, e)
  <2>1. SetAvailability(q.inc, q.to) /\ Reply(s, a)
    BY <1>2 DEF ServeAvailability
  <2>2. /\ row' \in [Incidents -> Row] /\ trail' \in Counts /\ AtMost(trail, trail')
        /\ account' \in [Users -> Account]
    BY <1>1, <2>1, Switching
  <2>3. ServerInv'
    BY <2>2, ServerGrows DEF BoardInv, ServerInv
  <2>4. \A i \in Incidents : trail'[i] \in Nat
    BY <2>2 DEF Counts
  <2>5. e \in Counts /\ AtMost(e, trail')
    BY <2>4 DEF Counts, AtMost
  <2>6. a.code = 200 /\ a.value = q.to /\ a.entries = e
    BY AnswerFields
  <2> HIDE DEF a, e
  <2> QED
    BY <1>1, <2>1, <2>2, <2>3, <2>5, <2>6, Replying
<1>3. CASE ~ (Authorized /\ IsAgent(q.inc))
  <2> DEFINE code == IF Authorized THEN 404 ELSE 403
  <2>1. Reply(s, Answer(code, NONE, Nothing)) /\ UNCHANGED <<row, trail, account>>
    BY <1>3 DEF ServeAvailability, Refuse, server
  <2>2. code # 200 /\ spare \in 0 .. MaxEvents
    BY DEF BoardInv, ServerInv
  <2> HIDE DEF code
  <2> QED
    BY <1>1, <2>1, <2>2, Refusing
<1> QED
  BY <1>2, <1>3

LEMMA Lists ==
    ASSUME BoardInv
    PROVE  Listing \in Rows /\ Roster \in Rosters
<1>1. row \in [Incidents -> Row] /\ account \in [Users -> Account]
  BY DEF BoardInv, ServerInv
<1>2. \A a \in Users : account[a].available \in BOOLEAN
  BY <1>1 DEF Account
<1> QED
  BY <1>1, <1>2 DEF Listing, Roster, Rows, Rosters

\* A list is answered, or refused: nothing changes but the reply.
LEMMA Reading ==
    ASSUME BoardInv, NEW s \in Slots, net[s] # IDLE, net[s].kind \in {"load", "roster"}, NEW v,
           Read(s, v), UNCHANGED <<who, page, known, spare>>,
           net[s].kind = "load" => v.rows \in Rows /\ v.roster \in Rosters,
           net[s].kind = "roster" => v \in Rosters
    PROVE  BoardInv'
<1>1. UNCHANGED <<row, trail, account, who, page, known, spare>> /\ spare \in 0 .. MaxEvents
  BY DEF Read, server, BoardInv, ServerInv
<1>2. CASE Authorized
  <2> DEFINE a == Answer(200, v, Nothing)
  <2>1. a.code = 200 /\ a.value = v /\ a.entries = Nothing
    BY AnswerFields
  <2>2. trail \in Counts /\ AtMost(trail, trail') /\ Nothing \in Counts /\ AtMost(Nothing, trail')
    BY <1>1, AtMostSelf, NothingToTell DEF BoardInv, ServerInv
  <2>3. ServerInv'
    BY <1>1 DEF BoardInv, ServerInv
  <2>4. Reply(s, a)
    BY <1>2 DEF Read
  <2> HIDE DEF a
  <2> QED
    BY <1>1, <2>1, <2>2, <2>3, <2>4, Replying
<1>3. CASE ~ Authorized
  <2>1. Reply(s, Answer(403, NONE, Nothing))
    BY <1>3 DEF Read
  <2> QED
    BY <1>1, <2>1, Refusing
<1> QED
  BY <1>2, <1>3

LEMMA ServeStep == ASSUME BoardInv, NEW s \in Slots, Serve(s) PROVE BoardInv'
<1> DEFINE q == net[s]
<1>1. q # IDLE /\ UNCHANGED <<who, page, known, spare>> /\ spare' \in 0 .. MaxEvents
  BY DEF Serve, BoardInv, ServerInv
<1>2. CASE ~ Authenticated
  <2>1. Reply(s, Answer(401, NONE, Nothing)) /\ UNCHANGED <<row, trail, account>>
    BY <1>2 DEF Serve, Refuse, server
  <2> QED
    BY <1>1, <2>1, Refusing
<1>3. CASE Authenticated
  <2>1. \/ ServeStatus(s, q, row[q.inc]) \/ ServeAssign(s, q, row[q.inc])
        \/ ServeEdit(s, q, row[q.inc])
        \/ ServeAvailability(s, q) \/ ServeLoad(s, q) \/ ServeRoster(s, q)
    BY <1>3 DEF Serve
  <2>2. CASE ServeStatus(s, q, row[q.inc])
    BY <1>1, <2>2, ServeStatusStep
  <2>3. CASE ServeAssign(s, q, row[q.inc])
    BY <1>1, <2>3, ServeAssignStep
  <2>4. CASE ServeEdit(s, q, row[q.inc])
    BY <1>1, <2>4, ServeEditStep
  <2>5. CASE ServeAvailability(s, q)
    BY <1>1, <2>5, ServeAvailabilityStep
  <2>6. CASE ServeLoad(s, q)
    <3> DEFINE v == [rows |-> Listing, roster |-> Roster]
    <3>1. q.kind = "load" /\ Read(s, v)
      BY <2>6 DEF ServeLoad
    <3>2. v.rows = Listing /\ v.roster = Roster
      OBVIOUS
    <3> HIDE DEF v
    <3> QED
      BY <1>1, <3>1, <3>2, Lists, Reading
  <2>7. CASE ServeRoster(s, q)
    BY <1>1, <2>7, Lists, Reading DEF ServeRoster
  <2> QED
    BY <2>1, <2>2, <2>3, <2>4, <2>5, <2>6, <2>7
<1> QED
  BY <1>2, <1>3

LEMMA LoseStep == ASSUME BoardInv, NEW s \in Slots, Lose(s) PROVE BoardInv'
<1>1. /\ net[s] # IDLE /\ Reply(s, Answer(0, NONE, Nothing))
      /\ UNCHANGED <<row, trail, account, who, page, known>>
  BY DEF Lose, server
<1>2. spare' \in 0 .. MaxEvents
  BY Spending DEF Lose
<1> QED
  BY <1>1, <1>2, Refusing

\* Only the rows behind the API change.
LEMMA Behind ==
    ASSUME BoardInv, row' \in [Incidents -> Row], trail' \in Counts, AtMost(trail, trail'),
           account' \in [Users -> Account],
           UNCHANGED <<who, page, net, known>>, spare' \in 0 .. MaxEvents
    PROVE  BoardInv'
<1>1. ServerInv'
  BY ServerGrows
<1>2. NetInv'
  BY NetKept DEF BoardInv, ServerInv
<1>3. PageInv' /\ Attended(page', net', who')
  BY DEF BoardInv, PageInv, Attended, Waiting
<1> QED
  BY <1>1, <1>2, <1>3 DEF BoardInv

LEMMA ElsewhereStep == ASSUME BoardInv, Elsewhere PROVE BoardInv'
<1>1. UNCHANGED <<who, page, net, known>> /\ spare' \in 0 .. MaxEvents
  BY Spending DEF Elsewhere
<1>2. /\ row \in [Incidents -> Row] /\ trail \in Counts /\ AtMost(trail, trail)
      /\ account \in [Users -> Account]
  BY AtMostSelf DEF BoardInv, ServerInv
<1>3. ASSUME NEW i \in Incidents, NEW to \in VALID_TRANSITIONS[row[i].status],
             Write(i, [row[i] EXCEPT !.status = to], TRUE, 1)
      PROVE  BoardInv'
  <2>1. row[i] \in Row /\ row[i].status \in Statuses
    BY <1>2, NoRow
  <2>2. to \in Statuses
    BY <1>3, <2>1 DEF VALID_TRANSITIONS, Statuses
  <2>3. [row[i] EXCEPT !.status = to] \in Row
    BY <2>1, <2>2 DEF Row
  <2> QED
    BY <1>1, <1>2, <1>3, <2>3, Writing, Behind
<1>4. ASSUME NEW i \in Incidents, NEW a \in Users \cup {NONE},
             Write(i, Assigned(row[i], a), TRUE, AssignEntries(row[i], a))
      PROVE  BoardInv'
  <2>1. Assigned(row[i], a) \in Row /\ AssignEntries(row[i], a) \in Nat
    BY <1>2, AssignedRow, AssignCounts
  <2> QED
    BY <1>1, <1>2, <1>4, <2>1, Writing, Behind
<1>5. ASSUME NEW a \in Users, SetAvailability(a, ~account[a].available) PROVE BoardInv'
  <2>1. (~account[a].available) \in BOOLEAN
    OBVIOUS
  <2> QED
    BY <1>1, <1>5, <2>1, Switching, Behind
<1>6. ASSUME NEW a \in Users, UNCHANGED <<row, trail, session>>,
             \/ account' = [account EXCEPT ![a].active = ~@]
             \/ \E new \in Roles \ {account[a].role} : account' = [account EXCEPT ![a].role = new]
      PROVE  BoardInv'
  <2>1. account' \in [Users -> Account]
    BY <1>2, <1>6 DEF Account
  <2> QED
    BY <1>1, <1>2, <1>6, <2>1, Behind
<1> QED
  BY <1>3, <1>4, <1>5, <1>6 DEF Elsewhere

LEMMA SessionExpiresStep == ASSUME BoardInv, SessionExpires PROVE BoardInv'
<1>1. UNCHANGED <<row, trail, account, who, page, net, known>> /\ spare' \in 0 .. MaxEvents
  BY Spending DEF SessionExpires
<1> QED
  BY <1>1, AtMostSelf, Behind DEF BoardInv, ServerInv

-----------------------------------------------------------------------------
(* The fetch of the trail *)

\* The page with another trail, of the incident it shows.
LEMMA TrailOn ==
    ASSUME BoardInv, page.open, page.trail # NONE,
           NEW t \in [step : {"asked", "served", "shown", "failed"}, events : Nat],
           page' = [page EXCEPT !.trail = t],
           who = "admin" /\ t.step \in {"served", "shown"} => t.events >= known[page.selected],
           UNCHANGED <<row, trail, account, who, net, known>>, spare' \in 0 .. MaxEvents
    PROVE  BoardInv'
<1>1. /\ Proper(page, who) /\ page \in OpenPages /\ Informed(page, who, known)
      /\ Selected(page) # NONE
  BY OnPage DEF Informed
<1>2. /\ page' \in OpenPages /\ page'.trail = t /\ page'.rows = page.rows
      /\ page'.selected = page.selected /\ page'.prompt = page.prompt
      /\ page'.loading = page.loading /\ page'.toggling = page.toggling
      /\ page'.busy = page.busy /\ page'.open
  BY <1>1 DEF OpenPages
<1>3. Proper(page', who)
  BY <1>1, <1>2 DEF Proper
<1>4. Selected(page') # NONE
  BY <1>1, <1>2 DEF Selected
<1>5. Informed(page', who, known)
  BY <1>2, <1>4 DEF Informed
<1>6. ServerInv' /\ NetInv' /\ PageInv'
  BY <1>3, <1>5 DEF BoardInv, ServerInv, NetInv, PageInv
<1>7. Attended(page', net', who')
  BY <1>2 DEF BoardInv, Attended
<1> QED
  BY <1>6, <1>7 DEF BoardInv

\* What the API says of a trail is not behind what the user knows.
LEMMA ServeTrailStep == ASSUME BoardInv, ServeTrail PROVE BoardInv'
<1> DEFINE t == IF Readable(page.selected)
                THEN [step |-> "served", events |-> trail[page.selected]]
                ELSE [step |-> "failed", events |-> 0]
<1>1. /\ page.open /\ page.trail # NONE /\ page' = [page EXCEPT !.trail = t]
      /\ UNCHANGED <<row, trail, account, who, net, known, spare>>
  BY DEF ServeTrail, server
<1>2. page.selected \in Incidents
  BY <1>1, OnPage, Selecting DEF Informed
<1>3. trail[page.selected] \in Nat /\ trail[page.selected] >= known[page.selected]
  BY <1>2 DEF BoardInv, ServerInv, AtMost, Counts
<1>4. /\ t \in [step : {"asked", "served", "shown", "failed"}, events : Nat]
      /\ t.step \in {"served", "shown"} => t.events >= known[page.selected]
  BY <1>3
<1>5. spare' \in 0 .. MaxEvents
  BY <1>1 DEF BoardInv, ServerInv
<1> HIDE DEF t
<1> QED
  BY <1>1, <1>4, <1>5, TrailOn

LEMMA ReceiveTrailStep == ASSUME BoardInv, ReceiveTrail PROVE BoardInv'
<1> DEFINE t == [page.trail EXCEPT !.step = "shown"]
<1>1. page.open /\ page.trail # NONE
  BY DEF ReceiveTrail
<1>2. CASE /\ page.trail.step = "served" /\ page' = [page EXCEPT !.trail.step = "shown"]
           /\ UNCHANGED <<server, who, net, known, spare>>
  <2>1. page.trail \in [step : {"asked", "served", "shown", "failed"}, events : Nat]
    BY <1>1, OnPage, PageFields
  <2>2. /\ t \in [step : {"asked", "served", "shown", "failed"}, events : Nat]
        /\ t.events = page.trail.events
    BY <2>1
  <2>3. page' = [page EXCEPT !.trail = t]
    BY <1>2
  <2>4. who = "admin" => t.events >= known[page.selected]
    BY <1>1, <1>2, <2>2, OnPage DEF Informed
  <2>5. spare' \in 0 .. MaxEvents
    BY <1>2 DEF BoardInv, ServerInv
  <2> HIDE DEF t
  <2> QED
    BY <1>1, <1>2, <2>2, <2>3, <2>4, <2>5, TrailOn DEF server
<1> QED
  BY <1>2, UnauthenticatedStep DEF ReceiveTrail

LEMMA LoseTrailStep == ASSUME BoardInv, LoseTrail PROVE BoardInv'
<1> DEFINE t == [step |-> "failed", events |-> 0]
<1>1. /\ page.open /\ page.trail # NONE /\ page' = [page EXCEPT !.trail = t]
      /\ UNCHANGED <<row, trail, account, who, net, known>> /\ spare' \in 0 .. MaxEvents
  BY Spending DEF LoseTrail, server
<1>2. /\ t \in [step : {"asked", "served", "shown", "failed"}, events : Nat]
      /\ t.step = "failed"
  OBVIOUS
<1> HIDE DEF t
<1> QED
  BY <1>1, <1>2, TrailOn

-----------------------------------------------------------------------------
(* An answer arrives *)

\* A handler comes to its end: what was not waiting for it goes on waiting.
LEMMA Settling ==
    ASSUME BoardInv, page.open, NEW s \in Slots, net[s] # IDLE, NEW new, NEW bumped \in BOOLEAN,
           Settle(s, new, bumped), Proper(new, who),
           known' \in Counts, AtMost(known', trail), who = "admin" /\ ~ bumped => known' = known,
           new.loading => page.loading /\ net[s].kind # "load",
           new.toggling => page.toggling /\ net[s].kind # "availability",
           new.busy # NONE => page.busy # NONE /\ net[s].kind \notin BusyKinds(who)
    PROVE  BoardInv'
<1>1. /\ net' = [net EXCEPT ![s] = IDLE] /\ page' = Drawn(page, new, bumped)
      /\ UNCHANGED <<row, trail, account, who, spare>>
  BY DEF Settle, Redraw, server
<1>2. /\ Proper(page', who) /\ Informed(page', who, known')
      /\ page'.loading = new.loading /\ page'.toggling = new.toggling /\ page'.busy = new.busy
      /\ page'.open
  BY <1>1, OnPage, Drawing
<1>3. ServerInv'
  BY <1>1 DEF BoardInv, ServerInv
<1>4. NetInv'
  BY <1>1, NetStep, AtMostSelf DEF BoardInv, ServerInv
<1>5. \A x \in Slots : x # s => net'[x] = net[x]
  BY <1>1 DEF BoardInv, NetInv
<1>6. \A kinds : net[s].kind \notin kinds /\ Waiting(net, kinds) => Waiting(net', kinds)
  BY <1>5, OthersWait
<1>7. /\ page.loading => Waiting(net, {"load"})
      /\ page.toggling => Waiting(net, {"availability"})
      /\ page.busy # NONE => Waiting(net, BusyKinds(who))
  BY DEF BoardInv, Attended
<1>8. page'.loading => Waiting(net', {"load"})
  BY <1>2, <1>6, <1>7
<1>9. page'.toggling => Waiting(net', {"availability"})
  BY <1>2, <1>6, <1>7
<1>10. page'.busy # NONE => Waiting(net', BusyKinds(who))
  BY <1>2, <1>6, <1>7
<1>11. PageInv' /\ Attended(page', net', who')
  BY <1>1, <1>2, <1>8, <1>9, <1>10 DEF PageInv, Attended
<1> QED
  BY <1>3, <1>4, <1>11 DEF BoardInv

\* The control that waited for q is enabled again; the others stay as they are.
LEMMA Freeing ==
    ASSUME NEW q, Asked(q, who), NEW p, Proper(p, who)
    PROVE  LET n == Freed(q, p)
           IN  /\ Proper(n, who)
               /\ n.loading => p.loading /\ q.kind # "load"
               /\ n.toggling => p.toggling /\ q.kind # "availability"
               /\ n.busy # NONE => p.busy # NONE /\ q.kind \notin BusyKinds(who)
<1>1. CASE q.kind = "load"
  <2>1. Freed(q, p) = [p EXCEPT !.loading = FALSE]
    BY <1>1 DEF Freed
  <2>2. /\ Proper([p EXCEPT !.loading = FALSE], who)
        /\ [p EXCEPT !.loading = FALSE].loading = FALSE
        /\ [p EXCEPT !.loading = FALSE].toggling = p.toggling
        /\ [p EXCEPT !.loading = FALSE].busy = p.busy
    BY DEF Proper, OpenPages
  <2> QED
    BY <1>1, <2>1, <2>2 DEF BusyKinds
<1>2. CASE q.kind = "availability" /\ who = "agent"
  <2>1. Freed(q, p) = [p EXCEPT !.toggling = FALSE]
    BY <1>2 DEF Freed
  <2>2. /\ Proper([p EXCEPT !.toggling = FALSE], who)
        /\ [p EXCEPT !.toggling = FALSE].toggling = FALSE
        /\ [p EXCEPT !.toggling = FALSE].loading = p.loading
        /\ [p EXCEPT !.toggling = FALSE].busy = p.busy
    BY DEF Proper, OpenPages
  <2> QED
    BY <1>2, <2>1, <2>2 DEF BusyKinds
<1>3. CASE q.kind # "load" /\ ~(q.kind = "availability" /\ who = "agent")
  <2>1. Freed(q, p) = [p EXCEPT !.busy = NONE]
    BY <1>3 DEF Freed
  <2>2. /\ Proper([p EXCEPT !.busy = NONE], who)
        /\ [p EXCEPT !.busy = NONE].busy = NONE
        /\ [p EXCEPT !.busy = NONE].loading = p.loading
        /\ [p EXCEPT !.busy = NONE].toggling = p.toggling
    BY DEF Proper, OpenPages
  <2>3. p.toggling => who = "agent"
    BY DEF Proper
  <2> QED
    BY <1>3, <2>1, <2>2, <2>3
<1> QED
  BY <1>1, <1>2, <1>3

\* A row in the list is replaced by another row.
LEMMA Applying ==
    ASSUME NEW p, Proper(p, who), NEW i \in Incidents, NEW r \in Row
    PROVE  LET n == Apply(p, i, r)
           IN  /\ Proper(n, who)
               /\ n.loading = p.loading /\ n.toggling = p.toggling /\ n.busy = p.busy
<1> DEFINE c == IF p.rows[i] = NONE THEN NONE ELSE r
           rows == [p.rows EXCEPT ![i] = c]
           n == Apply(p, i, r)
<1>1. p.rows \in Rows /\ p \in OpenPages
  BY PageFields DEF Proper
<1>2. c \in Row \cup {NONE}
  OBVIOUS
<1>3. n = [p EXCEPT !.rows = rows]
  BY DEF Apply
<1> HIDE DEF c, n
<1>4. rows \in Rows
  BY <1>1, <1>2 DEF Rows
<1> HIDE DEF rows
<1>5. /\ n \in OpenPages /\ n.rows = rows /\ n.prompt = p.prompt
      /\ n.loading = p.loading /\ n.toggling = p.toggling /\ n.busy = p.busy
  BY <1>1, <1>3, <1>4 DEF OpenPages
<1>6. Proper(n, who)
  BY <1>5 DEF Proper
<1> QED
  BY <1>5, <1>6 DEF n

\* What a successful answer changes on its page.
LEMMA AppliedPage ==
    ASSUME Proper(page, who), NEW q, NEW t, Asked(q, who), Answers(q, who, t),
           q.answer # NONE, q.answer.code = 200
    PROVE  LET n == Applied(q, page)
           IN  /\ Proper(n, who)
               /\ n.loading = page.loading /\ n.toggling = page.toggling /\ n.busy = page.busy
<1> DEFINE v == q.answer.value
           AppliedWell(n) ==
               /\ Proper(n, who)
               /\ n.loading = page.loading /\ n.toggling = page.toggling /\ n.busy = page.busy
<1>1. CASE q.kind = "load"
  <2>1. Applied(q, page) = [page EXCEPT !.rows = v.rows, !.roster = v.roster]
    BY <1>1 DEF Applied
  <2>2. v.rows \in Rows /\ v.roster \in Rosters
    BY <1>1 DEF Answers
  <2> HIDE DEF v
  <2>3. AppliedWell([page EXCEPT !.rows = v.rows, !.roster = v.roster])
    BY <2>2 DEF Proper, OpenPages
  <2> QED
    BY <2>1, <2>3
<1>2. CASE q.kind = "roster"
  <2>1. Applied(q, page) = [page EXCEPT !.roster = v]
    BY <1>2 DEF Applied
  <2>2. v \in Rosters
    BY <1>2 DEF Answers
  <2> HIDE DEF v
  <2>3. AppliedWell([page EXCEPT !.roster = v])
    BY <2>2 DEF Proper, OpenPages
  <2> QED
    BY <2>1, <2>3
<1>3. CASE q.kind = "availability"
  <2> DEFINE roster == [page.roster EXCEPT ![q.inc] = IF @ = NONE THEN NONE ELSE v]
  <2>1. Applied(q, page) = [page EXCEPT !.roster = roster]
    BY <1>3 DEF Applied
  <2>2. v \in BOOLEAN /\ q.inc \in Users /\ page.roster \in Rosters
    BY <1>3, PageFields DEF Answers, Asked, Proper
  <2> HIDE DEF v
  <2>3. roster \in Rosters
    BY <2>2 DEF Rosters
  <2> HIDE DEF roster
  <2>4. AppliedWell([page EXCEPT !.roster = roster])
    BY <2>3 DEF Proper, OpenPages
  <2> QED
    BY <2>1, <2>4
<1>4. CASE q.kind \in {"status", "assign", "edit"}
  <2> DEFINE m == Apply(page, q.inc, v)
  <2>1. q.inc \in Incidents /\ v \in Row
    BY <1>4 DEF Answers, Asked
  <2> HIDE DEF v
  <2>2. /\ Proper(m, who)
        /\ m.loading = page.loading /\ m.toggling = page.toggling /\ m.busy = page.busy
    BY <2>1, Applying
  <2> HIDE DEF m
  <2>3. Applied(q, page) = [m EXCEPT !.prompt = NONE] \/ Applied(q, page) = m
    <3>1. CASE q.kind = "assign"
      BY <3>1 DEF Applied, m, v
    <3>2. CASE q.kind \in {"status", "edit"}
      BY <3>2 DEF Applied, m, v
    <3> QED
      BY <1>4, <3>1, <3>2
  <2>4. AppliedWell([m EXCEPT !.prompt = NONE])
    BY <2>2 DEF Proper, OpenPages
  <2> QED
    BY <2>2, <2>3, <2>4, ZenonT(60)
<1> QED
  BY <1>1, <1>2, <1>3, <1>4 DEF Asked, Kinds

\* What the user learns of the trail is in it.
LEMMA Learning ==
    ASSUME known \in Counts, NEW e \in Counts, NEW t \in Counts, AtMost(known, t), AtMost(e, t),
           Learns(e)
    PROVE  known' \in Counts /\ AtMost(known', t) /\ (e = Nothing => known' = known)
<1>1. \A i \in Incidents : known[i] \in Nat /\ e[i] \in Nat
  BY DEF Counts
<1>2. known' = [i \in Incidents |-> IF e[i] > known[i] THEN e[i] ELSE known[i]]
  BY DEF Learns
<1>3. known' \in Counts
  BY <1>1, <1>2 DEF Counts
<1>4. AtMost(known', t)
  BY <1>1, <1>2 DEF AtMost
<1>5. ASSUME e = Nothing PROVE known' = known
  <2>1. \A i \in Incidents : ~ (e[i] > known[i])
    BY <1>1, <1>5, NoEntries
  <2>2. known' = [i \in Incidents |-> known[i]]
    BY <1>2, <2>1
  <2> QED
    BY <2>2 DEF Counts
<1> QED
  BY <1>3, <1>4, <1>5

\* An answer somebody waits for: the page is open.
LEMMA Awaited ==
    ASSUME BoardInv, NEW s \in Slots, net[s] # IDLE, net[s].live
    PROVE  /\ Sound(net[s], who, trail) /\ page.open
           /\ Proper(page, who)
<1>1. Sound(net[s], who, trail) /\ net[s].kind \in Kinds
  BY DEF BoardInv, NetInv, Sound, Asked
<1>2. Waiting(net, Kinds)
  BY <1>1 DEF Waiting
<1>3. page.open
  BY <1>2 DEF BoardInv, Attended
<1> QED
  BY <1>1, <1>3, OnPage

LEMMA SucceedsStep ==
    ASSUME BoardInv, NEW s \in Slots, net[s] # IDLE, net[s].live, net[s].answer # NONE,
           Succeeds(s, net[s])
    PROVE  BoardInv'
<1> DEFINE q == net[s]
           a == Applied(q, page)
           new == Freed(q, a)
           bumped == q.kind # "load" /\ Bumped(q)
           e == IF q.kind = "roster" THEN q.entries ELSE q.answer.entries
<1>1. /\ q.answer.code = 200 /\ Settle(s, new, bumped) /\ Learns(e)
  BY DEF Succeeds
<1>2. Asked(q, who) /\ Answers(q, who, trail) /\ page.open /\ Proper(page, who)
  BY Awaited DEF Sound
<1>3. /\ Proper(a, who)
      /\ a.loading = page.loading /\ a.toggling = page.toggling /\ a.busy = page.busy
  BY <1>1, <1>2, AppliedPage
<1>4. /\ e \in Counts /\ AtMost(e, trail) /\ (q.kind = "load" => e = Nothing)
  BY <1>1, <1>2, Awaited DEF Answers, Sound
<1>5. trail \in Counts /\ known \in Counts /\ AtMost(known, trail)
  BY DEF BoardInv, ServerInv
<1>6. known' \in Counts /\ AtMost(known', trail) /\ (q.kind = "load" => known' = known)
  BY <1>1, <1>4, <1>5, Learning
<1> HIDE DEF a
<1>7. /\ Proper(new, who)
      /\ new.loading => a.loading /\ q.kind # "load"
      /\ new.toggling => a.toggling /\ q.kind # "availability"
      /\ new.busy # NONE => a.busy # NONE /\ q.kind \notin BusyKinds(who)
  BY <1>2, <1>3, Freeing
<1> HIDE DEF new
<1>8. bumped \in BOOLEAN /\ (who = "admin" /\ ~ bumped => known' = known)
  BY <1>6 DEF Bumped
<1> HIDE DEF bumped, e
<1> QED
  BY <1>1, <1>2, <1>3, <1>6, <1>7, <1>8, Settling

LEMMA FailsStep ==
    ASSUME BoardInv, NEW s \in Slots, net[s] # IDLE, net[s].live, Fails(s, net[s])
    PROVE  BoardInv'
<1> DEFINE new == Freed(net[s], page)
<1>1. Settle(s, new, FALSE) /\ known' = known
  BY DEF Fails
<1>2. Asked(net[s], who) /\ page.open /\ Proper(page, who)
  BY Awaited DEF Sound
<1>3. /\ Proper(new, who)
      /\ new.loading => page.loading /\ net[s].kind # "load"
      /\ new.toggling => page.toggling /\ net[s].kind # "availability"
      /\ new.busy # NONE => page.busy # NONE /\ net[s].kind \notin BusyKinds(who)
  BY <1>2, Freeing
<1>4. known' \in Counts /\ AtMost(known', trail)
  BY <1>1 DEF BoardInv, ServerInv
<1> HIDE DEF new
<1> QED
  BY <1>1, <1>2, <1>3, <1>4, Settling

LEMMA AssignIsPromptedStep ==
    ASSUME BoardInv, NEW s \in Slots, net[s] # IDLE, net[s].live, AssignIsPrompted(s, net[s])
    PROVE  BoardInv'
<1> DEFINE p == [page EXCEPT !.prompt = net[s].to]
           new == Freed(net[s], p)
           bumped == Bumped(net[s])
<1>1. /\ net[s].kind = "assign" /\ Settle(s, new, bumped) /\ known' = known
  BY DEF AssignIsPrompted, TakenForUnavailable
<1>2. Asked(net[s], who) /\ page.open /\ Proper(page, who)
  BY Awaited DEF Sound
<1>3. net[s].to \in Users \cup {NONE} /\ who # "agent"
  BY <1>1, <1>2 DEF Asked
<1>4. /\ Proper(p, who) /\ p.loading = page.loading /\ p.toggling = page.toggling
      /\ p.busy = page.busy
  BY <1>2, <1>3, PageWith
<1> HIDE DEF p
<1>5. /\ Proper(new, who)
      /\ new.loading => p.loading /\ net[s].kind # "load"
      /\ new.toggling => p.toggling /\ net[s].kind # "availability"
      /\ new.busy # NONE => p.busy # NONE /\ net[s].kind \notin BusyKinds(who)
  BY <1>2, <1>4, Freeing
<1>6. bumped \in BOOLEAN
  BY DEF Bumped
<1>7. known' \in Counts /\ AtMost(known', trail)
  BY <1>1 DEF BoardInv, ServerInv
<1> HIDE DEF new, bumped
<1> QED
  BY <1>1, <1>2, <1>4, <1>5, <1>6, <1>7, Settling

\* The handler goes on with another request, which the panel waits for as well.
LEMMA AssignSucceedsStep ==
    ASSUME BoardInv, NEW s \in Slots, net[s] # IDLE, net[s].live, net[s].answer # NONE,
           AssignSucceeds(s, net[s])
    PROVE  BoardInv'
<1> DEFINE q == net[s]
           n == [q EXCEPT !.kind = "roster", !.answer = NONE, !.entries = q.answer.entries]
           a == Applied(q, page)
<1>1. /\ q.answer.code = 200 /\ q.kind = "assign" /\ net' = [net EXCEPT ![s] = n]
      /\ page' = Drawn(page, a, FALSE)
      /\ UNCHANGED <<row, trail, account, who, known, spare>>
  BY DEF AssignSucceeds, Redraw, server
<1>2. /\ Asked(q, who) /\ Answers(q, who, trail) /\ page.open /\ Proper(page, who)
      /\ who # "agent"
  BY <1>1, Awaited DEF Sound, Asked
<1>3. /\ Proper(a, who)
      /\ a.loading = page.loading /\ a.toggling = page.toggling /\ a.busy = page.busy
  BY <1>1, <1>2, AppliedPage
<1>4. /\ DOMAIN n = RequestFields /\ n.kind = "roster" /\ n.answer = NONE /\ n.live = q.live
      /\ n.entries = q.answer.entries
  BY <1>2 DEF Asked, RequestFields
<1> HIDE DEF n, a
<1>5. Asked(n, who)
  BY <1>2, <1>4 DEF Asked, Kinds
<1>6. Sound(n, who, trail)
  BY <1>2, <1>4, <1>5 DEF Sound, Answers
<1>7. NetInv'
  <2>1. trail \in Counts /\ trail' \in Counts /\ AtMost(trail, trail') /\ Sound(n, who, trail')
    BY <1>1, <1>6, AtMostSelf DEF BoardInv, ServerInv
  <2>2. NetInv /\ net' = [net EXCEPT ![s] = n] /\ who' = who
    BY <1>1 DEF BoardInv
  <2> HIDE DEF q
  <2> QED
    BY <2>1, <2>2, NetStep
<1>8. /\ Proper(page', who) /\ Informed(page', who, known)
      /\ page'.loading = a.loading /\ page'.toggling = a.toggling /\ page'.busy = a.busy
      /\ page'.open
  <2>1. page' = Drawn(page, a, FALSE) /\ Proper(a, who)
    BY <1>1, <1>3
  <2>2. page \in OpenPages /\ Informed(page, who, known)
    BY <1>2, OnPage
  <2> HIDE DEF q
  <2> QED
    BY <2>1, <2>2, Drawing
<1>9. ServerInv' /\ PageInv'
  BY <1>1, <1>8 DEF BoardInv, ServerInv, PageInv
<1>10. net'[s] = n /\ \A x \in Slots : x # s => net'[x] = net[x]
  BY <1>1 DEF BoardInv, NetInv
<1>11. /\ page.loading => Waiting(net, {"load"})
       /\ ~ page.toggling
  <2>1. ~ page.toggling
    BY <1>2 DEF Proper
  <2> QED
    BY <1>2, <2>1 DEF BoardInv, Attended
<1>12. page'.loading => Waiting(net', {"load"})
  <2>1. net[s].kind \notin {"load"}
    BY <1>1
  <2>2. Waiting(net, {"load"}) => Waiting(net', {"load"})
    BY <1>10, <2>1, OthersWait
  <2> QED
    BY <1>3, <1>8, <1>11, <2>2
<1>13. Waiting(net', BusyKinds(who))
  <2>1. n # IDLE
    BY <1>4, <1>5, NotIdle DEF Asked
  <2> QED
    BY <1>2, <1>4, <1>10, <2>1 DEF Waiting, BusyKinds
<1>14. Attended(page', net', who')
  BY <1>1, <1>3, <1>8, <1>11, <1>12, <1>13 DEF Attended
<1> QED
  BY <1>7, <1>9, <1>14 DEF BoardInv

LEMMA ReceiveStep == ASSUME BoardInv, NEW s \in Slots, Receive(s) PROVE BoardInv'
<1>1. net[s] # IDLE /\ net[s].answer # NONE
  BY DEF Receive
<1>2. CASE net[s].live
  <2>1. \/ Unauthenticated \/ Succeeds(s, net[s]) \/ AssignSucceeds(s, net[s])
        \/ AssignIsPrompted(s, net[s]) \/ Fails(s, net[s])
    BY <1>2 DEF Receive
  <2>2. CASE Unauthenticated
    BY <2>2, UnauthenticatedStep
  <2>3. CASE Succeeds(s, net[s])
    BY <1>1, <1>2, <2>3, SucceedsStep
  <2>4. CASE AssignSucceeds(s, net[s])
    BY <1>1, <1>2, <2>4, AssignSucceedsStep
  <2>5. CASE AssignIsPrompted(s, net[s])
    BY <1>1, <1>2, <2>5, AssignIsPromptedStep
  <2>6. CASE Fails(s, net[s])
    BY <1>1, <1>2, <2>6, FailsStep
  <2> QED
    BY <2>1, <2>2, <2>3, <2>4, <2>5, <2>6
<1>3. CASE ~ net[s].live
  <2>1. net' = [net EXCEPT ![s] = IDLE] /\ UNCHANGED <<row, trail, account, who, page, known, spare>>
    BY <1>3 DEF Receive, server
  <2>2. NetInv'
    BY <2>1, NetStep, AtMostSelf DEF BoardInv, ServerInv
  <2>3. net'[s] = IDLE /\ \A x \in Slots : x # s => net'[x] = net[x]
    BY <2>1 DEF BoardInv, NetInv
  <2>4. \A kinds : Waiting(net, kinds) <=> Waiting(net', kinds)
    BY <1>3, <2>3 DEF Waiting
  <2>5. ServerInv' /\ PageInv' /\ Attended(page', net', who')
    BY <2>1, <2>4 DEF BoardInv, ServerInv, PageInv, Attended
  <2> QED
    BY <2>2, <2>5 DEF BoardInv
<1> QED
  BY <1>2, <1>3

-----------------------------------------------------------------------------
LEMMA BoardInit == ASSUME Init PROVE BoardInv
<1>1. ServerInv
  <2>1. Nothing \in Counts /\ AtMost(Nothing, Nothing)
    BY NoEntries, AtMostSelf
  <2>2. MaxEvents \in 0 .. MaxEvents
    BY DashboardsAssumption
  <2>3. account \in [Users -> Account]
    BY DEF Init, Account, Roles
  <2>4. row \in [Incidents -> Row]
    BY DashboardsAssumption DEF Init
  <2> QED
    BY <2>1, <2>2, <2>3, <2>4 DEF Init, ServerInv
<1>2. NetInv /\ PageInv
  BY DEF Init, NetInv, PageInv
<1>3. Attended(page, net, who)
  BY DEF Init, Attended, Closed, Waiting
<1> QED
  BY <1>1, <1>2, <1>3 DEF BoardInv

LEMMA BoardStep == ASSUME BoardInv, [Next]_vars PROVE BoardInv'
<1>1. CASE User
  BY <1>1, OpenStep, RefreshStep, SelectStep, ClickStatusStep, ClickAssignStep,
     ConfirmOverrideStep, ClickEditStep, ToggleStep, CancelOverrideStep, ClickAvailabilityStep,
     SignOutStep DEF User
<1>2. CASE \E s \in Slots : Serve(s) \/ Receive(s) \/ Lose(s)
  BY <1>2, ServeStep, ReceiveStep, LoseStep
<1>3. CASE ServeTrail \/ ReceiveTrail \/ LoseTrail
  BY <1>3, ServeTrailStep, ReceiveTrailStep, LoseTrailStep
<1>4. CASE SessionExpires \/ Elsewhere
  BY <1>4, SessionExpiresStep, ElsewhereStep
<1>5. CASE UNCHANGED vars
  BY <1>5, AtMostSelf, Behind DEF vars, BoardInv, ServerInv
<1> QED
  BY <1>1, <1>2, <1>3, <1>4, <1>5 DEF Next

LEMMA BoardAlways == DashboardsSpec => []BoardInv
  BY BoardInit, BoardStep, PTL DEF DashboardsSpec

(***************************************************************************)
(* A viewer in the role of the page is refused a status button only when   *)
(* the row has changed since it was drawn, and every control that is       *)
(* disabled waits for a request that is under way (lib/api.ts: the offered *)
(* buttons; run and load of the pages).                                    *)
(***************************************************************************)
THEOREM OfferedMovesAlwaysAccepted == DashboardsSpec => []OfferedMovesAreAccepted
<1>1. ASSUME BoardInv PROVE OfferedMovesAreAccepted
  <2>1. DashboardsTypeOK
    <3>1. ASSUME page.open
          PROVE  /\ page.loading => Waiting(net, {"load"})
                 /\ page.toggling => Waiting(net, {"availability"})
                 /\ page.busy # NONE =>
                       Waiting(net, {"status", "assign", "edit", "roster", "availability"})
      <4>1. /\ page.loading => Waiting(net, {"load"})
            /\ page.toggling => Waiting(net, {"availability"})
            /\ page.busy # NONE => Waiting(net, BusyKinds(who))
        BY <1>1, <3>1 DEF BoardInv, Attended
      <4>2. BusyKinds(who) \subseteq {"status", "assign", "edit", "roster", "availability"}
        BY DEF BusyKinds
      <4> QED
        BY <4>1, <4>2, WaitsFor
    <3> QED
      BY <1>1, <3>1 DEF DashboardsTypeOK, Waiting, BoardInv, ServerInv, Counts
  <2>2. ASSUME NEW s \in Slots, net[s] # IDLE, net[s].kind = "status", net[s].answer # NONE,
               net[s].answer.code \in {403, 422}, net[s].answer.role = RoleOf(who),
               who = "agent" => net[s].seen.agent = Me
        PROVE  net[s].answer.value # net[s].seen
    BY <1>1, <2>2 DEF BoardInv, NetInv, Sound, Answers, Theirs
  <2> QED
    BY <2>1, <2>2 DEF OfferedMovesAreAccepted
<1> QED
  BY <1>1, BoardAlways, PTL

(***************************************************************************)
(* The audit trail on the admin dashboard is never behind an action the    *)
(* page has reported done (app/admin/page.tsx: historyNonce), in whatever  *)
(* order the answers come and whoever acts meanwhile.                      *)
(***************************************************************************)
THEOREM TrailAlwaysShowsOwnActions == DashboardsSpec => []TrailShowsOwnActions
<1>1. ASSUME BoardInv PROVE TrailShowsOwnActions
  BY <1>1, OnPage DEF TrailShowsOwnActions, TrailIsUpToDate, Informed
<1> QED
  BY <1>1, BoardAlways, PTL
=============================================================================
