----------------------------- MODULE Dashboards -----------------------------
(***************************************************************************)
(* The admin and the agent dashboard (app/admin/page.tsx,                  *)
(* app/agent/page.tsx) against the API they call.  One of the two is open; *)
(* everybody else acts on the same rows from elsewhere.  The page keeps    *)
(* copies of rows; a click sends a request and the handler goes on when    *)
(* the answer arrives.  Requests are neither aborted nor numbered, so they *)
(* are served and answered in any order, while the user goes on clicking   *)
(* whatever is not disabled.                                               *)
(*                                                                         *)
(* The audit trail (components/IncidentHistory.tsx) is fetched when it is  *)
(* mounted, and mounted anew whenever its React key changes: only the      *)
(* fetch of the present mount can fill it.                                 *)
(*                                                                         *)
(* The API reads the account behind the token on every request, so a page  *)
(* that is open may outlive the role it was opened with.                   *)
(***************************************************************************)
EXTENDS IncidentRules, FiniteSets

CONSTANTS
    Incidents,
    Users,      \* the staff: whoever is, was or becomes an agent
    Me,         \* the agent whose dashboard is open
    Boss,       \* the administrator whose dashboard is open
    Slots,      \* how many requests are on their way at once
    FirstRows,  \* the incidents before the page is opened
    Away,       \* those who are then unavailable
    MaxEvents   \* bound on the changes asked for and on what goes wrong, together

Row == [status : Statuses, agent : Users \cup {NONE}, version : Nat]

\* null is no agent, incident, row or React key.
ASSUME DashboardsAssumption ==
    /\ Me \in Users /\ Boss \in Users /\ Me # Boss
    /\ NONE \notin Users \cup Incidents \cup Row
    /\ NONE \notin Incidents \X Nat
    /\ FirstRows \in [Incidents -> Row]
    /\ Slots # {} /\ MaxEvents \in Nat

VARIABLES
    row,      \* incidents: status, assigned agent and updated_at
    trail,    \* how many history entries each incident has gained
    account,  \* users: their role, and whether they are active and available
    session,  \* whether the token the browser holds is still good
    who,      \* whose dashboard it is
    page,     \* the state of the page
    net,      \* the requests on their way
    known,    \* entries the user knows of, from actions reported done
    spare     \* changes and faults that may still happen

server == <<row, trail, account, session>>
vars == <<row, trail, account, session, who, page, net, known, spare>>

Pages == {"admin", "agent"}
Account == [role : Roles, active : BOOLEAN, available : BOOLEAN]

\* Who looks at the page, in the role that it is made for
Viewer == IF who = "admin" THEN Boss ELSE Me
RoleOf(w) == IF w = "admin" THEN "ADMIN" ELSE "AGENT"

\* current_user.role
Role == account[Viewer].role
IDLE == [kind |-> "idle"]
Nothing == [i \in Incidents |-> 0]

\* ADMIN_TRANSITIONS and AGENT_TRANSITIONS of lib/api.ts: the offered buttons
OfferedToAdmin ==
    [REPORTED |-> {"TRIAGED", "ASSIGNED", "CLOSED"}, TRIAGED |-> {"ASSIGNED", "CLOSED"},
     ASSIGNED |-> {"IN_PROGRESS", "TRIAGED", "CLOSED"},
     IN_PROGRESS |-> {"RESOLVED", "ASSIGNED"},
     RESOLVED |-> {"CLOSED", "IN_PROGRESS"}, CLOSED |-> {}]
OfferedToAgent(status) ==
    CASE status = "ASSIGNED" -> {"IN_PROGRESS"}
      [] status = "IN_PROGRESS" -> {"RESOLVED"}
      [] OTHER -> {}
\* MUTANT: the agent is offered to reopen what is resolved
Offered_Reopen(status) ==
    IF who = "admin" THEN OfferedToAdmin[status]
    ELSE OfferedToAgent(status) \cup (IF status = "RESOLVED" THEN {"IN_PROGRESS"} ELSE {})
Offered(status) == IF who = "admin" THEN OfferedToAdmin[status] ELSE OfferedToAgent(status)

-----------------------------------------------------------------------------
\* The row the detail panel is about, NONE when the panel is not drawn
Selected(pg) == IF pg.selected = NONE THEN NONE ELSE pg.rows[pg.selected]

\* The React key of the trail, but for the nonce
Key(pg) == IF Selected(pg) = NONE THEN NONE ELSE <<pg.selected, Selected(pg).version>>

(***************************************************************************)
(* What a page draws after its state went from old to new: the trail goes  *)
(* with the panel, and is asked for anew when its key has changed, which a *)
(* bumped historyNonce always does.                                        *)
(***************************************************************************)
Drawn(old, new, bumped) ==
    [new EXCEPT !.trail = IF Key(new) = NONE THEN NONE
                          ELSE IF bumped \/ Key(new) # Key(old)
                               THEN [step |-> "asked", events |-> 0]
                               ELSE old.trail]

Closed == [open |-> FALSE]
Fresh == [open |-> TRUE, rows |-> [i \in Incidents |-> NONE],
          roster |-> [a \in Users |-> NONE], selected |-> NONE, loading |-> TRUE,
          busy |-> NONE, toggling |-> FALSE, prompt |-> NONE, trail |-> NONE]

\* applyIncident: only a row that is in the list is replaced
Apply(pg, i, r) == [pg EXCEPT !.rows[i] = IF @ = NONE THEN NONE ELSE r]

Ask(kind) ==
    [live |-> TRUE, kind |-> kind, inc |-> NONE, to |-> NONE, override |-> FALSE,
     seen |-> NONE, answer |-> NONE, entries |-> Nothing]

Send(s, q) ==
    /\ net[s] = IDLE
    /\ net' = [net EXCEPT ![s] = q]

Redraw(new, bumped) == page' = Drawn(page, new, bumped)

Spend == spare > 0 /\ spare' = spare - 1

\* A click that asks for a change
Change(s, q, new) ==
    /\ Spend
    /\ Send(s, q)
    /\ Redraw(new, FALSE)
    /\ UNCHANGED <<server, who, known>>

-----------------------------------------------------------------------------
\* Signing in: the landing page of the role is mounted and its effect loads.
Open(s) ==
    /\ ~page.open
    /\ account[Viewer].active /\ Role = RoleOf(who)
    /\ session' = TRUE
    /\ page' = Fresh
    /\ known' = Nothing
    /\ Send(s, Ask("load"))
    /\ UNCHANGED <<row, trail, account, who, spare>>

Refresh(s) ==
    /\ page.open /\ ~page.loading
    /\ Redraw([page EXCEPT !.loading = TRUE], FALSE)
    /\ Send(s, Ask("load"))
    /\ UNCHANGED <<server, who, known, spare>>

\* A row of the table, or the panel's close button; another incident resets the panel.
Select(i) ==
    /\ page.open /\ i # page.selected
    /\ i # NONE => ~page.loading /\ page.rows[i] # NONE
    /\ Redraw([page EXCEPT !.selected = i, !.prompt = NONE], FALSE)
    /\ UNCHANGED <<server, who, net, known, spare>>

\* The buttons of the panel are disabled while busy is not null.
PanelReady == page.open /\ Selected(page) # NONE /\ page.busy = NONE

About(kind) == [Ask(kind) EXCEPT !.inc = page.selected, !.seen = Selected(page)]

Busy(key) == [page EXCEPT !.busy = key]

ClickStatus(s, to) ==
    /\ PanelReady
    /\ to \in Offered(Selected(page).status)
    /\ Change(s, [About("status") EXCEPT !.to = to], Busy("panel"))

ClickAssign(s, a) ==
    /\ PanelReady /\ who = "admin"
    /\ a # Selected(page).agent
    /\ a # NONE => page.roster[a] # NONE
    /\ Change(s, [About("assign") EXCEPT !.to = a], Busy("panel"))

ConfirmOverride(s) ==
    /\ PanelReady /\ page.prompt # NONE
    /\ Change(s, [About("assign") EXCEPT !.to = page.prompt, !.override = TRUE],
              Busy("panel"))

CancelOverride ==
    /\ PanelReady /\ page.prompt # NONE
    /\ Redraw([page EXCEPT !.prompt = NONE], FALSE)
    /\ UNCHANGED <<server, who, net, known, spare>>

\* A new SLA or priority: it leaves the status and the agent alone.
ClickEdit(s) ==
    /\ PanelReady /\ who = "admin"
    /\ Change(s, About("edit"), Busy("panel"))

\* Another agent's switch stays enabled whatever else is on its way.
ClickAvailability(s, a) ==
    /\ page.open /\ who = "admin"
    /\ page.roster[a] # NONE /\ page.busy # a
    /\ Change(s, [Ask("availability") EXCEPT !.inc = a, !.to = ~page.roster[a]], Busy(a))

ToggleAvailability(s) ==
    /\ page.open /\ who = "agent"
    /\ page.roster[Me] # NONE /\ ~page.toggling
    /\ Change(s, [Ask("availability") EXCEPT !.inc = Me, !.to = ~page.roster[Me]],
              [page EXCEPT !.toggling = TRUE])

-----------------------------------------------------------------------------
(***************************************************************************)
(* The API.  Each request is one atomic step here; how the transactions of *)
(* overlapping requests interleave is the subject of RequestRaces.         *)
(***************************************************************************)
Authenticated == session /\ account[Viewer].active

\* require_admin on the endpoints of the admin page, require_agent on the agent's own
Authorized == Role = RoleOf(who)

Bit(b) == IF b THEN 1 ELSE 0

\* The role is the one it was answered for, which no page can tell.
Answer(code, value, entries) ==
    [code |-> code, value |-> value, entries |-> entries, role |-> Role]

Reply(s, answer) == net' = [net EXCEPT ![s].answer = answer]
Refuse(s, code, value) == Reply(s, Answer(code, value, Nothing)) /\ UNCHANGED server

\* A change to incident i; updated_at moves when a column does.
Write(i, new, moved, entries) ==
    /\ row' = [row EXCEPT ![i] = IF moved THEN [new EXCEPT !.version = @ + 1] ELSE @]
    /\ trail' = [trail EXCEPT ![i] = @ + entries]
    /\ UNCHANGED <<account, session>>

Done(s, i, new, moved, entries) ==
    /\ Write(i, new, moved, entries)
    /\ Reply(s, Answer(200, row'[i], [Nothing EXCEPT ![i] = trail'[i]]))

\* The code that refuses a status change, 200 when none does
StatusCode(r, to) ==
    CASE Role = "USER" -> 403
      [] Role = "AGENT" /\ r.agent # Viewer -> 403
      [] Role = "AGENT" /\ to \notin AGENT_TRANSITIONS[r.status] -> 403
      [] to \notin VALID_TRANSITIONS[r.status] -> 422
      [] OTHER -> 200

ServeStatus(s, q, r) ==
    /\ q.kind = "status"
    /\ LET code == StatusCode(r, q.to) IN
       IF code = 200 THEN Done(s, q.inc, [r EXCEPT !.status = q.to], TRUE, 1)
                     ELSE Refuse(s, code, r)

Assignable(a, override) ==
    a # NONE => account[a].active /\ (account[a].available \/ override)

IsAgent(a) == account[a].role = "AGENT"

\* The code that refuses an assignment, 200 when none does
AssignCode(a, override) ==
    CASE ~Authorized -> 403
      [] a # NONE /\ ~IsAgent(a) -> 404
      [] ~Assignable(a, override) -> 422
      [] OTHER -> 200

\* assign_agent: the status follows the assignment.
Assigned(r, a) ==
    [r EXCEPT !.agent = a,
              !.status = IF a = NONE THEN IF @ = "ASSIGNED" THEN "REPORTED" ELSE @
                         ELSE IF @ \in {"REPORTED", "TRIAGED"} THEN "ASSIGNED" ELSE @]

\* Entries: ADMIN_OVERRIDE, the change of agent, the change of status
AssignEntries(r, a) ==
    Bit(a # NONE /\ ~account[a].available) + Bit(a # r.agent)
      + Bit(Assigned(r, a).status # r.status)

ServeAssign(s, q, r) ==
    /\ q.kind = "assign"
    /\ LET code == AssignCode(q.to, q.override) IN
       IF code = 200
       THEN Done(s, q.inc, Assigned(r, q.to), Assigned(r, q.to) # r, AssignEntries(r, q.to))
       ELSE Refuse(s, code, r)

\* update_sla and update_priority write nothing when the value is the old one.
ServeEdit(s, q, r) ==
    /\ q.kind = "edit"
    /\ IF Authorized THEN \E moved \in BOOLEAN : Done(s, q.inc, r, moved, Bit(moved))
                     ELSE Refuse(s, 403, r)

\* set_agent_availability: an entry for each incident still open on the agent's plate
Plate(a, value) ==
    IF account[a].available = value THEN {}
    ELSE {i \in Incidents : row[i].agent = a /\ row[i].status \notin SLA_FREEZE_STATUSES}

SetAvailability(a, value) ==
    /\ account' = [account EXCEPT ![a].available = value]
    /\ trail' = [i \in Incidents |-> trail[i] + Bit(i \in Plate(a, value))]
    /\ UNCHANGED <<row, session>>

ServeAvailability(s, q) ==
    /\ q.kind = "availability"
    /\ IF Authorized /\ IsAgent(q.inc)
       THEN /\ SetAvailability(q.inc, q.to)
            /\ Reply(s, Answer(200, q.to, [i \in Incidents |->
                                      IF i \in Plate(q.inc, q.to) THEN trail'[i] ELSE 0]))
       ELSE Refuse(s, IF Authorized THEN 404 ELSE 403, NONE)

\* GET /incidents: an agent is answered with the incidents assigned to them.
Listing == [i \in Incidents |-> IF who = "admin" \/ row[i].agent = Me THEN row[i] ELSE NONE]

\* GET /agents for an administrator, /agents/me for an agent
Roster == [a \in Users |-> IF IsAgent(a) /\ (who = "admin" \/ a = Me)
                           THEN account[a].available ELSE NONE]

Read(s, value) ==
    /\ Reply(s, IF Authorized THEN Answer(200, value, Nothing) ELSE Answer(403, NONE, Nothing))
    /\ UNCHANGED server

\* The two requests of a load, which Promise.all joins: it fails when one of them does.
ServeLoad(s, q) == q.kind = "load" /\ Read(s, [rows |-> Listing, roster |-> Roster])

ServeRoster(s, q) == q.kind = "roster" /\ Read(s, Roster)

Serve(s) ==
    LET q == net[s] IN
    /\ q # IDLE /\ q.answer = NONE
    /\ UNCHANGED <<who, page, known, spare>>
    /\ IF ~Authenticated
       THEN Refuse(s, 401, NONE)
       ELSE \/ q.kind \in {"status", "assign", "edit"}
               /\ LET r == row[q.inc] IN
                  ServeStatus(s, q, r) \/ ServeAssign(s, q, r) \/ ServeEdit(s, q, r)
            \/ ServeAvailability(s, q)
            \/ ServeLoad(s, q)
            \/ ServeRoster(s, q)

\* _assert_incident_access; citizens report the incidents, never the staff.
Readable(i) == Role = "ADMIN" \/ (Role = "AGENT" /\ row[i].agent = Viewer)

\* GET /history, sent when the trail was mounted; its answer is lost with the mount.
ServeTrail ==
    /\ page.open /\ page.trail # NONE /\ page.trail.step = "asked"
    /\ Authenticated
    /\ page' = [page EXCEPT !.trail =
                   IF Readable(page.selected)
                   THEN [step |-> "served", events |-> trail[page.selected]]
                   ELSE [step |-> "failed", events |-> 0]]
    /\ UNCHANGED <<server, who, net, known, spare>>

(***************************************************************************)
(* The same rows changed by the other dashboard or another administrator,  *)
(* who may also deactivate an account or change its role.                  *)
(***************************************************************************)
Elsewhere ==
    /\ Spend
    /\ \/ \E i \in Incidents :
             \/ \E to \in VALID_TRANSITIONS[row[i].status] :
                   Write(i, [row[i] EXCEPT !.status = to], TRUE, 1)
             \/ \E a \in Users \cup {NONE} :
                   /\ a # NONE => IsAgent(a)
                   /\ Assignable(a, FALSE) /\ a # row[i].agent
                   /\ Write(i, Assigned(row[i], a), TRUE, AssignEntries(row[i], a))
       \/ \E a \in Users : IsAgent(a) /\ SetAvailability(a, ~account[a].available)
       \/ \E a \in Users :
             /\ \/ account' = [account EXCEPT ![a].active = ~@]
                \/ \E new \in Roles \ {account[a].role} :
                      account' = [account EXCEPT ![a].role = new]
             /\ UNCHANGED <<row, trail, session>>
    /\ UNCHANGED <<who, page, net, known>>

-----------------------------------------------------------------------------
\* The page is left: its requests go on, but nothing waits for their answers.
Leave ==
    /\ page' = Closed
    /\ net' = [s \in Slots |-> IF net[s] = IDLE \/ net[s].answer # NONE THEN IDLE
                               ELSE [net[s] EXCEPT !.live = FALSE]]
    /\ session' = FALSE
    /\ UNCHANGED <<row, trail, account, who, known>>

SignOut == page.open /\ Leave /\ Spend

\* onUnauthenticated: any answer with 401 forgets the token and goes to /login.
Unauthenticated == Leave /\ UNCHANGED spare

\* The end of a handler: the slot is free and the page redrawn.
Settle(s, new, bumped) ==
    /\ net' = [net EXCEPT ![s] = IDLE]
    /\ Redraw(new, bumped)
    /\ UNCHANGED <<server, who, spare>>

\* What an action that was reported done tells the user about the trail
Learns(entries) ==
    known' = [i \in Incidents |-> IF entries[i] > known[i] THEN entries[i] ELSE known[i]]

\* MUTANT: the button comes back only when the request succeeds
Freed_OnSuccess(q, pg) ==
    CASE q.answer.code # 200 -> pg
      [] q.kind = "load" -> [pg EXCEPT !.loading = FALSE]
      [] q.kind = "availability" /\ who = "agent" -> [pg EXCEPT !.toggling = FALSE]
      [] OTHER -> [pg EXCEPT !.busy = NONE]

\* finally: the button comes back, whatever the outcome.
Freed(q, pg) ==
    CASE q.kind = "load" -> [pg EXCEPT !.loading = FALSE]
      [] q.kind = "availability" /\ who = "agent" -> [pg EXCEPT !.toggling = FALSE]
      [] OTHER -> [pg EXCEPT !.busy = NONE]

\* MUTANT: the audit trail is left to follow updated_at
Bumped_RowChanges(q) == who = "admin" /\ q.kind # "availability"

\* run bumps historyNonce when its function returns; the agent's page has no nonce.
Bumped(q) == who = "admin"

\* What the answer of q changes on its page
Applied(q, pg) ==
    CASE q.kind = "load" -> [pg EXCEPT !.rows = q.answer.value.rows,
                                       !.roster = q.answer.value.roster]
      [] q.kind = "roster" -> [pg EXCEPT !.roster = q.answer.value]
      [] q.kind = "availability" ->
            [pg EXCEPT !.roster[q.inc] = IF @ = NONE THEN NONE ELSE q.answer.value]
      [] q.kind = "assign" -> [Apply(pg, q.inc, q.answer.value) EXCEPT !.prompt = NONE]
      [] OTHER -> Apply(pg, q.inc, q.answer.value)

Succeeds(s, q) ==
    /\ q.answer.code = 200 /\ q.kind # "assign"
    /\ Settle(s, Freed(q, Applied(q, page)), q.kind # "load" /\ Bumped(q))
    /\ Learns(IF q.kind = "roster" THEN q.entries ELSE q.answer.entries)

\* handleAssign goes on to fetch the agents, whose workload has changed.
AssignSucceeds(s, q) ==
    /\ q.answer.code = 200 /\ q.kind = "assign"
    /\ net' = [net EXCEPT ![s] = [q EXCEPT !.kind = "roster", !.answer = NONE,
                                           !.entries = q.answer.entries]]
    /\ Redraw(Applied(q, page), FALSE)
    /\ UNCHANGED <<server, who, known, spare>>

\* A 422 of an agent on the list is taken for unavailability.
TakenForUnavailable(q) ==
    /\ q.answer.code = 422 /\ q.kind = "assign" /\ ~q.override
    /\ q.to # NONE /\ page.roster[q.to] # NONE

\* The panel asks whether to override it; run counts that as a success.
AssignIsPrompted(s, q) ==
    /\ TakenForUnavailable(q)
    /\ Settle(s, Freed(q, [page EXCEPT !.prompt = q.to]), Bumped(q))
    /\ UNCHANGED known

\* Any other refusal is shown as an error.
Fails(s, q) ==
    /\ q.answer.code \notin {200, 401} /\ ~TakenForUnavailable(q)
    /\ Settle(s, Freed(q, page), FALSE)
    /\ UNCHANGED known

Receive(s) ==
    LET q == net[s] IN
    /\ net[s] # IDLE /\ q.answer # NONE
    /\ IF q.live
       THEN \/ q.answer.code = 401 /\ Unauthenticated
            \/ Succeeds(s, q) \/ AssignSucceeds(s, q)
            \/ AssignIsPrompted(s, q) \/ Fails(s, q)
       ELSE /\ net' = [net EXCEPT ![s] = IDLE]
            /\ UNCHANGED <<server, who, page, known, spare>>

\* A request or its answer is lost: fetch throws, and apiFetch says code 0.
Lose(s) ==
    /\ net[s] # IDLE /\ (net[s].answer # NONE => net[s].answer.code # 0)
    /\ Spend
    /\ Reply(s, Answer(0, NONE, Nothing))
    /\ UNCHANGED <<server, who, page, known>>

ReceiveTrail ==
    /\ page.open /\ page.trail # NONE
    /\ \/ /\ page.trail.step = "served"
          /\ page' = [page EXCEPT !.trail.step = "shown"]
          /\ UNCHANGED <<server, who, net, known, spare>>
       \/ page.trail.step = "asked" /\ ~Authenticated /\ Unauthenticated

LoseTrail ==
    /\ page.open /\ page.trail # NONE /\ page.trail.step \in {"asked", "served"}
    /\ Spend
    /\ page' = [page EXCEPT !.trail = [step |-> "failed", events |-> 0]]
    /\ UNCHANGED <<server, who, net, known>>

SessionExpires ==
    /\ session /\ page.open
    /\ Spend
    /\ session' = FALSE
    /\ UNCHANGED <<row, trail, account, who, page, net, known>>

-----------------------------------------------------------------------------
Init ==
    /\ row = FirstRows
    /\ trail = Nothing
    /\ account = [a \in Users |-> [role |-> IF a = Boss THEN "ADMIN" ELSE "AGENT",
                                   active |-> TRUE, available |-> a \notin Away]]
    /\ session = FALSE
    /\ who \in Pages
    /\ page = Closed
    /\ net = [s \in Slots |-> IDLE]
    /\ known = Nothing
    /\ spare = MaxEvents

User ==
    \/ \E s \in Slots : Open(s) \/ Refresh(s)
    \/ \E i \in Incidents \cup {NONE} : Select(i)
    \/ \E s \in Slots, to \in Statuses : ClickStatus(s, to)
    \/ \E s \in Slots, a \in Users \cup {NONE} : ClickAssign(s, a)
    \/ \E s \in Slots : ConfirmOverride(s) \/ ClickEdit(s) \/ ToggleAvailability(s)
    \/ CancelOverride
    \/ \E s \in Slots, a \in Users : ClickAvailability(s, a)
    \/ SignOut

Next ==
    \/ User
    \/ \E s \in Slots : Serve(s) \/ Receive(s) \/ Lose(s)
    \/ ServeTrail \/ ReceiveTrail \/ LoseTrail
    \/ SessionExpires
    \/ Elsewhere

(***************************************************************************)
(* Every request is served, refused or lost in the end, and the event loop *)
(* runs its continuation.  Nothing is assumed of the users.                *)
(***************************************************************************)
Fairness == \A s \in Slots : WF_vars(Serve(s)) /\ WF_vars(Receive(s))

DashboardsSpec == Init /\ [][Next]_vars /\ Fairness

-----------------------------------------------------------------------------
\* Types; a page that waits for an answer has a request on its way.
DashboardsTypeOK ==
    /\ row \in [Incidents -> Row]
    /\ trail \in [Incidents -> Nat] /\ spare \in 0 .. MaxEvents
    /\ account \in [Users -> Account]
    /\ page.open =>
          LET Waits(kinds) == \E s \in Slots :
                 net[s] # IDLE /\ net[s].live /\ net[s].kind \in kinds
          IN /\ page.loading => Waits({"load"})
             /\ page.toggling => Waits({"availability"})
             /\ page.busy # NONE =>
                   Waits({"status", "assign", "edit", "roster", "availability"})

(***************************************************************************)
(* The pages offer what the API accepts (lib/api.ts "mirrors"              *)
(* app/models/incident.py): while the viewer has the role of the page, a   *)
(* status button is refused only when the row has changed since it was     *)
(* drawn.  An agent's row counts when it was theirs: one who was an        *)
(* administrator for a while may be left with another's.  And the state is *)
(* typed: a control waits only for a request that is under way.            *)
(***************************************************************************)
OfferedMovesAreAccepted ==
    /\ DashboardsTypeOK
    /\ \A s \in Slots :
          net[s] # IDLE /\ net[s].kind = "status" /\ net[s].answer # NONE
             /\ net[s].answer.code \in {403, 422} /\ net[s].answer.role = RoleOf(who)
             /\ (who = "agent" => net[s].seen.agent = Me)
          => net[s].answer.value # net[s].seen

\* What the page shows is not behind an action it has reported done.
TrailIsUpToDate ==
    page.open /\ page.trail # NONE /\ page.trail.step = "shown"
      => page.trail.events >= known[page.selected]

(***************************************************************************)
(* The audit trail on the admin dashboard is never behind an action the    *)
(* page has reported done, whatever was fetched or refreshed meanwhile.    *)
(***************************************************************************)
TrailShowsOwnActions == who = "admin" => TrailIsUpToDate

(***************************************************************************)
(* The same of the agent dashboard, whose comment promises "the full trail *)
(* for their own incidents, including admin overrides and availability     *)
(* changes affecting them".                                                *)
(***************************************************************************)
AgentSeesTheFullTrail == who = "agent" => TrailIsUpToDate

\* No control stays disabled: every handler comes to its end.
ControlsComeBack ==
    /\ (page.open /\ page.loading) ~> ~(page.open /\ page.loading)
    /\ (page.open /\ page.toggling) ~> ~(page.open /\ page.toggling)
    /\ (page.open /\ page.busy # NONE) ~> ~(page.open /\ page.busy # NONE)
=============================================================================
