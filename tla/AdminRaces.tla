----------------------------- MODULE AdminRaces -----------------------------
(***************************************************************************)
(* The requests of app/api/admin_users.py taken apart.  Each request runs  *)
(* in its own session and READ COMMITTED transaction: get_current_user and *)
(* require_admin read the actor, _get_target reads the target,             *)
(* count_active_admins counts, and the commit writes the one column that   *)
(* was assigned, whatever the row says by then.  No row is locked before   *)
(* that write and no version is compared.                                  *)
(*                                                                         *)
(* The UPDATE of users is emitted before the INSERT of the audit row, so   *)
(* the audit ids follow the order in which the row lock was held.          *)
(***************************************************************************)
EXTENDS Accounts

CONSTANT Requests   \* request slots: how many requests overlap

ASSUME RequestsAssumption == Requests # {}

VARIABLE req   \* the request in each slot, Idle when there is none

racesVars == <<role, active, audit, req>>

Idle == [step |-> "idle"]

\* What a request asks for: a new role or a new activation.
Changes == [column : {"role"}, value : Roles] \cup [column : {"active"}, value : BOOLEAN]

\* The request with the target's row as it loaded it.
InFlight == [step : {"authenticated", "loaded", "checked"}, actor : Users,
             target : Users, change : Changes,
             role : Roles \cup {NONE}, active : BOOLEAN]

\* Types; a request past its read holds the row of an account that exists.
RacesTypeOK ==
    /\ TypeOK
    /\ DOMAIN req = Requests
    /\ \A r \in Requests :
          \/ req[r] = Idle
          \/ req[r] \in InFlight /\ (req[r].step # "authenticated" => req[r].role # NONE)

RacesInit ==
    /\ Init
    /\ req = [r \in Requests |-> Idle]

-----------------------------------------------------------------------------
\* The dependency require_admin of the request
Authenticate(r, actor, target, change) ==
    /\ req[r].step = "idle"
    /\ RequireAdmin(actor)
    /\ req' = [req EXCEPT ![r] = [step |-> "authenticated", actor |-> actor,
                                  target |-> target, change |-> change,
                                  role |-> NONE, active |-> FALSE]]
    /\ UNCHANGED accountVars

\* _get_target, then the tests that need no query: self and no-op
LoadTarget(r) ==
    LET q == req[r] IN
    /\ q.step = "authenticated"
    /\ Exists(q.target)
    /\ q.actor # q.target
    /\ IF q.change.column = "role" THEN role[q.target] # q.change.value
                                   ELSE active[q.target] # q.change.value
    /\ req' = [req EXCEPT ![r].step = "loaded",
                          ![r].role = role[q.target], ![r].active = active[q.target]]
    /\ UNCHANGED accountVars

\* A change that takes an administrator away must leave another one.
Removes(q) ==
    /\ q.role = "ADMIN"
    /\ q.change.column = "active" => ~q.change.value

CountAdmins(r) ==
    LET q == req[r] IN
    /\ q.step = "loaded"
    /\ Removes(q) => ActiveAdminsExcept(q.target) # {}
    /\ req' = [req EXCEPT ![r].step = "checked"]
    /\ UNCHANGED accountVars

\* MUTANT: the whole loaded row is written back, not just the changed column
WriteColumn_WholeRow(q) ==
    IF q.change.column = "role"
    THEN /\ role' = [role EXCEPT ![q.target] = q.change.value]
         /\ active' = [active EXCEPT ![q.target] = q.active]
         /\ Record("USER_ROLE_CHANGED", q.actor, q.target, q.role, q.change.value)
    ELSE /\ active' = [active EXCEPT ![q.target] = q.change.value]
         /\ role' = [role EXCEPT ![q.target] = q.role]
         /\ Record("USER_STATUS_CHANGED", q.actor, q.target,
                   StatusWord(~q.change.value), StatusWord(q.change.value))

\* The UPDATE and the audit row, with the old value the request loaded
WriteColumn(q) ==
    IF q.change.column = "role"
    THEN /\ role' = [role EXCEPT ![q.target] = q.change.value]
         /\ UNCHANGED active
         /\ Record("USER_ROLE_CHANGED", q.actor, q.target, q.role, q.change.value)
    ELSE /\ active' = [active EXCEPT ![q.target] = q.change.value]
         /\ UNCHANGED role
         /\ Record("USER_STATUS_CHANGED", q.actor, q.target,
                   StatusWord(~q.change.value), StatusWord(q.change.value))

Commit(r) ==
    /\ req[r].step = "checked"
    /\ WriteColumn(req[r])
    /\ req' = [req EXCEPT ![r] = Idle]

(***************************************************************************)
(* The request ends without a commit: refused by one of its tests, or its  *)
(* session is closed by an error.  Nothing it did is kept.                 *)
(***************************************************************************)
Abandon(r) ==
    /\ req[r].step # "idle"
    /\ req' = [req EXCEPT ![r] = Idle]
    /\ UNCHANGED accountVars

RacesNext ==
    \/ \E r \in Requests, a, t \in Users, c \in Changes : Authenticate(r, a, t, c)
    \/ \E r \in Requests : LoadTarget(r)
    \/ \E r \in Requests : CountAdmins(r)
    \/ \E r \in Requests : Commit(r)
    \/ \E r \in Requests : Abandon(r)
    \/ (\E u \in Users : Register(u)) /\ UNCHANGED req

RacesSpec == RacesInit /\ [][RacesNext]_racesVars

-----------------------------------------------------------------------------
(***************************************************************************)
(* Requests that never overlap implement module Accounts: every commit is  *)
(* one of its atomic role or activation changes, authorised and counted    *)
(* against the state it changes.  (Proved for a single request slot.)      *)
(***************************************************************************)
ImplementsAccounts == Spec
=============================================================================
