--------------------------- MODULE IdentityProofs ---------------------------
(***************************************************************************)
(* Proofs about the accounts under overlap.  First AdminRaces: what        *)
(* survives the overlap of any number of requests, and that requests which *)
(* do not overlap implement Accounts.  Then Identity, which extends it:    *)
(* any number of accounts, Google accounts, tabs and overlapping requests. *)
(***************************************************************************)
EXTENDS Identity, AccountsProofs

(***************************************************************************)
(* Cases of the next-state relation, by what they write.                   *)
(***************************************************************************)
LEMMA InFlightSteps ==
    \A q \in InFlight : /\ q # Idle
                        /\ q.step \in {"authenticated", "loaded", "checked"}
                        /\ q.actor \in Users /\ q.target \in Users /\ q.change \in Changes
                        /\ q.role \in Roles \cup {NONE} /\ q.active \in BOOLEAN
  BY DEF InFlight, Idle

LEMMA ChangeValues ==
    \A c \in Changes : /\ c.column \in {"role", "active"}
                       /\ c.column = "role" => c.value \in Roles
                       /\ c.column = "active" => c.value \in BOOLEAN
  BY DEF Changes

\* A slot that is not idle holds a request in flight.
LEMMA BusySlot ==
    ASSUME RacesTypeOK, NEW r \in Requests, req[r].step # "idle"
    PROVE  req[r] \in InFlight /\ (req[r].step # "authenticated" => req[r].role # NONE)
  BY DEF RacesTypeOK, Idle

(***************************************************************************)
(* The type invariant.  Every step but Commit and Register leaves the      *)
(* accounts alone, and changes one slot.                                   *)
(***************************************************************************)
LEMMA SlotType ==
    ASSUME RacesTypeOK, TypeOK', NEW r \in Requests, NEW q,
           req' = [req EXCEPT ![r] = q],
           q = Idle \/ (q \in InFlight /\ (q.step # "authenticated" => q.role # NONE))
    PROVE  RacesTypeOK'
  BY DEF RacesTypeOK

LEMMA CommitTypes ==
    ASSUME RacesTypeOK, NEW r \in Requests, Commit(r)
    PROVE  TypeOK'
<1> DEFINE q == req[r]
<1>1. q \in InFlight /\ q.role # NONE
  BY BusySlot DEF Commit
<1> HIDE DEF q
<1>2. WriteColumn(q) /\ TypeOK
  BY DEF Commit, q, RacesTypeOK
<1>3. CASE q.change.column = "role"
  <2>1. Record("USER_ROLE_CHANGED", q.actor, q.target, q.role, q.change.value)
        /\ role' = [role EXCEPT ![q.target] = q.change.value] /\ active' = active
    BY <1>2, <1>3 DEF WriteColumn
  <2>2. q.change.value \in Roles /\ q.target \in Users /\ q.actor \in Users
    BY <1>1, <1>3, InFlightSteps, ChangeValues
  <2>3. audit' \in Seq(AuditEvent)
    <3>1. q.role \in AuditValues /\ q.change.value \in AuditValues
      BY <1>1, <2>2, InFlightSteps DEF AuditValues
    <3> QED
      BY <1>2, <2>1, <2>2, <3>1, RecordAppendsEvent DEF AuditActions
  <2> QED
    BY <1>2, <2>1, <2>2, <2>3 DEF TypeOK
<1>4. CASE q.change.column # "role"
  <2>1. /\ Record("USER_STATUS_CHANGED", q.actor, q.target,
                  StatusWord(~q.change.value), StatusWord(q.change.value))
        /\ active' = [active EXCEPT ![q.target] = q.change.value] /\ role' = role
    BY <1>2, <1>4 DEF WriteColumn
  <2>2. q.change.value \in BOOLEAN /\ q.target \in Users /\ q.actor \in Users
    BY <1>1, <1>4, InFlightSteps, ChangeValues
  <2>3. audit' \in Seq(AuditEvent)
    <3>1. StatusWord(~q.change.value) \in AuditValues /\ StatusWord(q.change.value) \in AuditValues
      BY DEF StatusWord, AuditValues
    <3> QED
      BY <1>2, <2>1, <2>2, <3>1, RecordAppendsEvent DEF AuditActions
  <2> QED
    BY <1>2, <2>1, <2>2, <2>3 DEF TypeOK
<1> QED
  BY <1>3, <1>4

LEMMA RacesTypeStep == RacesTypeOK /\ [RacesNext]_racesVars => RacesTypeOK'
<1> SUFFICES ASSUME RacesTypeOK, [RacesNext]_racesVars PROVE RacesTypeOK'
  OBVIOUS
<1>1. UNCHANGED accountVars => TypeOK'
  BY DEF RacesTypeOK, TypeOK, accountVars
<1>2. ASSUME NEW r \in Requests, NEW a \in Users, NEW t \in Users, NEW c \in Changes,
             Authenticate(r, a, t, c)
      PROVE  RacesTypeOK'
  <2> DEFINE q == [step |-> "authenticated", actor |-> a, target |-> t, change |-> c,
                   role |-> NONE, active |-> FALSE]
  <2>1. q \in InFlight /\ q.step = "authenticated"
    BY DEF InFlight
  <2>2. req' = [req EXCEPT ![r] = q] /\ TypeOK'
    BY <1>1, <1>2 DEF Authenticate
  <2> HIDE DEF q
  <2> QED
    BY <2>1, <2>2, SlotType
<1>3. ASSUME NEW r \in Requests, LoadTarget(r) PROVE RacesTypeOK'
  <2> DEFINE q == [req[r] EXCEPT !.step = "loaded", !.role = role[req[r].target],
                                 !.active = active[req[r].target]]
  <2>1. req[r] \in InFlight
    BY <1>3, BusySlot DEF LoadTarget
  <2>2. role[req[r].target] \in Roles /\ active[req[r].target] \in BOOLEAN
    BY <1>3, <2>1, InFlightSteps DEF LoadTarget, Exists, RacesTypeOK, TypeOK
  <2>3. q \in InFlight /\ q.role # NONE
    BY <2>1, <2>2, AccountsAssumption DEF InFlight
  <2>4. req' = [req EXCEPT ![r] = q] /\ TypeOK'
    BY <1>1, <1>3 DEF LoadTarget, RacesTypeOK
  <2> HIDE DEF q
  <2> QED
    BY <2>3, <2>4, SlotType
<1>4. ASSUME NEW r \in Requests, CountAdmins(r) PROVE RacesTypeOK'
  <2> DEFINE q == [req[r] EXCEPT !.step = "checked"]
  <2>1. req[r] \in InFlight /\ req[r].role # NONE
    BY <1>4, BusySlot DEF CountAdmins
  <2>2. q \in InFlight /\ q.role # NONE
    BY <2>1 DEF InFlight
  <2>3. req' = [req EXCEPT ![r] = q] /\ TypeOK'
    BY <1>1, <1>4 DEF CountAdmins, RacesTypeOK
  <2> HIDE DEF q
  <2> QED
    BY <2>2, <2>3, SlotType
<1>5. ASSUME NEW r \in Requests, Commit(r) PROVE RacesTypeOK'
  BY <1>5, CommitTypes, SlotType DEF Commit
<1>6. ASSUME NEW r \in Requests, Abandon(r) PROVE RacesTypeOK'
  BY <1>1, <1>6, SlotType DEF Abandon
<1>7. ASSUME NEW u \in Users, Register(u), UNCHANGED req PROVE RacesTypeOK'
  BY <1>7, CreateUserType DEF Register, RacesTypeOK
<1>8. CASE UNCHANGED racesVars
  BY <1>8 DEF racesVars, RacesTypeOK, TypeOK
<1> QED
  BY <1>2, <1>3, <1>4, <1>5, <1>6, <1>7, <1>8 DEF RacesNext

LEMMA RacesInitType == RacesInit => RacesTypeOK
  BY AccountsInitType DEF RacesInit, RacesTypeOK

(***************************************************************************)
(* Types, and: a request past its read holds the row of an account that    *)
(* exists.                                                                 *)
(***************************************************************************)
THEOREM RacesTypeCorrect == RacesSpec => []RacesTypeOK
  BY RacesInitType, RacesTypeStep, PTL DEF RacesSpec

-----------------------------------------------------------------------------
(***************************************************************************)
(* The audit trail under overlap.  A commit writes the column and the row  *)
(* that describes it to one account, whatever else happened since it read  *)
(* that account: all the argument needs is that the account still exists.  *)
(***************************************************************************)
TargetsExist == \A r \in Requests : req[r].step \in {"loaded", "checked"} => Exists(req[r].target)

LEMMA TargetsStep == RacesTypeOK /\ TargetsExist /\ [RacesNext]_racesVars => TargetsExist'
<1> SUFFICES ASSUME RacesTypeOK, TargetsExist, [RacesNext]_racesVars PROVE TargetsExist'
  OBVIOUS
<1>1. \A u \in Users : Exists(u) => Exists(u)'
  <2>1. ASSUME NEW r \in Requests, Commit(r) PROVE \A u \in Users : Exists(u) => Exists(u)'
    <3> DEFINE q == req[r]
    <3>1. q \in InFlight /\ WriteColumn(q)
      BY <2>1, BusySlot DEF Commit
    <3> HIDE DEF q
    <3>2. CASE q.change.column = "role"
      <4>1. q.change.value \in Roles /\ role' = [role EXCEPT ![q.target] = q.change.value]
        BY <3>1, <3>2, InFlightSteps, ChangeValues DEF WriteColumn
      <4> QED
        BY <4>1, AccountsAssumption DEF Exists, RacesTypeOK, TypeOK
    <3>3. CASE q.change.column # "role"
      BY <3>1, <3>3 DEF WriteColumn, Exists
    <3> QED
      BY <3>2, <3>3
  <2>2. ASSUME NEW t \in Users, Register(t) PROVE \A u \in Users : Exists(u) => Exists(u)'
    BY <2>2 DEF Register, CreateUser, Exists, RacesTypeOK, TypeOK
  <2>3. UNCHANGED accountVars => \A u \in Users : Exists(u) => Exists(u)'
    BY DEF accountVars, Exists
  <2> QED
    BY <2>1, <2>2, <2>3
    DEF RacesNext, Authenticate, LoadTarget, CountAdmins, Abandon, racesVars, accountVars
<1>2. ASSUME NEW r \in Requests, req'[r].step \in {"loaded", "checked"}
      PROVE  /\ req[r].step # "idle" /\ req'[r].target = req[r].target
             /\ Exists(req[r].target)
  <2> DEFINE Held == /\ req[r].step # "idle" /\ req'[r].target = req[r].target
                     /\ Exists(req[r].target)
  <2>1. DOMAIN req = Requests
    BY DEF RacesTypeOK
  <2>2. req[r].step \in {"loaded", "checked"} => Exists(req[r].target)
    BY DEF TargetsExist
  <2>3. ASSUME NEW s \in Requests, NEW a \in Users, NEW t \in Users, NEW c \in Changes,
               Authenticate(s, a, t, c)
        PROVE  req'[r] = req[r]
    BY <1>2, <2>1, <2>3 DEF Authenticate
  <2>4. ASSUME NEW s \in Requests, Commit(s) \/ Abandon(s) PROVE req'[r] = req[r]
    BY <1>2, <2>1, <2>4 DEF Commit, Abandon, Idle
  <2>5. ASSUME NEW s \in Requests, LoadTarget(s) PROVE Held
    <3>1. s = r => req[r] \in InFlight
      BY <2>5, BusySlot DEF LoadTarget
    <3> QED
      BY <1>2, <2>1, <2>2, <2>5, <3>1 DEF LoadTarget, InFlight
  <2>6. ASSUME NEW s \in Requests, CountAdmins(s) PROVE Held
    <3>1. s = r => req[r] \in InFlight
      BY <2>6, BusySlot DEF CountAdmins
    <3> QED
      BY <1>2, <2>1, <2>2, <2>6, <3>1 DEF CountAdmins, InFlight
  <2>7. req'[r] = req[r] => Held
    BY <1>2, <2>2
  <2>8. UNCHANGED req => req'[r] = req[r]
    OBVIOUS
  <2> HIDE DEF Held
  <2>9. Held
    BY <2>3, <2>4, <2>5, <2>6, <2>7, <2>8 DEF RacesNext, racesVars
  <2> QED
    BY <2>9 DEF Held
<1>3. ASSUME NEW r \in Requests, req[r].step # "idle" PROVE req[r].target \in Users
  BY <1>3, BusySlot, InFlightSteps
<1> QED
  BY <1>1, <1>2, <1>3 DEF TargetsExist, Exists

LEMMA RacesExplainedStep ==
    RacesTypeOK /\ TargetsExist /\ Explained /\ [RacesNext]_racesVars => Explained'
<1> SUFFICES ASSUME RacesTypeOK, TargetsExist, Explained, [RacesNext]_racesVars
             PROVE  Explained'
  OBVIOUS
<1>1. TypeOK
  BY DEF RacesTypeOK
<1>2. ASSUME NEW r \in Requests, Commit(r) PROVE Explained'
  <2> DEFINE q == req[r]
  <2>1. q \in InFlight /\ WriteColumn(q) /\ Exists(q.target)
    BY <1>2, BusySlot DEF Commit, TargetsExist
  <2> HIDE DEF q
  <2>2. CASE q.change.column = "role"
    <3>1. /\ Record("USER_ROLE_CHANGED", q.actor, q.target, q.role, q.change.value)
          /\ role' = [role EXCEPT ![q.target] = q.change.value] /\ active' = active
      BY <2>1, <2>2 DEF WriteColumn
    <3>2. q.change.value \in Roles /\ q.target \in Users /\ q.actor \in Users \cup {NONE}
          /\ q.role \in AuditValues
      BY <2>1, <2>2, InFlightSteps, ChangeValues DEF AuditValues
    <3> QED
      BY <1>1, <2>1, <3>1, <3>2, ExplainedRole
  <2>3. CASE q.change.column # "role"
    <3>1. /\ Record("USER_STATUS_CHANGED", q.actor, q.target,
                    StatusWord(~q.change.value), StatusWord(q.change.value))
          /\ active' = [active EXCEPT ![q.target] = q.change.value] /\ role' = role
      BY <2>1, <2>3 DEF WriteColumn
    <3>2. q.change.value \in BOOLEAN /\ q.target \in Users /\ q.actor \in Users \cup {NONE}
          /\ StatusWord(~q.change.value) \in AuditValues
      BY <2>1, <2>3, InFlightSteps, ChangeValues DEF AuditValues, StatusWord
    <3> QED
      BY <1>1, <2>1, <3>1, <3>2, ExplainedActive
  <2> QED
    BY <2>2, <2>3
<1>3. ASSUME NEW u \in Users, Register(u) PROVE Explained'
  BY <1>1, <1>3, ExplainedNewAccount DEF Register
<1>4. UNCHANGED accountVars => Explained'
  BY <1>1, ExplainedStep
<1> QED
  BY <1>2, <1>3, <1>4
  DEF RacesNext, Authenticate, LoadTarget, CountAdmins, Abandon, racesVars, accountVars

(***************************************************************************)
(* However many requests overlap, and in whatever order their steps are    *)
(* taken, the audit trail explains every account.                          *)
(***************************************************************************)
THEOREM OverlapKeepsTrailExplained == RacesSpec => []AuditExplainsAccounts
<1>1. RacesInit => TargetsExist /\ Explained
  BY ExplainedInit DEF RacesInit, TargetsExist, Idle
<1> QED
  BY <1>1, TargetsStep, RacesExplainedStep, ExplainedImplies, RacesTypeCorrect, PTL
  DEF RacesSpec

-----------------------------------------------------------------------------
(***************************************************************************)
(* One request at a time.  What the request in the only slot has read is   *)
(* still so when it commits: nothing but a registration happens meanwhile, *)
(* and that touches no account that existed.                               *)
(***************************************************************************)
Current(q) ==
    /\ q.actor # q.target
    /\ Exists(q.target)
    /\ q.role = role[q.target]
    /\ q.active = active[q.target]
    /\ IF q.change.column = "role" THEN q.role # q.change.value
                                   ELSE q.active # q.change.value

Fresh(q) ==
    /\ RequireAdmin(q.actor)
    /\ q.step # "authenticated" => Current(q)
    /\ (q.step = "checked" /\ Removes(q)) => ActiveAdminsExcept(q.target) # {}

SlotsFresh == \A r \in Requests : req[r].step # "idle" => Fresh(req[r])

OneSlot == \A r, s \in Requests : r = s

\* What a request holds stays fresh in a step that keeps the accounts, and in
\* a registration.
LEMMA StaysFresh ==
    ASSUME RacesTypeOK, NEW r \in Requests, req[r] \in InFlight, Fresh(req[r]),
           UNCHANGED req, (\E u \in Users : Register(u)) \/ UNCHANGED accountVars
    PROVE  Fresh(req[r])'
<1> DEFINE q == req[r]
<1>1. q.actor \in Users /\ q.target \in Users /\ q' = q
  BY InFlightSteps
<1>2. \A x \in Users : Exists(x) => role'[x] = role[x] /\ active'[x] = active[x]
  BY DEF Register, CreateUser, Exists, RacesTypeOK, TypeOK, accountVars
<1>3. Fresh(q)
  OBVIOUS
<1> HIDE DEF q
<1>4. RequireAdmin(q.actor)'
  BY <1>1, <1>2, <1>3 DEF Fresh, RequireAdmin, Authenticated, Exists
<1>5. Current(q) => Current(q)'
  BY <1>1, <1>2 DEF Current, Exists
<1>6. ASSUME NEW x \in ActiveAdminsExcept(q.target) PROVE x \in ActiveAdminsExcept(q.target)'
  <2>1. x \in Users /\ x # q.target /\ role[x] = "ADMIN" /\ active[x] /\ Exists(x)
    BY AccountsAssumption DEF ActiveAdminsExcept, Exists, Roles
  <2> QED
    BY <1>1, <1>2, <2>1 DEF ActiveAdminsExcept
<1>7. Removes(q)' = Removes(q)
  BY <1>1 DEF Removes
<1>8. Fresh(q)'
  BY <1>1, <1>3, <1>4, <1>5, <1>6, <1>7 DEF Fresh
<1> QED
  BY <1>8 DEF q

LEMMA FreshStep ==
    OneSlot /\ RacesTypeOK /\ SlotsFresh /\ [RacesNext]_racesVars => SlotsFresh'
<1> SUFFICES ASSUME OneSlot, RacesTypeOK, SlotsFresh, [RacesNext]_racesVars,
                    NEW r \in Requests, req'[r].step # "idle"
             PROVE  Fresh(req[r])'
  BY DEF SlotsFresh
<1> DEFINE p == req[r]
           q == req'[r]
<1>1. DOMAIN req = Requests
  BY DEF RacesTypeOK
<1>2. p.step # "idle" => p \in InFlight /\ Fresh(p)
  BY BusySlot DEF SlotsFresh
<1>3. ASSUME NEW a \in Users, NEW t \in Users, NEW c \in Changes, Authenticate(r, a, t, c)
      PROVE  Fresh(req[r])'
  <2>1. q.step = "authenticated" /\ q.actor = a
    BY <1>1, <1>3 DEF Authenticate
  <2>2. RequireAdmin(a) /\ role' = role /\ active' = active
    BY <1>3 DEF Authenticate, accountVars
  <2> QED
    BY <2>1, <2>2 DEF Fresh, RequireAdmin, Authenticated, Exists
<1>4. ASSUME LoadTarget(r) PROVE Fresh(req[r])'
  <2>1. p \in InFlight /\ Fresh(p)
    BY <1>2, <1>4 DEF LoadTarget
  <2>2. /\ q.step = "loaded" /\ q.actor = p.actor /\ q.target = p.target
        /\ q.change = p.change /\ q.role = role[p.target] /\ q.active = active[p.target]
    BY <1>1, <1>4, <2>1 DEF LoadTarget, InFlight
  <2>3. role' = role /\ active' = active
    BY <1>4 DEF LoadTarget, accountVars
  <2>4. /\ p.actor # p.target /\ Exists(p.target)
        /\ IF p.change.column = "role" THEN role[p.target] # p.change.value
                                       ELSE active[p.target] # p.change.value
    BY <1>4 DEF LoadTarget
  <2>5. RequireAdmin(p.actor)
    BY <2>1 DEF Fresh
  <2> HIDE DEF p
  <2>6. Current(req[r])' /\ RequireAdmin(req[r].actor)' /\ req'[r].step = "loaded"
    BY <2>2, <2>3, <2>4, <2>5 DEF Current, RequireAdmin, Authenticated, Exists
  <2> QED
    BY <2>6 DEF Fresh
<1>5. ASSUME CountAdmins(r) PROVE Fresh(req[r])'
  <2>1. p \in InFlight /\ Fresh(p) /\ p.step = "loaded"
    BY <1>2, <1>5 DEF CountAdmins
  <2>2. /\ q.step = "checked" /\ q.actor = p.actor /\ q.target = p.target
        /\ q.change = p.change /\ q.role = p.role /\ q.active = p.active
    BY <1>1, <1>5, <2>1 DEF CountAdmins, InFlight
  <2>3. role' = role /\ active' = active
    BY <1>5 DEF CountAdmins, accountVars
  <2>4. Current(p) /\ RequireAdmin(p.actor)
        /\ (Removes(p) => ActiveAdminsExcept(p.target) # {})
    BY <1>5, <2>1 DEF Fresh, CountAdmins
  <2> HIDE DEF p
  <2>5. Current(req[r])' /\ RequireAdmin(req[r].actor)'
    BY <2>2, <2>3, <2>4 DEF Current, RequireAdmin, Authenticated, Exists
  <2>6. (Removes(req[r]) => ActiveAdminsExcept(req[r].target) # {})'
    BY <2>2, <2>3, <2>4 DEF Removes, ActiveAdminsExcept
  <2> QED
    BY <2>5, <2>6 DEF Fresh
<1>6. ~Commit(r) /\ ~Abandon(r)
  BY <1>1 DEF Commit, Abandon, Idle
<1>7. ASSUME UNCHANGED req, (\E u \in Users : Register(u)) \/ UNCHANGED accountVars
      PROVE  Fresh(req[r])'
  BY <1>2, <1>7, StaysFresh
<1> HIDE DEF p, q
<1> QED
  BY <1>3, <1>4, <1>5, <1>6, <1>7 DEF RacesNext, OneSlot, racesVars, accountVars

LEMMA SerialStep ==
    RacesTypeOK /\ SlotsFresh /\ [RacesNext]_racesVars => [Next]_accountVars
<1> SUFFICES ASSUME RacesTypeOK, SlotsFresh, [RacesNext]_racesVars PROVE [Next]_accountVars
  OBVIOUS
<1>1. ASSUME NEW r \in Requests, Commit(r) PROVE Next
  <2> DEFINE q == req[r]
  <2>1. q \in InFlight /\ WriteColumn(q) /\ Fresh(q) /\ q.step = "checked"
    BY <1>1, BusySlot DEF Commit, SlotsFresh
  <2> HIDE DEF q
  <2>2. /\ q.actor \in Users /\ q.target \in Users /\ q.change \in Changes
        /\ RequireAdmin(q.actor) /\ Current(q)
        /\ Removes(q) => ActiveAdminsExcept(q.target) # {}
    BY <2>1, InFlightSteps DEF Fresh
  <2>3. CASE q.change.column = "role"
    <3>1. q.change.value \in Roles
      BY <2>2, <2>3, ChangeValues
    <3>2. SetUserRole(q.actor, q.target, q.change.value)
      BY <2>1, <2>2, <2>3 DEF WriteColumn, Current, Removes, SetUserRole
    <3> QED
      BY <2>2, <3>1, <3>2 DEF Next, ChangeRole
  <2>4. CASE q.change.column # "role"
    <3>1. q.change.value \in BOOLEAN
      BY <2>2, <2>4, ChangeValues
    <3>2. SetUserActive(q.actor, q.target, q.change.value)
      BY <2>1, <2>2, <2>4 DEF WriteColumn, Current, Removes, SetUserActive
    <3> QED
      BY <2>2, <3>1, <3>2 DEF Next, ChangeStatus
  <2> QED
    BY <2>3, <2>4
<1>2. ASSUME NEW u \in Users, Register(u) PROVE Next
  BY <1>2 DEF Next
<1> QED
  BY <1>1, <1>2
  DEF RacesNext, Authenticate, LoadTarget, CountAdmins, Abandon, racesVars, accountVars

(***************************************************************************)
(* Requests that do not overlap implement module Accounts, whatever its    *)
(* constants: with one slot, every commit of RacesSpec is one of the       *)
(* atomic changes, and every other step but a registration a stutter.      *)
(***************************************************************************)
THEOREM SerialImplementsAccounts == ASSUME OneSlot PROVE RacesSpec => ImplementsAccounts
<1>1. RacesInit => SlotsFresh /\ Init
  BY DEF RacesInit, SlotsFresh, Idle
<1>2. RacesSpec => []SlotsFresh
  BY <1>1, FreshStep, RacesTypeCorrect, PTL DEF RacesSpec
<1> QED
  BY <1>1, <1>2, SerialStep, RacesTypeCorrect, PTL DEF RacesSpec, ImplementsAccounts, Spec

-----------------------------------------------------------------------------
(* Sign-in and registration. *)

LEMMA NoAddress == NONE \notin Addresses /\ NONE \notin Subjects /\ NONE \notin Users
  BY IdentityAssumption, AccountsAssumption

(***************************************************************************)
(* Towards the administrators' requests: a step of a sign-in registers an  *)
(* account or changes nothing.                                             *)
(***************************************************************************)
LEMMA StepIsRaces == [IdentityNext]_allVars => [RacesNext]_racesVars
<1> SUFFICES ASSUME [IdentityNext]_allVars PROVE [RacesNext]_racesVars
  OBVIOUS
<1>1. ASSUME NEW t \in Tabs, NEW a \in Addresses, StartRegistration(t, a)
      PROVE  UNCHANGED racesVars
  BY <1>1 DEF StartRegistration, Reading, accountVars, racesVars
<1>2. ASSUME NEW t \in Tabs, NEW s \in Subjects, Callback(t, s)
      PROVE  UNCHANGED racesVars
  BY <1>2, SMTT(60) DEF Callback, Reading, accountVars, racesVars
<1>3. ASSUME NEW t \in Tabs, FindSubject(t) \/ FindClash(t) \/ FindAddress(t)
      PROVE  UNCHANGED racesVars
  BY <1>3 DEF FindSubject, FindClash, FindAddress, Reading, accountVars, racesVars
<1>4. ASSUME NEW t \in Tabs, FollowAddress(t) \/ Link(t) \/ GiveUp(t)
      PROVE  UNCHANGED racesVars
  BY <1>4 DEF FollowAddress, Link, GiveUp, Reading, accountVars, racesVars
<1>5. ASSUME NEW t \in Tabs, NEW u \in Users, Create(t, u)
      PROVE  Register(u) /\ UNCHANGED req
  BY <1>5 DEF Create
<1>6. ASSUME NEW s \in Subjects, NEW a \in Addresses, AddressMoves(s, a)
      PROVE  UNCHANGED racesVars
  BY <1>6 DEF AddressMoves, accountVars, racesVars
<1>7. AdminStep => RacesNext
  BY DEF AdminStep, RacesNext
<1>8. UNCHANGED allVars => UNCHANGED racesVars
  BY DEF allVars, racesVars
<1> QED
  BY <1>1, <1>2, <1>3, <1>4, <1>5, <1>6, <1>7, <1>8 DEF IdentityNext, RacesNext

(***************************************************************************)
(* Seen without addresses and subjects, Identity is AdminRaces.            *)
(***************************************************************************)
THEOREM IdentityImplementsRaces == IdentitySpec => ImplementsRaces
<1>1. IdentityInit => RacesInit
  BY DEF IdentityInit
<1> QED
  BY <1>1, StepIsRaces, PTL DEF IdentitySpec, ImplementsRaces, RacesSpec

(***************************************************************************)
(* So the audit trail explains every account whoever signs in meanwhile.   *)
(***************************************************************************)
THEOREM IdentityKeepsTrailExplained == IdentitySpec => []AuditExplainsAccounts
  BY IdentityImplementsRaces, OverlapKeepsTrailExplained DEF ImplementsRaces

-----------------------------------------------------------------------------
(***************************************************************************)
(* What a sign-in under way may rely on, when E, S and G are the addresses *)
(* and the subjects of the accounts and the addresses of the identities:   *)
(* the identity is still as it was vouched for, and the account it has     *)
(* found is still the one to write.                                        *)
(***************************************************************************)
Sound(f, E, S, G) ==
    /\ f \in Flows
    /\ f.subject # NONE => G[f.subject] = f.address
    /\ f.step # "creating" => f.subject # NONE
    /\ f.step \in {"known", "following"} => f.user \in Users /\ S[f.user] = f.subject
    /\ f.step = "linking" => /\ f.user \in Users /\ E[f.user] = f.address
                             /\ S[f.user] \in {NONE, f.subject}

SoundNow(f) == Sound(f, email, subject, google)

FlowsSound == \A t \in Tabs : flow[t] = Idle \/ SoundNow(flow[t])

Vouched == \A s, z \in Subjects : google[s] = google[z] => s = z \/ google[s] = NONE

HoldersExist == \A u \in Users : subject[u] # NONE => Exists(u)

EmailOK ==
    /\ email \in [Users -> Addresses \cup {NONE}]
    /\ \A u \in Users : (email[u] = NONE) <=> ~Exists(u)

SubjectOK == subject \in [Users -> Subjects \cup {NONE}] /\ HoldersExist

GoogleOK == google \in [Subjects -> Addresses \cup {NONE}] /\ Vouched

RestOK == linked \subseteq Users /\ moves \in 0 .. MaxMoves /\ DOMAIN flow = Tabs

IdentityInv ==
    /\ RacesTypeOK /\ TargetsExist
    /\ EmailOK /\ Unshared(email)
    /\ SubjectOK /\ Unshared(subject)
    /\ GoogleOK /\ FlowsSound /\ RestOK

LEMMA FlowFields ==
    \A f \in Flows : /\ f # Idle /\ f.step \in FlowSteps /\ f.address \in Addresses
                     /\ f.subject \in Subjects \cup {NONE} /\ f.user \in Users \cup {NONE}
  BY DEF Flows, Idle

LEMMA IdleStep == Idle.step = "idle" /\ "idle" \notin FlowSteps
  BY DEF Idle, FlowSteps

\* A tab whose step is one of a sign-in's holds one.
LEMMA BusyTab ==
    ASSUME FlowsSound, NEW t \in Tabs, flow[t].step \in FlowSteps
    PROVE  SoundNow(flow[t]) /\ flow[t] \in Flows
  BY IdleStep DEF FlowsSound, SoundNow, Sound

\* One tab goes on, the others keep what they rely on.
LEMMA FlowStep ==
    ASSUME DOMAIN flow = Tabs, FlowsSound, NEW t \in Tabs, NEW f, Go(t, f),
           f = Idle \/ Sound(f, email', subject', google'),
           \A x \in Tabs \ {t} : SoundNow(flow[x]) => Sound(flow[x], email', subject', google')
    PROVE  FlowsSound' /\ DOMAIN flow' = Tabs
<1>1. flow' = [flow EXCEPT ![t] = f]
  BY DEF Go
<1>2. \A x \in Tabs : flow'[x] = Idle \/ Sound(flow'[x], email', subject', google')
  BY <1>1 DEF FlowsSound
<1> QED
  BY <1>1, <1>2 DEF FlowsSound, SoundNow

(***************************************************************************)
(* Steps that read: nothing changes but the flow of one tab.               *)
(***************************************************************************)
LEMMA ReadingKeeps ==
    ASSUME IdentityInv, NEW t \in Tabs, NEW f, Reading(t, f), f = Idle \/ SoundNow(f)
    PROVE  IdentityInv'
<1>1. /\ UNCHANGED <<role, active, audit, req, email, subject, linked, google, moves>>
      /\ Go(t, f)
  BY DEF Reading, accountVars
<1>2. RacesTypeOK' /\ TargetsExist'
  BY <1>1 DEF IdentityInv, RacesTypeOK, TypeOK, TargetsExist, Exists
<1>3. EmailOK' /\ Unshared(email)'
  BY <1>1 DEF IdentityInv, EmailOK, Unshared, Exists
<1>4. SubjectOK' /\ Unshared(subject)'
  BY <1>1 DEF IdentityInv, SubjectOK, HoldersExist, Unshared, Exists
<1>5. FlowsSound' /\ DOMAIN flow' = Tabs
  <2>1. \A g : SoundNow(g) => Sound(g, email', subject', google')
    BY <1>1 DEF SoundNow
  <2> QED
    BY <1>1, <2>1, FlowStep DEF IdentityInv, RestOK
<1>6. GoogleOK' /\ RestOK'
  BY <1>1, <1>5 DEF IdentityInv, GoogleOK, Vouched, RestOK
<1> QED
  BY <1>2, <1>3, <1>4, <1>5, <1>6 DEF IdentityInv


LEMMA RegistrationStarts ==
    ASSUME IdentityInv, NEW t \in Tabs, NEW a \in Addresses, StartRegistration(t, a)
    PROVE  IdentityInv'
<1> DEFINE f == [step |-> "creating", address |-> a, subject |-> NONE, user |-> NONE]
<1>1. SoundNow(f)
  BY DEF SoundNow, Sound, Flows, FlowSteps
<1>2. Reading(t, f)
  BY DEF StartRegistration
<1> HIDE DEF f
<1> QED
  BY <1>1, <1>2, ReadingKeeps

LEMMA CallbackKeeps ==
    ASSUME IdentityInv, NEW t \in Tabs, NEW s \in Subjects, Callback(t, s)
    PROVE  IdentityInv'
<1> DEFINE f == [step |-> "verified", address |-> google[s], subject |-> s, user |-> NONE]
<1>1. google[s] \in Addresses
  BY DEF Callback, IdentityInv, GoogleOK
<1>2. SoundNow(f)
  BY <1>1, NoAddress DEF SoundNow, Sound, Flows, FlowSteps
<1>3. Reading(t, f)
  BY DEF Callback
<1> HIDE DEF f
<1> QED
  BY <1>2, <1>3, ReadingKeeps

\* The flow goes on to the next step; an account it finds is noted.
LEMMA NextStep ==
    ASSUME NEW f, SoundNow(f), f.step # "creating",
           NEW x \in FlowSteps \ {"known", "following", "linking"}
    PROVE  SoundNow([f EXCEPT !.step = x])
  BY DEF SoundNow, Sound, Flows

LEMMA FoundBySubject ==
    ASSUME NEW f, SoundNow(f), f.step # "creating", NEW u \in WithSubject(f.subject)
    PROVE  SoundNow([f EXCEPT !.step = "known", !.user = u])
  BY DEF SoundNow, Sound, Flows, FlowSteps, WithSubject

LEMMA FoundByAddress ==
    ASSUME NEW f, SoundNow(f), f.step # "creating", NEW u \in WithAddress(f.address),
           subject[u] \in {NONE, f.subject}
    PROVE  SoundNow([f EXCEPT !.step = "linking", !.user = u])
  BY DEF SoundNow, Sound, Flows, FlowSteps, WithAddress

LEMMA Follows ==
    ASSUME NEW f, SoundNow(f), f.step = "known"
    PROVE  SoundNow([f EXCEPT !.step = "following"])
  BY DEF SoundNow, Sound, Flows, FlowSteps

LEMMA LookupsKeep ==
    ASSUME IdentityInv, NEW t \in Tabs, FindSubject(t) \/ FindClash(t) \/ FindAddress(t)
    PROVE  IdentityInv'
<1>1. flow[t].step \in FlowSteps
  BY DEF FindSubject, FindClash, FindAddress, FlowSteps
<1> DEFINE f == flow[t]
<1>2. SoundNow(f)
  BY <1>1, BusyTab DEF IdentityInv
<1>3. ASSUME FindSubject(t)
      PROVE  \E g : Reading(t, g) /\ (g = Idle \/ SoundNow(g))
  <2>1. f.step = "verified" /\ f.step # "creating"
    BY <1>3 DEF FindSubject
  <2>2. CASE WithSubject(f.subject) = {}
    BY <1>2, <1>3, <2>1, <2>2, NextStep DEF FindSubject, FlowSteps
  <2>3. CASE WithSubject(f.subject) # {}
    <3>1. PICK u \in WithSubject(f.subject) :
                  Reading(t, IF email[u] = f.address THEN Idle
                             ELSE [f EXCEPT !.step = "known", !.user = u])
      BY <1>3, <2>3 DEF FindSubject
    <3>2. SoundNow([f EXCEPT !.step = "known", !.user = u])
      BY <1>2, <2>1, FoundBySubject
    <3> QED
      BY <3>1, <3>2, SMTT(60)
  <2> QED
    BY <2>2, <2>3
<1>4. ASSUME FindClash(t)
      PROVE  \E g : Reading(t, g) /\ (g = Idle \/ SoundNow(g))
  <2>1. f.step = "known"
    BY <1>4 DEF FindClash
  <2>2. SoundNow([f EXCEPT !.step = "following"])
    BY <1>2, <2>1, Follows
  <2> QED
    BY <1>4, <2>2 DEF FindClash
<1>5. ASSUME FindAddress(t)
      PROVE  \E g : Reading(t, g) /\ (g = Idle \/ SoundNow(g))
  <2>1. f.step = "unknown" /\ f.step # "creating"
    BY <1>5 DEF FindAddress
  <2>2. CASE WithAddress(f.address) = {}
    BY <1>2, <1>5, <2>1, <2>2, NextStep DEF FindAddress, FlowSteps
  <2>3. CASE WithAddress(f.address) # {}
    <3>1. PICK u \in WithAddress(f.address) :
                  Reading(t, IF subject[u] \in {NONE, f.subject}
                             THEN [f EXCEPT !.step = "linking", !.user = u] ELSE Idle)
      BY <1>5, <2>3 DEF FindAddress
    <3>2. subject[u] \in {NONE, f.subject} => SoundNow([f EXCEPT !.step = "linking", !.user = u])
      BY <1>2, <2>1, FoundByAddress
    <3> QED
      BY <3>1, <3>2, SMTT(60)
  <2> QED
    BY <2>2, <2>3, SMTT(60)
<1> QED
  BY <1>3, <1>4, <1>5, ReadingKeeps, SMTT(60)


(***************************************************************************)
(* Steps that write.                                                       *)
(***************************************************************************)
\* A value that is free for an account stays unshared when the account gets it.
LEMMA StaysUnshared ==
    ASSUME NEW column, DOMAIN column = Users, Unshared(column), NEW u \in Users, NEW x,
           \A v \in Users : x # NONE /\ column[v] = x => v = u
    PROVE  Unshared([column EXCEPT ![u] = x])
  BY DEF Unshared

\* Two identities with a verified address in common are one.
LEMMA SameIdentity ==
    ASSUME GoogleOK, NEW s \in Subjects, NEW z \in Subjects, NEW a \in Addresses,
           google[s] = a, google[z] = a
    PROVE  s = z
  BY NoAddress DEF GoogleOK, Vouched

LEMMA FollowKeeps ==
    ASSUME IdentityInv, NEW t \in Tabs, FollowAddress(t)
    PROVE  IdentityInv' /\ UNCHANGED subject
<1> DEFINE f == flow[t]
           u == f.user
<1>1. /\ f.step = "following" /\ Free(u, f.address, NONE) /\ Go(t, Idle)
      /\ email' = [email EXCEPT ![u] = f.address]
      /\ UNCHANGED <<role, active, audit, req, subject, linked, google, moves>>
  BY DEF FollowAddress, accountVars
<1>2. SoundNow(f) /\ f \in Flows
  BY <1>1, BusyTab DEF IdentityInv, FlowSteps
<1>3. /\ u \in Users /\ subject[u] = f.subject /\ f.subject \in Subjects
      /\ f.address \in Addresses /\ google[f.subject] = f.address
  BY <1>1, <1>2, FlowFields DEF SoundNow, Sound
<1> HIDE DEF f, u
<1>4. Exists(u)
  BY <1>3, NoAddress DEF IdentityInv, SubjectOK, HoldersExist
<1>5. RacesTypeOK' /\ TargetsExist'
  BY <1>1 DEF IdentityInv, RacesTypeOK, TypeOK, TargetsExist, Exists
<1>6. EmailOK' /\ Unshared(email)'
  <2>1. EmailOK'
    BY <1>1, <1>3, <1>4, NoAddress DEF IdentityInv, EmailOK, Exists
  <2>2. Unshared(email')
    BY <1>1, <1>3, StaysUnshared DEF IdentityInv, EmailOK, Free, WithAddress
  <2> QED
    BY <2>1, <2>2 DEF Unshared
<1>7. SubjectOK' /\ Unshared(subject)'
  BY <1>1 DEF IdentityInv, SubjectOK, HoldersExist, Unshared, Exists
<1>8. ASSUME NEW g, SoundNow(g) PROVE Sound(g, email', subject', google')
  <2>1. CASE g.step = "linking" /\ g.user = u
    <3>1. g.subject \in Subjects /\ g.address \in Addresses
      BY <1>8, <2>1, FlowFields DEF SoundNow, Sound
    <3>2. g.subject = f.subject /\ google[g.subject] = g.address
      BY <1>3, <1>8, <2>1, NoAddress DEF SoundNow, Sound
    <3> QED
      BY <1>1, <1>3, <1>8, <2>1, <3>2 DEF SoundNow, Sound, IdentityInv, EmailOK
  <2>2. CASE g.step # "linking" \/ g.user # u
    BY <1>1, <1>3, <1>8, <2>2 DEF SoundNow, Sound, IdentityInv, EmailOK
  <2> QED
    BY <2>1, <2>2
<1>9. FlowsSound' /\ DOMAIN flow' = Tabs
  BY <1>1, <1>8, FlowStep DEF IdentityInv, RestOK
<1>10. GoogleOK' /\ RestOK'
  BY <1>1, <1>9 DEF IdentityInv, GoogleOK, Vouched, RestOK
<1> QED
  BY <1>1, <1>5, <1>6, <1>7, <1>9, <1>10 DEF IdentityInv

\* The step that binds an identity: to an account that has none, or this one.
LEMMA LinkKeeps ==
    ASSUME IdentityInv, NEW t \in Tabs, Link(t)
    PROVE  IdentityInv' /\ \A v \in Users : subject[v] # NONE => subject'[v] = subject[v]
<1> DEFINE f == flow[t]
           u == f.user
<1>1. /\ f.step = "linking" /\ Free(u, NONE, f.subject) /\ Go(t, Idle)
      /\ subject' = [subject EXCEPT ![u] = f.subject]
      /\ linked' = linked \cup {u}
      /\ UNCHANGED <<role, active, audit, req, email, google, moves>>
  BY DEF Link, accountVars
<1>2. SoundNow(f) /\ f \in Flows
  BY <1>1, BusyTab DEF IdentityInv, FlowSteps
<1>3. /\ u \in Users /\ email[u] = f.address /\ subject[u] \in {NONE, f.subject}
      /\ f.subject \in Subjects /\ f.address \in Addresses /\ google[f.subject] = f.address
  BY <1>1, <1>2, FlowFields DEF SoundNow, Sound
<1> HIDE DEF f, u
<1>4. Exists(u)
  BY <1>3, NoAddress DEF IdentityInv, EmailOK
<1>5. RacesTypeOK' /\ TargetsExist'
  BY <1>1 DEF IdentityInv, RacesTypeOK, TypeOK, TargetsExist, Exists
<1>6. EmailOK' /\ Unshared(email)'
  BY <1>1 DEF IdentityInv, EmailOK, Unshared, Exists
<1>7. SubjectOK' /\ Unshared(subject)'
  <2>1. SubjectOK'
    BY <1>1, <1>3, <1>4 DEF IdentityInv, SubjectOK, HoldersExist, Exists
  <2>2. Unshared(subject')
    BY <1>1, <1>3, StaysUnshared DEF IdentityInv, SubjectOK, Free, WithSubject
  <2> QED
    BY <2>1, <2>2 DEF Unshared
<1>8. ASSUME NEW g, SoundNow(g) PROVE Sound(g, email', subject', google')
  <2>1. CASE g.user = u /\ g.step \in {"known", "following"}
    <3>1. g.subject \in Subjects /\ subject[u] = g.subject
      BY <1>8, <2>1, FlowFields DEF SoundNow, Sound
    <3>2. g.subject = f.subject
      BY <1>3, <3>1, NoAddress
    <3> QED
      BY <1>1, <1>3, <1>8, <2>1, <3>2 DEF SoundNow, Sound, IdentityInv, SubjectOK
  <2>2. CASE g.user = u /\ g.step = "linking"
    <3>1. /\ g.subject \in Subjects /\ google[g.subject] = g.address
          /\ g.address = f.address
      BY <1>3, <1>8, <2>2, FlowFields DEF SoundNow, Sound
    <3>2. g.subject = f.subject
      BY <1>3, <3>1, SameIdentity DEF IdentityInv
    <3> QED
      BY <1>1, <1>3, <1>8, <2>2, <3>2 DEF SoundNow, Sound, IdentityInv, SubjectOK
  <2>3. CASE g.user # u \/ g.step \notin {"known", "following", "linking"}
    BY <1>1, <1>3, <1>8, <2>3 DEF SoundNow, Sound, IdentityInv, SubjectOK
  <2> QED
    BY <2>1, <2>2, <2>3
<1>9. FlowsSound' /\ DOMAIN flow' = Tabs
  BY <1>1, <1>8, FlowStep DEF IdentityInv, RestOK
<1>10. GoogleOK' /\ RestOK'
  BY <1>1, <1>3, <1>9 DEF IdentityInv, GoogleOK, Vouched, RestOK
<1>11. \A v \in Users : subject[v] # NONE => subject'[v] = subject[v]
  BY <1>1, <1>3 DEF IdentityInv, SubjectOK
<1> QED
  BY <1>1, <1>5, <1>6, <1>7, <1>9, <1>10, <1>11 DEF IdentityInv

\* The accounts as a step of AdminRaces leaves them
LEMMA RacesKeep ==
    ASSUME RacesTypeOK, TargetsExist, [RacesNext]_racesVars
    PROVE  RacesTypeOK' /\ TargetsExist'
  BY RacesTypeStep, TargetsStep

\* A new account takes an address and a subject that no other account has.
LEMMA CreateKeeps ==
    ASSUME IdentityInv, NEW t \in Tabs, NEW u \in Users, Create(t, u)
    PROVE  IdentityInv' /\ \A v \in Users : subject[v] # NONE => subject'[v] = subject[v]
<1> DEFINE f == flow[t]
<1>1. /\ f.step = "creating" /\ Free(u, f.address, f.subject) /\ Go(t, Idle)
      /\ Register(u)
      /\ email' = [email EXCEPT ![u] = f.address]
      /\ subject' = [subject EXCEPT ![u] = f.subject]
      /\ UNCHANGED <<req, linked, google, moves>>
  BY DEF Create
<1>2. SoundNow(f) /\ f \in Flows
  BY <1>1, BusyTab DEF IdentityInv, FlowSteps
<1>3. /\ f.address \in Addresses /\ f.address # NONE
      /\ f.subject \in Subjects \cup {NONE}
  BY <1>2, FlowFields, NoAddress
<1> HIDE DEF f
<1>4. /\ ~Exists(u) /\ email[u] = NONE /\ subject[u] = NONE
      /\ role' = [role EXCEPT ![u] = "USER"]
  BY <1>1 DEF Register, CreateUser, IdentityInv, EmailOK, SubjectOK, HoldersExist
<1>5. RacesTypeOK' /\ TargetsExist'
  BY <1>1, RacesKeep DEF IdentityInv, RacesNext
<1>6. \A v \in Users : Exists(v)' <=> Exists(v) \/ v = u
  BY <1>4, AccountsAssumption DEF Exists, IdentityInv, RacesTypeOK, TypeOK, Roles
<1>7. EmailOK' /\ Unshared(email)'
  <2>1. EmailOK'
    BY <1>1, <1>3, <1>6 DEF IdentityInv, EmailOK
  <2>2. Unshared(email')
    BY <1>1, <1>3, StaysUnshared DEF IdentityInv, EmailOK, Free, WithAddress
  <2> QED
    BY <2>1, <2>2 DEF Unshared
<1>8. SubjectOK' /\ Unshared(subject)'
  <2>1. SubjectOK'
    BY <1>1, <1>3, <1>6 DEF IdentityInv, SubjectOK, HoldersExist
  <2>2. Unshared(subject')
    BY <1>1, <1>3, StaysUnshared DEF IdentityInv, SubjectOK, Free, WithSubject
  <2> QED
    BY <2>1, <2>2 DEF Unshared
<1>9. ASSUME NEW g, SoundNow(g) PROVE Sound(g, email', subject', google')
  <2>1. g.subject # NONE => g.subject \in Subjects
    BY <1>9, FlowFields DEF SoundNow, Sound
  <2>2. g.address # NONE
    BY <1>9, FlowFields, NoAddress DEF SoundNow, Sound
  <2>3. g.step \in {"known", "following"} => g.user # u
    BY <1>4, <1>9 DEF SoundNow, Sound
  <2>4. g.step = "linking" => g.user # u
    BY <1>4, <1>9, <2>2 DEF SoundNow, Sound
  <2> QED
    BY <1>1, <1>9, <2>3, <2>4 DEF SoundNow, Sound, IdentityInv, EmailOK, SubjectOK
<1>10. FlowsSound' /\ DOMAIN flow' = Tabs
  BY <1>1, <1>9, FlowStep DEF IdentityInv, RestOK
<1>11. GoogleOK' /\ RestOK'
  BY <1>1, <1>10 DEF IdentityInv, GoogleOK, Vouched, RestOK
<1>12. \A v \in Users : subject[v] # NONE => subject'[v] = subject[v]
  BY <1>1, <1>4 DEF IdentityInv, SubjectOK
<1> QED
  BY <1>5, <1>7, <1>8, <1>10, <1>11, <1>12 DEF IdentityInv

\* No sign-in under way is with an address that moves.
LEMMA AddressMovesKeeps ==
    ASSUME IdentityInv, NEW s \in Subjects, NEW a \in Addresses, AddressMoves(s, a)
    PROVE  IdentityInv' /\ UNCHANGED subject
<1>1. /\ moves < MaxMoves /\ moves' = moves + 1
      /\ \A z \in Subjects : google[z] # a
      /\ \A t \in Tabs : flow[t] # Idle => flow[t].address \notin {a, google[s]}
      /\ google' = [google EXCEPT ![s] = a]
      /\ UNCHANGED <<role, active, audit, req, email, subject, linked, flow>>
  BY DEF AddressMoves, accountVars
<1>2. RacesTypeOK' /\ TargetsExist'
  BY <1>1 DEF IdentityInv, RacesTypeOK, TypeOK, TargetsExist, Exists
<1>3. EmailOK' /\ Unshared(email)'
  BY <1>1 DEF IdentityInv, EmailOK, Unshared, Exists
<1>4. SubjectOK' /\ Unshared(subject)'
  BY <1>1 DEF IdentityInv, SubjectOK, HoldersExist, Unshared, Exists
<1>5. GoogleOK'
  <2>1. google' \in [Subjects -> Addresses \cup {NONE}]
    BY <1>1 DEF IdentityInv, GoogleOK
  <2>2. Vouched'
    BY <1>1 DEF IdentityInv, GoogleOK, Vouched
  <2> QED
    BY <2>1, <2>2 DEF GoogleOK
<1>6. FlowsSound'
  <2>1. SUFFICES ASSUME NEW t \in Tabs, flow[t] # Idle, SoundNow(flow[t])
                 PROVE  Sound(flow[t], email', subject', google')
    BY <1>1 DEF IdentityInv, FlowsSound, SoundNow
  <2>2. flow[t].address # google[s] /\ flow[t].subject \in Subjects \cup {NONE}
    BY <1>1, <2>1, FlowFields DEF SoundNow, Sound
  <2>3. flow[t].subject # NONE => flow[t].subject # s
    BY <2>1, <2>2 DEF SoundNow, Sound
  <2> QED
    BY <1>1, <2>1, <2>2, <2>3, NoAddress DEF SoundNow, Sound, IdentityInv, GoogleOK
<1>7. RestOK'
  <2>1. moves' \in 0 .. MaxMoves
    BY <1>1, IdentityAssumption DEF IdentityInv, RestOK
  <2> QED
    BY <1>1, <2>1 DEF IdentityInv, RestOK
<1> QED
  BY <1>1, <1>2, <1>3, <1>4, <1>5, <1>6, <1>7 DEF IdentityInv

\* An administrator makes no account and takes none away.
LEMMA AdminKeepsAccounts ==
    ASSUME RacesTypeOK, TargetsExist, AdminStep
    PROVE  \A u \in Users : Exists(u)' <=> Exists(u)
<1>1. ASSUME NEW r \in Requests, Commit(r)
      PROVE  \A u \in Users : Exists(u)' <=> Exists(u)
  <2> DEFINE q == req[r]
  <2>1. q \in InFlight /\ WriteColumn(q) /\ Exists(q.target) /\ q.target \in Users
    BY <1>1, BusySlot, InFlightSteps DEF Commit, TargetsExist
  <2> HIDE DEF q
  <2>2. CASE q.change.column = "role"
    <3>1. q.change.value \in Roles /\ role' = [role EXCEPT ![q.target] = q.change.value]
      BY <2>1, <2>2, InFlightSteps, ChangeValues DEF WriteColumn
    <3> QED
      BY <2>1, <3>1, AccountsAssumption DEF Exists, RacesTypeOK, TypeOK
  <2>3. CASE q.change.column # "role"
    BY <2>1, <2>3 DEF WriteColumn, Exists
  <2> QED
    BY <2>2, <2>3
<1>2. UNCHANGED accountVars => \A u \in Users : Exists(u)' <=> Exists(u)
  BY DEF accountVars, Exists
<1> QED
  BY <1>1, <1>2 DEF AdminStep, Authenticate, LoadTarget, CountAdmins, Abandon

LEMMA AdminKeeps ==
    ASSUME IdentityInv, AdminStep
    PROVE  IdentityInv' /\ UNCHANGED subject
<1>1. UNCHANGED <<email, subject, linked, google, flow, moves>>
  BY DEF AdminStep, identityVars
<1>2. RacesTypeOK' /\ TargetsExist'
  BY RacesKeep DEF AdminStep, RacesNext, IdentityInv
<1>3. \A u \in Users : Exists(u)' <=> Exists(u)
  BY AdminKeepsAccounts DEF IdentityInv
<1>4. EmailOK' /\ Unshared(email)'
  BY <1>1, <1>3 DEF IdentityInv, EmailOK, Unshared
<1>5. SubjectOK' /\ Unshared(subject)'
  BY <1>1, <1>3 DEF IdentityInv, SubjectOK, HoldersExist, Unshared
<1>6. FlowsSound'
  BY <1>1 DEF IdentityInv, FlowsSound, SoundNow
<1>7. GoogleOK' /\ RestOK'
  BY <1>1 DEF IdentityInv, GoogleOK, Vouched, RestOK
<1> QED
  BY <1>1, <1>2, <1>4, <1>5, <1>6, <1>7 DEF IdentityInv

-----------------------------------------------------------------------------
LEMMA IdentityInitInv == IdentityInit => IdentityInv
<1> SUFFICES ASSUME IdentityInit PROVE IdentityInv
  OBVIOUS
<1>1. RacesTypeOK /\ TargetsExist
  BY RacesInitType DEF IdentityInit, RacesInit, TargetsExist, Idle
<1>2. EmailOK /\ Unshared(email) /\ Unshared(subject)
  BY DEF IdentityInit, EmailOK
<1>3. SubjectOK
  BY IdentityAssumption DEF IdentityInit, SubjectOK, HoldersExist
<1>4. GoogleOK
  BY IdentityAssumption DEF IdentityInit, GoogleOK, Vouched
<1>5. FlowsSound
  BY DEF IdentityInit, FlowsSound
<1>6. RestOK
  BY IdentityAssumption DEF IdentityInit, RestOK
<1> QED
  BY <1>1, <1>2, <1>3, <1>4, <1>5, <1>6 DEF IdentityInv

Bound == \A u \in Users : subject[u] # NONE => subject'[u] = subject[u]

LEMMA IdentityStep == IdentityInv /\ [IdentityNext]_allVars => IdentityInv' /\ Bound
<1> SUFFICES ASSUME IdentityInv, [IdentityNext]_allVars PROVE IdentityInv' /\ Bound
  OBVIOUS
<1>1. UNCHANGED subject => Bound
  BY DEF Bound
<1>2. ASSUME NEW t \in Tabs, NEW a \in Addresses, StartRegistration(t, a)
      PROVE  IdentityInv' /\ Bound
  BY <1>1, <1>2, RegistrationStarts DEF StartRegistration, Reading
<1>3. ASSUME NEW t \in Tabs, NEW s \in Subjects, Callback(t, s)
      PROVE  IdentityInv' /\ Bound
  BY <1>1, <1>3, CallbackKeeps, SMTT(60) DEF Callback, Reading
<1>4. ASSUME NEW t \in Tabs, FindSubject(t) \/ FindClash(t) \/ FindAddress(t)
      PROVE  IdentityInv' /\ Bound
  BY <1>1, <1>4, LookupsKeep DEF FindSubject, FindClash, FindAddress, Reading
<1>5. ASSUME NEW t \in Tabs, FollowAddress(t) PROVE IdentityInv' /\ Bound
  BY <1>1, <1>5, FollowKeeps
<1>6. ASSUME NEW t \in Tabs, Link(t) PROVE IdentityInv' /\ Bound
  BY <1>6, LinkKeeps DEF Bound
<1>7. ASSUME NEW t \in Tabs, GiveUp(t) PROVE IdentityInv' /\ Bound
  BY <1>1, <1>7, ReadingKeeps DEF GiveUp, Reading
<1>8. ASSUME NEW t \in Tabs, NEW u \in Users, Create(t, u) PROVE IdentityInv' /\ Bound
  BY <1>8, CreateKeeps DEF Bound
<1>9. ASSUME NEW s \in Subjects, NEW a \in Addresses, AddressMoves(s, a)
      PROVE  IdentityInv' /\ Bound
  BY <1>1, <1>9, AddressMovesKeeps
<1>10. AdminStep => IdentityInv' /\ Bound
  BY <1>1, AdminKeeps
<1>11. ASSUME UNCHANGED allVars PROVE IdentityInv' /\ Bound
  <2>1. UNCHANGED <<role, active, audit, req, email, subject, linked, google, flow, moves>>
    BY <1>11 DEF allVars
  <2>2. RacesTypeOK' /\ TargetsExist'
    BY <2>1 DEF IdentityInv, RacesTypeOK, TypeOK, TargetsExist, Exists
  <2>3. EmailOK' /\ Unshared(email)' /\ SubjectOK' /\ Unshared(subject)'
    BY <2>1 DEF IdentityInv, EmailOK, SubjectOK, HoldersExist, Unshared, Exists
  <2>4. GoogleOK' /\ FlowsSound' /\ RestOK'
    BY <2>1 DEF IdentityInv, GoogleOK, Vouched, FlowsSound, SoundNow, RestOK
  <2> QED
    BY <1>1, <2>1, <2>2, <2>3, <2>4 DEF IdentityInv
<1> QED
  BY <1>2, <1>3, <1>4, <1>5, <1>6, <1>7, <1>8, <1>9, <1>10, <1>11 DEF IdentityNext

LEMMA InvImplies == IdentityInv => OneAccountPerIdentity
  BY DEF IdentityInv, OneAccountPerIdentity, IdentityTypeOK, EmailOK, SubjectOK, GoogleOK,
         FlowsSound, SoundNow, Sound, RestOK

(***************************************************************************)
(* However sign-ins, registrations and the administrators' requests        *)
(* overlap, no two accounts share an address or a Google identity          *)
(* (resolve_google_user and create_user in user_service.py).               *)
(***************************************************************************)
THEOREM NoAccountIsForked == IdentitySpec => []OneAccountPerIdentity
  BY IdentityInitInv, IdentityStep, InvImplies, PTL DEF IdentitySpec

(***************************************************************************)
(* And a Google identity is never taken from the account it is bound to:   *)
(* a flow that links has seen the account without a subject, and another   *)
(* flow that links the same account is one of the same identity.           *)
(***************************************************************************)
THEOREM IdentityIsBoundForGood == IdentitySpec => BoundForGood
<1>1. IdentityInv /\ [IdentityNext]_allVars => [Bound]_allVars
  BY IdentityStep
<1>2. IdentitySpec => [][Bound]_allVars
  BY <1>1, IdentityInitInv, IdentityStep, PTL DEF IdentitySpec
<1> QED
  BY <1>2 DEF BoundForGood, Bound

=============================================================================
