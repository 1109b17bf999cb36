--------------------------- MODULE AccountsProofs ---------------------------
(***************************************************************************)
(* Proofs about Accounts, for any set of accounts, any set of script       *)
(* callers and any bound on the trail.                                     *)
(***************************************************************************)
EXTENDS Accounts, TLAPS

(***************************************************************************)
(* What each service may change.  The two lemmas that follow are all the   *)
(* later proofs need to know about the services.                           *)
(***************************************************************************)
LEMMA RecordAppendsEvent ==
    ASSUME TypeOK,
           NEW action \in AuditActions, NEW actor \in Users \cup {NONE},
           NEW target \in Users, NEW old \in AuditValues, NEW new \in AuditValues,
           Record(action, actor, target, old, new)
    PROVE  audit' \in Seq(AuditEvent)
<1>1. [action |-> action, actor |-> actor, target |-> target,
       old |-> old, new |-> new] \in AuditEvent
  BY DEF AuditEvent
<1>2. audit \in Seq(AuditEvent)
  BY DEF TypeOK
<1> QED
  BY <1>1, <1>2 DEF Record

LEMMA CreateUserType ==
    ASSUME TypeOK, NEW u \in Users, CreateUser(u)
    PROVE  TypeOK'
<1>1. audit' \in Seq(AuditEvent)
  <2>1. Record("USER_REGISTERED", NONE, u, NONE, "USER")
    BY DEF CreateUser
  <2> QED
    BY <2>1, RecordAppendsEvent DEF AuditActions, AuditValues, Roles
<1> QED
  BY <1>1 DEF TypeOK, CreateUser, Roles

LEMMA SetUserRoleType ==
    ASSUME TypeOK, NEW a \in Users, NEW t \in Users, NEW r \in Roles,
           SetUserRole(a, t, r)
    PROVE  TypeOK'
<1>1. audit' \in Seq(AuditEvent)
  <2>1. Record("USER_ROLE_CHANGED", a, t, role[t], r)
    BY DEF SetUserRole
  <2>2. role[t] \in AuditValues
    BY DEF TypeOK, AuditValues
  <2> QED
    BY <2>1, <2>2, RecordAppendsEvent DEF AuditActions, AuditValues
<1> QED
  BY <1>1 DEF TypeOK, SetUserRole

LEMMA SetUserActiveType ==
    ASSUME TypeOK, NEW a \in Users, NEW t \in Users, NEW f \in BOOLEAN,
           SetUserActive(a, t, f)
    PROVE  TypeOK'
<1>1. audit' \in Seq(AuditEvent)
  <2>1. Record("USER_STATUS_CHANGED", a, t, StatusWord(~f), StatusWord(f))
    BY DEF SetUserActive
  <2>2. StatusWord(~f) \in AuditValues /\ StatusWord(f) \in AuditValues
    BY DEF StatusWord, AuditValues
  <2> QED
    BY <2>1, <2>2, RecordAppendsEvent DEF AuditActions
<1> QED
  BY <1>1 DEF TypeOK, SetUserActive

-----------------------------------------------------------------------------
LEMMA AccountsTypeStep == TypeOK /\ [Next]_accountVars => TypeOK'
<1> SUFFICES ASSUME TypeOK, [Next]_accountVars PROVE TypeOK'
  OBVIOUS
<1>1. ASSUME NEW u \in Users, Register(u) PROVE TypeOK'
  BY <1>1, CreateUserType DEF Register
<1>2. ASSUME NEW a \in Users, NEW t \in Users, NEW r \in Roles,
             ChangeRole(a, t, r) \/ ScriptChangeRole(a, t, r)
      PROVE  TypeOK'
  BY <1>2, SetUserRoleType DEF ChangeRole, ScriptChangeRole
<1>3. ASSUME NEW a \in Users, NEW t \in Users, NEW f \in BOOLEAN,
             ChangeStatus(a, t, f) \/ ScriptChangeStatus(a, t, f)
      PROVE  TypeOK'
  BY <1>3, SetUserActiveType DEF ChangeStatus, ScriptChangeStatus
<1>4. CASE UNCHANGED accountVars
  BY <1>4 DEF accountVars, TypeOK
<1> QED
  BY <1>1, <1>2, <1>3, <1>4 DEF Next

LEMMA AccountsInitType == Init => TypeOK
<1> SUFFICES ASSUME Init PROVE TypeOK
  OBVIOUS
<1>1. audit \in Seq(AuditEvent)
  BY DEF Init
<1> QED
  BY <1>1 DEF Init, TypeOK

(***************************************************************************)
(* Every value of the state is one the columns of users and user_audit_log *)
(* can hold.                                                               *)
(***************************************************************************)
THEOREM AccountsTypeCorrect == Spec => []TypeOK
  BY AccountsInitType, AccountsTypeStep, PTL DEF Spec

(***************************************************************************)
(* The lockout invariant, for administrators and scripts alike.  A witness *)
(* survives each step: the one from before if it was not the target, else  *)
(* a member of the set the guard found non-empty.                          *)
(***************************************************************************)
THEOREM ActiveAdminAlwaysRemains == Spec => []ActiveAdminRemains
<1>1. Init => ActiveAdminRemains
  BY AccountsAssumption DEF Init, ActiveAdminRemains, Roles
<1>2. TypeOK /\ ActiveAdminRemains /\ [Next]_accountVars => ActiveAdminRemains'
  <2> SUFFICES ASSUME TypeOK, ActiveAdminRemains, [Next]_accountVars
               PROVE  ActiveAdminRemains'
    OBVIOUS
  <2>1. ASSUME NEW u \in Users, CreateUser(u) PROVE ActiveAdminRemains'
    <3>1. PICK w \in Users : role[w] = "ADMIN" /\ active[w]
      BY DEF ActiveAdminRemains
    <3>2. w # u
      BY <2>1, <3>1, AccountsAssumption DEF CreateUser, Exists, Roles
    <3> QED
      BY <2>1, <3>1, <3>2 DEF CreateUser, TypeOK, ActiveAdminRemains
  <2>2. ASSUME NEW a \in Users, NEW t \in Users, NEW r \in Roles, SetUserRole(a, t, r)
        PROVE  ActiveAdminRemains'
    <3>1. \E w \in Users \ {t} : role[w] = "ADMIN" /\ active[w]
      <4>1. CASE role[t] = "ADMIN"
        BY <2>2, <4>1 DEF SetUserRole, ActiveAdminsExcept
      <4>2. CASE role[t] # "ADMIN"
        BY <4>2 DEF ActiveAdminRemains
      <4> QED
        BY <4>1, <4>2
    <3> QED
      BY <2>2, <3>1 DEF SetUserRole, TypeOK, ActiveAdminRemains
  <2>3. ASSUME NEW a \in Users, NEW t \in Users, NEW f \in BOOLEAN, SetUserActive(a, t, f)
        PROVE  ActiveAdminRemains'
    <3>1. CASE f
      BY <2>3, <3>1 DEF SetUserActive, TypeOK, ActiveAdminRemains
    <3>2. CASE ~f
      <4>1. \E w \in Users \ {t} : role[w] = "ADMIN" /\ active[w]
        BY <2>3, <3>2 DEF SetUserActive, ActiveAdminsExcept, ActiveAdminRemains
      <4> QED
        BY <2>3, <4>1 DEF SetUserActive, TypeOK, ActiveAdminRemains
    <3> QED
      BY <3>1, <3>2
  <2>4. CASE UNCHANGED accountVars
    BY <2>4 DEF accountVars, ActiveAdminRemains
  <2> QED
    BY <2>1, <2>2, <2>3, <2>4
    DEF Next, Register, ChangeRole, ChangeStatus, ScriptChangeRole, ScriptChangeStatus
<1> QED
  BY <1>1, <1>2, AccountsTypeCorrect, PTL DEF Spec

-----------------------------------------------------------------------------
(***************************************************************************)
(* The audit trail.  A row speaks of the role or of the activation of its  *)
(* target; Explained adds to AuditExplainsAccounts that an account that    *)
(* does not exist was never (de)activated.                                 *)
(***************************************************************************)
IsRoleRow(e, u) == e.target = u /\ e.action \in {"USER_REGISTERED", "USER_ROLE_CHANGED"}
IsStatusRow(e, u) == e.target = u /\ e.action = "USER_STATUS_CHANGED"

\* The last row of S says v.
Says(S, v) == \A k \in DOMAIN audit : IsLastBefore(k, S, Len(audit) + 1) => audit[k].new = v

Explained ==
    \A u \in Users :
        /\ Says(RoleRows(u), role[u])
        /\ Says(StatusRows(u), StatusWord(active[u]))
        /\ StatusRows(u) = {} /\ Exists(u) => active[u]
        /\ ~Exists(u) => StatusRows(u) = {}

LEMMA ExplainedImplies == Explained => AuditExplainsAccounts
  BY DEF Explained, Says, AuditExplainsAccounts

LEMMA AppendedTrail ==
    ASSUME audit \in Seq(AuditEvent), NEW e \in AuditEvent, audit' = Append(audit, e)
    PROVE  /\ DOMAIN audit = 1 .. Len(audit) /\ Len(audit) \in Nat
           /\ DOMAIN audit' = 1 .. Len(audit) + 1
           /\ Len(audit') = Len(audit) + 1
           /\ \A k \in DOMAIN audit : audit'[k] = audit[k]
           /\ audit'[Len(audit) + 1] = e
  OBVIOUS

\* Which rows speak of an account once e is appended.
LEMMA AppendedRows ==
    ASSUME audit \in Seq(AuditEvent), NEW e \in AuditEvent, audit' = Append(audit, e),
           NEW u \in Users
    PROVE  /\ RoleRows(u) \subseteq DOMAIN audit /\ StatusRows(u) \subseteq DOMAIN audit
           /\ RoleRows(u)' = IF IsRoleRow(e, u) THEN RoleRows(u) \cup {Len(audit) + 1}
                                                ELSE RoleRows(u)
           /\ StatusRows(u)' = IF IsStatusRow(e, u) THEN StatusRows(u) \cup {Len(audit) + 1}
                                                    ELSE StatusRows(u)
<1> USE AppendedTrail
<1>1. RoleRows(u) \subseteq DOMAIN audit /\ StatusRows(u) \subseteq DOMAIN audit
  BY DEF RoleRows, StatusRows
<1>2. \A k : k \in DOMAIN audit' <=> k \in DOMAIN audit \/ k = Len(audit) + 1
  OBVIOUS
<1>3. Len(audit) + 1 \notin DOMAIN audit
  OBVIOUS
<1>4. \A k \in DOMAIN audit' : audit'[k] = IF k = Len(audit) + 1 THEN e ELSE audit[k]
  BY <1>2, <1>3
<1>5. RoleRows(u)' = {k \in DOMAIN audit' : IsRoleRow(audit'[k], u)}
  BY DEF RoleRows, IsRoleRow
<1>6. StatusRows(u)' = {k \in DOMAIN audit' : IsStatusRow(audit'[k], u)}
  BY DEF StatusRows, IsStatusRow
<1>7. RoleRows(u) = {k \in DOMAIN audit : IsRoleRow(audit[k], u)}
  BY DEF RoleRows, IsRoleRow
<1>8. StatusRows(u) = {k \in DOMAIN audit : IsStatusRow(audit[k], u)}
  BY DEF StatusRows, IsStatusRow
<1> QED
  BY ONLY <1>1, <1>2, <1>3, <1>4, <1>5, <1>6, <1>7, <1>8

\* Rows that e is not one of go on saying what they said; else e has the say.
LEMMA AppendedSays ==
    ASSUME audit \in Seq(AuditEvent), NEW e \in AuditEvent, audit' = Append(audit, e),
           NEW S, S \subseteq DOMAIN audit
    PROVE  /\ \A v : Says(S, v) =>
                 \A k \in DOMAIN audit' :
                    IsLastBefore(k, S, Len(audit') + 1) => audit'[k].new = v
           /\ \A k \in DOMAIN audit' :
                 IsLastBefore(k, S \cup {Len(audit) + 1}, Len(audit') + 1)
                    => audit'[k].new = e.new
<1> USE AppendedTrail
<1>1. ASSUME NEW v, Says(S, v), NEW k \in DOMAIN audit', IsLastBefore(k, S, Len(audit') + 1)
      PROVE  audit'[k].new = v
  <2>1. k \in DOMAIN audit
    BY <1>1 DEF IsLastBefore
  <2>2. IsLastBefore(k, S, Len(audit) + 1)
    BY <1>1, <2>1 DEF IsLastBefore
  <2> QED
    BY <1>1, <2>1, <2>2 DEF Says
<1>2. ASSUME NEW k \in DOMAIN audit',
             IsLastBefore(k, S \cup {Len(audit) + 1}, Len(audit') + 1)
      PROVE  audit'[k].new = e.new
  <2>1. k = Len(audit) + 1
    BY <1>2 DEF IsLastBefore
  <2> QED
    BY <2>1
<1> QED
  BY <1>1, <1>2

(***************************************************************************)
(* Three ways to write an account keep the trail explained: a new role, a  *)
(* new activation and a new account.  Module AdminRacesProofs uses them    *)
(* too: none of them looks at what else is going on.                       *)
(***************************************************************************)
LEMMA ExplainedRole ==
    ASSUME TypeOK, Explained, NEW a \in Users \cup {NONE}, NEW t \in Users,
           NEW old \in AuditValues, NEW new \in Roles, Exists(t),
           role' = [role EXCEPT ![t] = new], active' = active,
           Record("USER_ROLE_CHANGED", a, t, old, new)
    PROVE  Explained'
<1> DEFINE e == [action |-> "USER_ROLE_CHANGED", actor |-> a, target |-> t,
                 old |-> old, new |-> new]
<1>1. audit \in Seq(AuditEvent) /\ audit' = Append(audit, e)
  BY DEF Record, TypeOK
<1>2. e \in AuditEvent
  BY DEF AuditEvent, AuditActions, AuditValues
<1> SUFFICES ASSUME NEW u \in Users
             PROVE  /\ Says(RoleRows(u), role[u])'
                    /\ Says(StatusRows(u), StatusWord(active[u]))'
                    /\ (StatusRows(u) = {} /\ Exists(u) => active[u])'
                    /\ (~Exists(u) => StatusRows(u) = {})'
  BY DEF Explained
<1>3. StatusRows(u)' = StatusRows(u) /\ StatusRows(u) \subseteq DOMAIN audit
  BY <1>1, <1>2, AppendedRows DEF IsStatusRow
<1>4. Says(StatusRows(u), StatusWord(active[u]))'
  <2>1. Says(StatusRows(u), StatusWord(active[u]))
    BY DEF Explained
  <2>2. \A k \in DOMAIN audit' : IsLastBefore(k, StatusRows(u), Len(audit') + 1)
                                    => audit'[k].new = StatusWord(active[u])
    BY <1>1, <1>2, <1>3, <2>1, AppendedSays, ZenonT(60)
  <2> QED
    BY <1>3, <2>2 DEF Says, StatusWord, IsLastBefore
<1>5. CASE u = t
  <2>1. RoleRows(u)' = RoleRows(u) \cup {Len(audit) + 1} /\ RoleRows(u) \subseteq DOMAIN audit
    BY <1>1, <1>2, <1>5, AppendedRows DEF IsRoleRow
  <2>2. \A k \in DOMAIN audit' : IsLastBefore(k, RoleRows(u)', Len(audit') + 1)
                                    => audit'[k].new = new
    <3> HIDE DEF e
    <3>1. \A k \in DOMAIN audit' :
             IsLastBefore(k, RoleRows(u) \cup {Len(audit) + 1}, Len(audit') + 1)
                => audit'[k].new = e.new
      BY <1>1, <1>2, <2>1, AppendedSays
    <3> QED
      BY <2>1, <3>1 DEF e
  <2>3. role'[u] = new /\ role[t] # NONE /\ new # NONE
    BY <1>5, AccountsAssumption DEF TypeOK, Exists
  <2> QED
    BY <1>3, <1>4, <1>5, <2>2, <2>3 DEF Says, IsLastBefore, Explained, Exists
<1>6. CASE u # t
  <2>1. RoleRows(u)' = RoleRows(u) /\ RoleRows(u) \subseteq DOMAIN audit
    BY <1>1, <1>2, <1>6, AppendedRows DEF IsRoleRow
  <2>2. Says(RoleRows(u), role[u])
    BY DEF Explained
  <2>3. \A k \in DOMAIN audit' : IsLastBefore(k, RoleRows(u), Len(audit') + 1)
                                    => audit'[k].new = role[u]
    BY <1>1, <1>2, <2>1, <2>2, AppendedSays
  <2>4. role'[u] = role[u]
    BY <1>6 DEF TypeOK
  <2> QED
    BY <1>3, <1>4, <2>1, <2>3, <2>4 DEF Says, IsLastBefore, Explained, Exists
<1> QED
  BY <1>5, <1>6

LEMMA ExplainedActive ==
    ASSUME TypeOK, Explained, NEW a \in Users \cup {NONE}, NEW t \in Users,
           NEW old \in AuditValues, NEW f \in BOOLEAN, Exists(t),
           active' = [active EXCEPT ![t] = f], role' = role,
           Record("USER_STATUS_CHANGED", a, t, old, StatusWord(f))
    PROVE  Explained'
<1> DEFINE e == [action |-> "USER_STATUS_CHANGED", actor |-> a, target |-> t,
                 old |-> old, new |-> StatusWord(f)]
<1>1. audit \in Seq(AuditEvent) /\ audit' = Append(audit, e)
  BY DEF Record, TypeOK
<1>2. e \in AuditEvent
  BY DEF AuditEvent, AuditActions, AuditValues, StatusWord
<1> SUFFICES ASSUME NEW u \in Users
             PROVE  /\ Says(RoleRows(u), role[u])'
                    /\ Says(StatusRows(u), StatusWord(active[u]))'
                    /\ (StatusRows(u) = {} /\ Exists(u) => active[u])'
                    /\ (~Exists(u) => StatusRows(u) = {})'
  BY DEF Explained
<1>3. RoleRows(u)' = RoleRows(u) /\ RoleRows(u) \subseteq DOMAIN audit
  BY <1>1, <1>2, AppendedRows DEF IsRoleRow
<1>4. Says(RoleRows(u), role[u])'
  <2>1. Says(RoleRows(u), role[u])
    BY DEF Explained
  <2>2. \A k \in DOMAIN audit' : IsLastBefore(k, RoleRows(u), Len(audit') + 1)
                                    => audit'[k].new = role[u]
    BY <1>1, <1>2, <1>3, <2>1, AppendedSays
  <2> QED
    BY <1>3, <2>2 DEF Says, IsLastBefore
<1>5. CASE u = t
  <2>1. StatusRows(u)' = StatusRows(u) \cup {Len(audit) + 1}
        /\ StatusRows(u) \subseteq DOMAIN audit
    BY <1>1, <1>2, <1>5, AppendedRows DEF IsStatusRow
  <2>2. \A k \in DOMAIN audit' : IsLastBefore(k, StatusRows(u)', Len(audit') + 1)
                                    => audit'[k].new = StatusWord(f)
    <3> HIDE DEF e
    <3>1. \A k \in DOMAIN audit' :
             IsLastBefore(k, StatusRows(u) \cup {Len(audit) + 1}, Len(audit') + 1)
                => audit'[k].new = e.new
      BY <1>1, <1>2, <2>1, AppendedSays
    <3> QED
      BY <2>1, <3>1 DEF e
  <2>3. active'[u] = f /\ Exists(u)'
    BY <1>5 DEF TypeOK, Exists
  <2> QED
    BY <1>4, <2>1, <2>2, <2>3 DEF Says, IsLastBefore, StatusWord
<1>6. CASE u # t
  <2>1. StatusRows(u)' = StatusRows(u) /\ StatusRows(u) \subseteq DOMAIN audit
    BY <1>1, <1>2, <1>6, AppendedRows DEF IsStatusRow
  <2>2. Says(StatusRows(u), StatusWord(active[u]))
    BY DEF Explained
  <2>3. \A k \in DOMAIN audit' : IsLastBefore(k, StatusRows(u), Len(audit') + 1)
                                    => audit'[k].new = StatusWord(active[u])
    BY <1>1, <1>2, <2>1, <2>2, AppendedSays, ZenonT(60)
  <2>4. active'[u] = active[u]
    BY <1>6 DEF TypeOK
  <2> QED
    BY <1>4, <2>1, <2>3, <2>4 DEF Says, IsLastBefore, StatusWord, Explained, Exists
<1> QED
  BY <1>5, <1>6

LEMMA ExplainedNewAccount ==
    ASSUME TypeOK, Explained, NEW t \in Users, CreateUser(t)
    PROVE  Explained'
<1> DEFINE e == [action |-> "USER_REGISTERED", actor |-> NONE, target |-> t,
                 old |-> NONE, new |-> "USER"]
<1>1. audit \in Seq(AuditEvent) /\ audit' = Append(audit, e)
  BY DEF Record, TypeOK, CreateUser
<1>2. e \in AuditEvent
  BY DEF AuditEvent, AuditActions, AuditValues, Roles
<1> SUFFICES ASSUME NEW u \in Users
             PROVE  /\ Says(RoleRows(u), role[u])'
                    /\ Says(StatusRows(u), StatusWord(active[u]))'
                    /\ (StatusRows(u) = {} /\ Exists(u) => active[u])'
                    /\ (~Exists(u) => StatusRows(u) = {})'
  BY DEF Explained
<1>3. StatusRows(u)' = StatusRows(u) /\ StatusRows(u) \subseteq DOMAIN audit
  BY <1>1, <1>2, AppendedRows DEF IsStatusRow
<1>4. CASE u = t
  <2>1. RoleRows(u)' = RoleRows(u) \cup {Len(audit) + 1} /\ RoleRows(u) \subseteq DOMAIN audit
    BY <1>1, <1>2, <1>4, AppendedRows DEF IsRoleRow
  <2>2. \A k \in DOMAIN audit' : IsLastBefore(k, RoleRows(u)', Len(audit') + 1)
                                    => audit'[k].new = "USER"
    <3> HIDE DEF e
    <3>1. \A k \in DOMAIN audit' :
             IsLastBefore(k, RoleRows(u) \cup {Len(audit) + 1}, Len(audit') + 1)
                => audit'[k].new = e.new
      BY <1>1, <1>2, <2>1, AppendedSays
    <3> QED
      BY <2>1, <3>1 DEF e
  <2>3. StatusRows(u) = {}
    BY <1>4 DEF CreateUser, Explained
  <2>4. role'[u] = "USER" /\ active'[u]
    BY <1>4 DEF TypeOK, CreateUser
  <2> QED
    BY <1>3, <2>2, <2>3, <2>4 DEF Says, IsLastBefore
<1>5. CASE u # t
  <2>1. RoleRows(u)' = RoleRows(u) /\ RoleRows(u) \subseteq DOMAIN audit
    BY <1>1, <1>2, <1>5, AppendedRows DEF IsRoleRow
  <2>2. role'[u] = role[u] /\ active'[u] = active[u]
    BY <1>5 DEF TypeOK, CreateUser
  <2>3. \A k \in DOMAIN audit' : IsLastBefore(k, RoleRows(u), Len(audit') + 1)
                                    => audit'[k].new = role[u]
    BY <1>1, <1>2, <2>1, AppendedSays DEF Explained
  <2>4. \A k \in DOMAIN audit' : IsLastBefore(k, StatusRows(u), Len(audit') + 1)
                                    => audit'[k].new = StatusWord(active[u])
    BY <1>1, <1>2, <1>3, AppendedSays, ZenonT(60) DEF Explained
  <2> QED
    BY <1>3, <2>1, <2>2, <2>3, <2>4 DEF Says, IsLastBefore, StatusWord, Explained, Exists
<1> QED
  BY <1>4, <1>5

LEMMA ExplainedStep == TypeOK /\ Explained /\ [Next]_accountVars => Explained'
<1> SUFFICES ASSUME TypeOK, Explained, [Next]_accountVars PROVE Explained'
  OBVIOUS
<1>1. ASSUME NEW a \in Users, NEW t \in Users, NEW r \in Roles, SetUserRole(a, t, r)
      PROVE  Explained'
  <2>1. role[t] \in AuditValues
    BY DEF TypeOK, AuditValues
  <2> QED
    BY <1>1, <2>1, ExplainedRole DEF SetUserRole
<1>2. ASSUME NEW a \in Users, NEW t \in Users, NEW f \in BOOLEAN, SetUserActive(a, t, f)
      PROVE  Explained'
  <2>1. StatusWord(~f) \in AuditValues
    BY DEF StatusWord, AuditValues
  <2> QED
    BY <1>2, <2>1, ExplainedActive DEF SetUserActive
<1>3. CASE UNCHANGED accountVars
  BY <1>3 DEF accountVars, Explained, Says, IsLastBefore, RoleRows, StatusRows, Exists,
              StatusWord
<1> QED
  BY <1>1, <1>2, <1>3, ExplainedNewAccount
  DEF Next, Register, ChangeRole, ChangeStatus, ScriptChangeRole, ScriptChangeStatus

LEMMA ExplainedInit == Init => Explained
<1> SUFFICES ASSUME Init PROVE Explained
  OBVIOUS
<1>1. \A u \in Users : RoleRows(u) = {} /\ StatusRows(u) = {}
  BY DEF Init, RoleRows, StatusRows
<1> QED
  BY <1>1 DEF Init, Explained, Says, IsLastBefore, Exists

(***************************************************************************)
(* The audit trail explains every account, however long it is.             *)
(***************************************************************************)
THEOREM TrailExplainsAccounts == Spec => []AuditExplainsAccounts
  BY ExplainedInit, ExplainedStep, ExplainedImplies, AccountsTypeCorrect, PTL DEF Spec

-----------------------------------------------------------------------------
(***************************************************************************)
(* The order of the trail.  A row is appended with the old value that the  *)
(* rows before it say, and by an actor whom they say to be an active       *)
(* administrator: both follow from Explained, and appending disturbs no    *)
(* pair of earlier rows.                                                   *)
(***************************************************************************)
Chained(S) == \A j, k \in S : IsLastBefore(j, S, k) => audit[k].old = audit[j].new

Chain == \A u \in Users : Chained(RoleRows(u)) /\ Chained(StatusRows(u))

\* The rows before row k say v, if any of S does.
SaidBefore(S, k, v) == \A j \in S : IsLastBefore(j, S, k) => audit[j].new = v

LEMMA ChainImplies == Chain => AuditIsAChain
  BY DEF Chain, Chained, AuditIsAChain

\* Pairs of earlier rows stay as they are; e continues what the rows of S said.
LEMMA AppendedChain ==
    ASSUME audit \in Seq(AuditEvent), NEW e \in AuditEvent, audit' = Append(audit, e),
           NEW S, S \subseteq DOMAIN audit, Chained(S),
           NEW T, T = S \/ (T = S \cup {Len(audit) + 1} /\ Says(S, e.old))
    PROVE  \A j, k \in T : IsLastBefore(j, T, k) => audit'[k].old = audit'[j].new
<1> SUFFICES ASSUME NEW j \in T, NEW k \in T, IsLastBefore(j, T, k)
             PROVE  audit'[k].old = audit'[j].new
  OBVIOUS
<1> USE AppendedTrail
<1>1. S \subseteq T /\ j < k /\ j \in S
  BY DEF IsLastBefore
<1>2. CASE k \in S
  <2>1. IsLastBefore(j, S, k)
    BY <1>1 DEF IsLastBefore
  <2> QED
    BY <1>1, <1>2, <2>1 DEF Chained
<1>3. CASE k \notin S
  <2>1. k = Len(audit) + 1 /\ Says(S, e.old)
    BY <1>3
  <2>2. IsLastBefore(j, S, Len(audit) + 1)
    BY <1>1, <2>1 DEF IsLastBefore
  <2>3. audit[j].new = e.old
    BY <1>1, <2>1, <2>2 DEF Says
  <2> QED
    BY <1>1, <2>1, <2>3
<1> QED
  BY <1>2, <1>3

\* A row that tells its old value truly, by an actor who may
LEMMA AppendedSound ==
    ASSUME TypeOK, Explained, Chain, AuditAuthorisesChanges,
           NEW e \in AuditEvent, audit' = Append(audit, e),
           \A u \in Users : IsRoleRow(e, u) => e.old = role[u],
           \A u \in Users : IsStatusRow(e, u) => e.old = StatusWord(active[u]),
           e.actor \in ScriptCallers \cup {NONE} \/ RequireAdmin(e.actor)
    PROVE  Chain' /\ AuditAuthorisesChanges'
<1>1. audit \in Seq(AuditEvent)
  BY DEF TypeOK
<1>2. ASSUME NEW u \in Users
      PROVE  /\ RoleRows(u) \subseteq DOMAIN audit /\ StatusRows(u) \subseteq DOMAIN audit
             /\ RoleRows(u)' = IF IsRoleRow(e, u) THEN RoleRows(u) \cup {Len(audit) + 1}
                                                  ELSE RoleRows(u)
             /\ StatusRows(u)' = IF IsStatusRow(e, u) THEN StatusRows(u) \cup {Len(audit) + 1}
                                                      ELSE StatusRows(u)
             /\ Says(RoleRows(u), role[u]) /\ Says(StatusRows(u), StatusWord(active[u]))
  BY <1>1, AppendedRows DEF Explained
<1>3. Chain'
  <2> SUFFICES ASSUME NEW u \in Users PROVE Chained(RoleRows(u))' /\ Chained(StatusRows(u))'
    BY DEF Chain
  <2>1. Chained(RoleRows(u)) /\ Chained(StatusRows(u))
    BY DEF Chain
  <2>2. \A j, k \in RoleRows(u)' :
           IsLastBefore(j, RoleRows(u)', k) => audit'[k].old = audit'[j].new
    BY <1>1, <1>2, <2>1, AppendedChain
  <2>3. \A j, k \in StatusRows(u)' :
           IsLastBefore(j, StatusRows(u)', k) => audit'[k].old = audit'[j].new
    BY <1>1, <1>2, <2>1, AppendedChain
  <2> QED
    BY <2>2, <2>3 DEF Chained, IsLastBefore
<1>4. ASSUME NEW k \in DOMAIN audit', NEW a, audit'[k].actor = a,
             a \notin ScriptCallers \cup {NONE}
      PROVE  /\ \A j \in RoleRows(a)' : IsLastBefore(j, RoleRows(a)', k) => audit'[j].new = "ADMIN"
             /\ \A j \in StatusRows(a)' :
                   IsLastBefore(j, StatusRows(a)', k) => audit'[j].new = "ACTIVE"
  <2>1. k \in DOMAIN audit \/ k = Len(audit) + 1
    BY <1>1, AppendedTrail
  <2>2. /\ a \in Users
        /\ k \in DOMAIN audit => /\ SaidBefore(RoleRows(a), k, "ADMIN")
                                 /\ SaidBefore(StatusRows(a), k, "ACTIVE")
        /\ k = Len(audit) + 1 => Says(RoleRows(a), "ADMIN") /\ Says(StatusRows(a), "ACTIVE")
    <3>1. CASE k \in DOMAIN audit
      <4>1. audit'[k] = audit[k] /\ audit[k] \in AuditEvent /\ k # Len(audit) + 1
        BY <1>1, <3>1, AppendedTrail
      <4>2. a \in Users /\ a = audit[k].actor
        BY <1>4, <4>1 DEF AuditEvent
      <4> QED
        BY <1>4, <3>1, <4>1, <4>2 DEF AuditAuthorisesChanges, SaidBefore
    <3>2. CASE k = Len(audit) + 1
      <4>1. audit'[k] = e /\ k \notin DOMAIN audit
        BY <1>1, <3>2, AppendedTrail
      <4>2. a \in Users /\ role[a] = "ADMIN" /\ active[a]
        BY <1>4, <4>1 DEF RequireAdmin, Authenticated, AuditEvent
      <4> QED
        BY <1>2, <4>1, <4>2 DEF StatusWord
    <3> QED
      BY <2>1, <3>1, <3>2
  <2>3. ASSUME NEW j \in RoleRows(a)', IsLastBefore(j, RoleRows(a)', k) PROVE audit'[j].new = "ADMIN"
    <3>1. RoleRows(a) \subseteq RoleRows(a)' /\ RoleRows(a)' \subseteq RoleRows(a) \cup {Len(audit) + 1}
      BY <1>2, <2>2
    <3>2. j \in RoleRows(a) /\ j \in DOMAIN audit
      BY <1>1, <1>2, <2>1, <2>2, <2>3, <3>1, AppendedTrail DEF IsLastBefore
    <3>3. IsLastBefore(j, RoleRows(a), k) /\ audit'[j] = audit[j]
      BY <1>1, <2>3, <3>1, <3>2, AppendedTrail DEF IsLastBefore
    <3> QED
      BY <2>1, <2>2, <3>2, <3>3 DEF SaidBefore, Says
  <2>4. ASSUME NEW j \in StatusRows(a)', IsLastBefore(j, StatusRows(a)', k) PROVE audit'[j].new = "ACTIVE"
    <3>1. StatusRows(a) \subseteq StatusRows(a)' /\ StatusRows(a)' \subseteq StatusRows(a) \cup {Len(audit) + 1}
      BY <1>2, <2>2
    <3>2. j \in StatusRows(a) /\ j \in DOMAIN audit
      BY <1>1, <1>2, <2>1, <2>2, <2>4, <3>1, AppendedTrail DEF IsLastBefore
    <3>3. IsLastBefore(j, StatusRows(a), k) /\ audit'[j] = audit[j]
      BY <1>1, <2>4, <3>1, <3>2, AppendedTrail DEF IsLastBefore
    <3> QED
      BY <2>1, <2>2, <3>2, <3>3 DEF SaidBefore, Says
  <2> QED
    BY <2>3, <2>4
<1>5. AuditAuthorisesChanges'
  BY <1>4, SMTT(60) DEF AuditAuthorisesChanges, IsLastBefore, RoleRows, StatusRows
<1> QED
  BY <1>3, <1>5

LEMMA OrderStep ==
    ASSUME TypeOK, Explained, Chain, AuditAuthorisesChanges, [Next]_accountVars
    PROVE  Chain' /\ AuditAuthorisesChanges'
<1>1. ASSUME NEW u \in Users, CreateUser(u) PROVE Chain' /\ AuditAuthorisesChanges'
  <2> DEFINE e == [action |-> "USER_REGISTERED", actor |-> NONE, target |-> u,
                   old |-> NONE, new |-> "USER"]
  <2>1. e \in AuditEvent /\ audit' = Append(audit, e)
    BY <1>1 DEF CreateUser, Record, AuditEvent, AuditActions, AuditValues, Roles
  <2>2. role[u] = NONE
    BY <1>1 DEF CreateUser, Exists
  <2>3. /\ \A v \in Users : IsRoleRow(e, v) => e.old = role[v]
        /\ \A v \in Users : IsStatusRow(e, v) => e.old = StatusWord(active[v])
        /\ e.actor = NONE
    BY <2>2 DEF IsRoleRow, IsStatusRow
  <2> HIDE DEF e
  <2> QED
    BY <2>1, <2>3, AppendedSound
<1>2. ASSUME NEW a \in Users, NEW t \in Users, NEW r \in Roles, SetUserRole(a, t, r),
             a \in ScriptCallers \/ RequireAdmin(a)
      PROVE  Chain' /\ AuditAuthorisesChanges'
  <2> DEFINE e == [action |-> "USER_ROLE_CHANGED", actor |-> a, target |-> t,
                   old |-> role[t], new |-> r]
  <2>1. e \in AuditEvent /\ audit' = Append(audit, e)
    BY <1>2 DEF SetUserRole, Record, AuditEvent, AuditActions, AuditValues, TypeOK
  <2>2. /\ \A v \in Users : IsRoleRow(e, v) => e.old = role[v]
        /\ \A v \in Users : IsStatusRow(e, v) => e.old = StatusWord(active[v])
        /\ e.actor = a
    BY DEF IsRoleRow, IsStatusRow
  <2> HIDE DEF e
  <2> QED
    BY <1>2, <2>1, <2>2, AppendedSound
<1>3. ASSUME NEW a \in Users, NEW t \in Users, NEW f \in BOOLEAN, SetUserActive(a, t, f),
             a \in ScriptCallers \/ RequireAdmin(a)
      PROVE  Chain' /\ AuditAuthorisesChanges'
  <2> DEFINE e == [action |-> "USER_STATUS_CHANGED", actor |-> a, target |-> t,
                   old |-> StatusWord(~f), new |-> StatusWord(f)]
  <2>1. e \in AuditEvent /\ audit' = Append(audit, e)
    BY <1>3 DEF SetUserActive, Record, AuditEvent, AuditActions, AuditValues, StatusWord
  <2>2. active[t] = ~f
    BY <1>3 DEF SetUserActive, TypeOK
  <2>3. /\ \A v \in Users : IsRoleRow(e, v) => e.old = role[v]
        /\ \A v \in Users : IsStatusRow(e, v) => e.old = StatusWord(active[v])
        /\ e.actor = a
    BY <2>2 DEF IsRoleRow, IsStatusRow, StatusWord
  <2> HIDE DEF e
  <2> QED
    BY <1>3, <2>1, <2>3, AppendedSound
<1>4. CASE UNCHANGED accountVars
  BY <1>4 DEF accountVars, Chain, Chained, AuditAuthorisesChanges, IsLastBefore, RoleRows,
              StatusRows
<1> QED
  BY <1>1, <1>2, <1>3, <1>4
  DEF Next, Register, ChangeRole, ChangeStatus, ScriptChangeRole, ScriptChangeStatus

LEMMA OrderInit == Init => Chain /\ AuditAuthorisesChanges
<1> SUFFICES ASSUME Init PROVE Chain /\ AuditAuthorisesChanges
  OBVIOUS
<1>1. DOMAIN audit = {}
  BY DEF Init
<1> QED
  BY <1>1 DEF Chain, Chained, RoleRows, StatusRows, AuditAuthorisesChanges

LEMMA OrderInv == Spec => [](Chain /\ AuditAuthorisesChanges)
<1>1. TypeOK /\ Explained /\ Chain /\ AuditAuthorisesChanges /\ [Next]_accountVars
        => Chain' /\ AuditAuthorisesChanges'
  BY OrderStep
<1> QED
  BY <1>1, OrderInit, ExplainedInit, ExplainedStep, AccountsTypeCorrect, PTL DEF Spec

(***************************************************************************)
(* The trail has no gap: each row takes up where the last one about the    *)
(* same column of the account left off.                                    *)
(***************************************************************************)
THEOREM TrailHasNoGap == Spec => []AuditIsAChain
  BY OrderInv, ChainImplies, PTL

(***************************************************************************)
(* The trail shows every change over HTTP to be by somebody who was an     *)
(* active administrator when it was made.                                  *)
(***************************************************************************)
THEOREM TrailAuthorisesChanges == Spec => []AuditAuthorisesChanges
  BY OrderInv, PTL
=============================================================================
