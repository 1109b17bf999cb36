------------------------------ MODULE Accounts ------------------------------
(***************************************************************************)
(* Roles and activation of accounts, with the account audit trail:         *)
(* app/services/user_service.py behind app/api/admin_users.py and the      *)
(* registration endpoint.  Every request is one atomic step here; module   *)
(* AdminRaces takes the requests apart.                                    *)
(*                                                                         *)
(* role[u] = NONE means that account u does not exist yet.                 *)
(***************************************************************************)
EXTENDS IncidentRules, Sequences

CONSTANTS
    Users,           \* account ids
    ScriptCallers,   \* accounts a seeding script or management command acts as
    MaxAudit         \* bound: length of the audit trail

ASSUME AccountsAssumption ==
    /\ ScriptCallers \subseteq Users
    /\ NONE \notin Users
    /\ NONE \notin Roles \cup {"ACTIVE", "INACTIVE"}
    /\ MaxAudit \in Nat

VARIABLES
    role,     \* users.role
    active,   \* users.is_active
    audit     \* user_audit_log, in id order

accountVars == <<role, active, audit>>

AuditActions == {"USER_REGISTERED", "USER_ROLE_CHANGED", "USER_STATUS_CHANGED"}
AuditValues  == Roles \cup {"ACTIVE", "INACTIVE", NONE}

AuditEvent == [action : AuditActions, actor : Users \cup {NONE}, target : Users,
               old : AuditValues, new : AuditValues]

TypeOK ==
    /\ role \in [Users -> Roles \cup {NONE}]
    /\ active \in [Users -> BOOLEAN]
    /\ audit \in Seq(AuditEvent)

-----------------------------------------------------------------------------
(***************************************************************************)
(* create_demo_data seeds accounts without audit rows, an administrator    *)
(* among them; everybody else has yet to register.                         *)
(***************************************************************************)
Init ==
    /\ role \in [Users -> Roles \cup {NONE}]
    /\ \E u \in Users : role[u] = "ADMIN"
    /\ active = [u \in Users |-> role[u] # NONE]
    /\ audit = <<>>

Exists(u) == role[u] # NONE

\* MUTANT: the activation is checked at login only
Authenticated_LoginOnly(u) == Exists(u)

\* get_current_user: a token is honoured only while its account is active.
Authenticated(u) == Exists(u) /\ active[u]

\* require_admin
RequireAdmin(u) == Authenticated(u) /\ role[u] = "ADMIN"

\* MUTANT: deactivated administrators count too
ActiveAdminsExcept_AllRows(x) == {u \in Users \ {x} : role[u] = "ADMIN"}

\* The accounts count_active_admins(exclude_user_id) counts.
ActiveAdminsExcept(x) == {u \in Users \ {x} : role[u] = "ADMIN" /\ active[u]}

StatusWord(flag) == IF flag THEN "ACTIVE" ELSE "INACTIVE"

\* user_audit_service.record, in the transaction of the change it describes
Record(action, actor, target, old, new) ==
    /\ Len(audit) < MaxAudit
    /\ audit' = Append(audit, [action |-> action, actor |-> actor, target |-> target,
                               old |-> old, new |-> new])

-----------------------------------------------------------------------------
(***************************************************************************)
(* The services.  A refused call and a call that changes nothing write     *)
(* nothing, so neither is a step.                                          *)
(***************************************************************************)
CreateUser(u) ==
    /\ ~Exists(u)
    /\ role' = [role EXCEPT ![u] = "USER"]
    /\ active' = [active EXCEPT ![u] = TRUE]
    /\ Record("USER_REGISTERED", NONE, u, NONE, "USER")

\* MUTANT: old_value is read from the row after the assignment
SetUserRole_OldReadLate(actor, target, new) ==
    /\ actor # target
    /\ Exists(target)
    /\ role[target] # new
    /\ role[target] = "ADMIN" => ActiveAdminsExcept(target) # {}
    /\ role' = [role EXCEPT ![target] = new]
    /\ Record("USER_ROLE_CHANGED", actor, target, new, new)
    /\ UNCHANGED active

SetUserRole(actor, target, new) ==
    /\ actor # target
    /\ Exists(target)
    /\ role[target] # new
    /\ role[target] = "ADMIN" => ActiveAdminsExcept(target) # {}
    /\ role' = [role EXCEPT ![target] = new]
    /\ Record("USER_ROLE_CHANGED", actor, target, role[target], new)
    /\ UNCHANGED active

\* MUTANT: old and new value of the status row are swapped
SetUserActive_Swapped(actor, target, flag) ==
    /\ actor # target
    /\ Exists(target)
    /\ active[target] # flag
    /\ (~flag /\ role[target] = "ADMIN") => ActiveAdminsExcept(target) # {}
    /\ active' = [active EXCEPT ![target] = flag]
    /\ Record("USER_STATUS_CHANGED", actor, target, StatusWord(flag), StatusWord(~flag))
    /\ UNCHANGED role

SetUserActive(actor, target, flag) ==
    /\ actor # target
    /\ Exists(target)
    /\ active[target] # flag
    /\ (~flag /\ role[target] = "ADMIN") => ActiveAdminsExcept(target) # {}
    /\ active' = [active EXCEPT ![target] = flag]
    /\ Record("USER_STATUS_CHANGED", actor, target, StatusWord(~flag), StatusWord(flag))
    /\ UNCHANGED role

\* POST /auth/register
Register(u) == CreateUser(u)

\* PATCH /admin/users/{id}/role
ChangeRole(actor, target, new) ==
    /\ RequireAdmin(actor)
    /\ SetUserRole(actor, target, new)

\* PATCH /admin/users/{id}/status
ChangeStatus(actor, target, flag) ==
    /\ RequireAdmin(actor)
    /\ SetUserActive(actor, target, flag)

(***************************************************************************)
(* A caller that is not a request reaches the services without             *)
(* require_admin (the caller set_user_role's docstring provides for).      *)
(***************************************************************************)
ScriptChangeRole(actor, target, new) ==
    /\ actor \in ScriptCallers
    /\ Exists(actor)
    /\ SetUserRole(actor, target, new)

ScriptChangeStatus(actor, target, flag) ==
    /\ actor \in ScriptCallers
    /\ Exists(actor)
    /\ SetUserActive(actor, target, flag)

Next ==
    \/ \E u \in Users : Register(u)
    \/ \E a, t \in Users, r \in Roles : ChangeRole(a, t, r)
    \/ \E a, t \in Users, f \in BOOLEAN : ChangeStatus(a, t, f)
    \/ \E a, t \in Users, r \in Roles : ScriptChangeRole(a, t, r)
    \/ \E a, t \in Users, f \in BOOLEAN : ScriptChangeStatus(a, t, f)

Spec == Init /\ [][Next]_accountVars

-----------------------------------------------------------------------------
\* The rows of the trail about account u that carry a role, and those that
\* carry its activation.
RoleRows(u) ==
    {k \in DOMAIN audit : /\ audit[k].target = u
                          /\ audit[k].action \in {"USER_REGISTERED", "USER_ROLE_CHANGED"}}
StatusRows(u) ==
    {k \in DOMAIN audit : audit[k].target = u /\ audit[k].action = "USER_STATUS_CHANGED"}

\* Row k of the trail is the last of the set of rows S before row n.
IsLastBefore(k, S, n) == k \in S /\ k < n /\ \A m \in S : m < n => m <= k

(***************************************************************************)
(* The lockout invariant of user_service.py: whatever sequence of role and *)
(* activation changes is carried out, by administrators or by scripts, an  *)
(* administrator who can sign in remains.                                  *)
(***************************************************************************)
ActiveAdminRemains == \E u \in Users : role[u] = "ADMIN" /\ active[u]

(***************************************************************************)
(* The audit trail explains every account: the last role a trail row gives *)
(* an account is the role it has, and the same for its activation; an      *)
(* account no row ever (de)activated is active.                            *)
(***************************************************************************)
AuditExplainsAccounts ==
    \A u \in Users :
        /\ \A k \in DOMAIN audit :
              IsLastBefore(k, RoleRows(u), Len(audit) + 1) => audit[k].new = role[u]
        /\ \A k \in DOMAIN audit :
              IsLastBefore(k, StatusRows(u), Len(audit) + 1)
                  => audit[k].new = StatusWord(active[u])
        /\ (StatusRows(u) = {} /\ Exists(u)) => active[u]

(***************************************************************************)
(* The trail is gapless: the old value of a row is the new value of the    *)
(* row before it about the same column of the same account.                *)
(***************************************************************************)
AuditIsAChain ==
    \A u \in Users : \A S \in {RoleRows(u), StatusRows(u)} : \A j, k \in S :
        IsLastBefore(j, S, k) => audit[k].old = audit[j].new

(***************************************************************************)
(* Read alone, the trail shows that every change was authorised when it    *)
(* was made: the last role row about the actor before it says ADMIN and    *)
(* the last status row says ACTIVE (an actor with no such row was seeded). *)
(* Scripts answer to nobody.                                               *)
(***************************************************************************)
AuditAuthorisesChanges ==
    \A k \in DOMAIN audit :
        LET a == audit[k].actor IN
        a \notin ScriptCallers \cup {NONE} =>
            /\ \A j \in RoleRows(a)   : IsLastBefore(j, RoleRows(a), k)
                                            => audit[j].new = "ADMIN"
            /\ \A j \in StatusRows(a) : IsLastBefore(j, StatusRows(a), k)
                                            => audit[j].new = "ACTIVE"

=============================================================================
