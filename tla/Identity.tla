------------------------------ MODULE Identity ------------------------------
(***************************************************************************)
(* Which account a person gets: registration with a password and sign-in   *)
(* with Google (app/api/auth.py, resolve_google_user and create_user in    *)
(* app/services/user_service.py), next to the administrators' requests of  *)
(* AdminRaces.  Every request has its own READ COMMITTED transaction: it   *)
(* looks accounts up first and writes later, and only the UNIQUE indexes   *)
(* on the address and the Google subject are checked when it writes.       *)
(*                                                                         *)
(* A password sign-in writes nothing but last_login_at and is no step      *)
(* here.  Google is external: it vouches for one address per subject.      *)
(***************************************************************************)
EXTENDS AdminRaces, FiniteSets

CONSTANTS
    Addresses,    \* email addresses, as normalize_email leaves them
    Subjects,     \* Google's sub claims
    Known,        \* those that have signed in before
    FirstGoogle,  \* the address of each Google account at first, NONE without one
    Tabs,         \* browser tabs in which somebody signs in or registers
    MaxOverlap,   \* bound: requests of either kind under way together
    MaxMoves      \* bound: changes of a Google account's address

ASSUME IdentityAssumption ==
    /\ NONE \notin Addresses \cup Subjects \cup Tabs
    /\ Known \subseteq Subjects
    /\ FirstGoogle \in [Subjects -> Addresses \cup {NONE}]
    /\ \A s, z \in Subjects : FirstGoogle[s] = FirstGoogle[z] => s = z \/ FirstGoogle[s] = NONE
    /\ MaxOverlap \in Nat \ {0} /\ MaxMoves \in Nat

VARIABLES
    email,     \* users.email
    subject,   \* users.google_subject_id
    linked,    \* accounts with a GOOGLE_ACCOUNT_LINKED row in user_audit_log
    google,    \* the verified address of each Google account
    flow,      \* the sign-in or registration in each tab
    moves      \* address changes so far

identityVars == <<email, subject, linked, google, flow, moves>>
allVars == <<role, active, audit, req, email, subject, linked, google, flow, moves>>

FlowSteps == {"verified", "known", "following", "unknown", "linking", "creating"}
Flows == [step : FlowSteps, address : Addresses, subject : Subjects \cup {NONE},
          user : Users \cup {NONE}]

UnderWay == Cardinality({t \in Tabs : flow[t] # Idle} \cup {r \in Requests : req[r] # Idle})

WithAddress(a) == {u \in Users : a # NONE /\ email[u] = a}
WithSubject(s) == {u \in Users : s # NONE /\ subject[u] = s}

\* A column with a UNIQUE index: no two accounts share a value of it.
Unshared(column) ==
    \A u, v \in Users : column[u] = column[v] => u = v \/ column[u] = NONE

IdentityInit ==
    /\ RacesInit
    /\ email \in [Users -> Addresses \cup {NONE}]
    /\ \A u \in Users : (email[u] = NONE) <=> ~Exists(u)
    /\ Unshared(email)
    /\ subject \in [Users -> Known \cup {NONE}]
    /\ \A u \in Users : subject[u] # NONE => Exists(u)
    /\ Unshared(subject)
    /\ \A s \in Known : WithSubject(s) # {}
    /\ linked = {}
    /\ google = FirstGoogle
    /\ flow = [t \in Tabs |-> Idle]
    /\ moves = 0

-----------------------------------------------------------------------------
Go(t, f) == flow' = [flow EXCEPT ![t] = f]

\* A step of a request that has written nothing yet
Reading(t, f) ==
    /\ Go(t, f)
    /\ UNCHANGED <<accountVars, req, email, subject, linked, google, moves>>

\* MUTANT: the indexes are gone, the lookups are all there is
Free_NoIndex(u, a, s) == TRUE

\* The UNIQUE indexes on users: no other account may have the value.
Free(u, a, s) == WithAddress(a) \cup WithSubject(s) \subseteq {u}

(***************************************************************************)
(* POST /auth/register: the address is looked up (409 when it is taken),   *)
(* then create_user inserts.                                               *)
(***************************************************************************)
StartRegistration(t, a) ==
    /\ flow[t] = Idle /\ UnderWay < MaxOverlap
    /\ WithAddress(a) = {}
    /\ Reading(t, [step |-> "creating", address |-> a, subject |-> NONE, user |-> NONE])

\* GET /auth/google/callback: the identity Google vouches for now
Callback(t, s) ==
    /\ flow[t] = Idle /\ UnderWay < MaxOverlap
    /\ google[s] # NONE
    /\ Reading(t, [step |-> "verified", address |-> google[s], subject |-> s, user |-> NONE])

\* 1. The account that has the subject; without one, 2. is next.
FindSubject(t) ==
    LET f == flow[t] IN
    /\ f.step = "verified"
    /\ IF WithSubject(f.subject) = {}
       THEN Reading(t, [f EXCEPT !.step = "unknown"])
       ELSE \E u \in WithSubject(f.subject) :
               Reading(t, IF email[u] = f.address THEN Idle
                          ELSE [f EXCEPT !.step = "known", !.user = u])

\* The new address of a known account is kept, unless somebody has it.
FindClash(t) ==
    LET f == flow[t] IN
    /\ f.step = "known"
    /\ Reading(t, IF WithAddress(f.address) = {} THEN [f EXCEPT !.step = "following"] ELSE Idle)

\* MUTANT: an account bound to another subject is linked all the same
FindAddress_Rebinds(t) ==
    LET f == flow[t] IN
    /\ f.step = "unknown"
    /\ IF WithAddress(f.address) = {}
       THEN Reading(t, [f EXCEPT !.step = "creating"])
       ELSE \E u \in WithAddress(f.address) :
               Reading(t, [f EXCEPT !.step = "linking", !.user = u])

\* 2. The account that has the address, refused when it has another subject;
\* without one, 3. a new account.
FindAddress(t) ==
    LET f == flow[t] IN
    /\ f.step = "unknown"
    /\ IF WithAddress(f.address) = {}
       THEN Reading(t, [f EXCEPT !.step = "creating"])
       ELSE \E u \in WithAddress(f.address) :
               Reading(t, IF subject[u] \in {NONE, f.subject}
                          THEN [f EXCEPT !.step = "linking", !.user = u] ELSE Idle)

\* A write that an index refuses ends in an error: nothing of it is kept.
FollowAddress(t) ==
    LET f == flow[t] IN
    /\ f.step = "following"
    /\ Free(f.user, f.address, NONE)
    /\ email' = [email EXCEPT ![f.user] = f.address]
    /\ Go(t, Idle)
    /\ UNCHANGED <<accountVars, req, subject, linked, google, moves>>

\* MUTANT: the commit restores the role of new sign-ins along with the subject
Link_ResetsRole(t) ==
    LET f == flow[t] IN
    /\ f.step = "linking"
    /\ Free(f.user, NONE, f.subject)
    /\ subject' = [subject EXCEPT ![f.user] = f.subject]
    /\ linked' = linked \cup {f.user}
    /\ role' = [role EXCEPT ![f.user] = "USER"]
    /\ Go(t, Idle)
    /\ UNCHANGED <<active, audit, req, email, google, moves>>

Link(t) ==
    LET f == flow[t] IN
    /\ f.step = "linking"
    /\ Free(f.user, NONE, f.subject)
    /\ subject' = [subject EXCEPT ![f.user] = f.subject]
    /\ linked' = linked \cup {f.user}
    /\ Go(t, Idle)
    /\ UNCHANGED <<accountVars, req, email, google, moves>>

\* The INSERT and the USER_REGISTERED row
Create(t, u) ==
    LET f == flow[t] IN
    /\ f.step = "creating"
    /\ Free(u, f.address, f.subject)
    /\ Register(u)
    /\ email' = [email EXCEPT ![u] = f.address]
    /\ subject' = [subject EXCEPT ![u] = f.subject]
    /\ Go(t, Idle)
    /\ UNCHANGED <<req, linked, google, moves>>

\* An index refuses the write, Google does not answer, or the server stops.
GiveUp(t) ==
    /\ flow[t] # Idle
    /\ Reading(t, Idle)

(***************************************************************************)
(* A Google account gets another address, which may be one that another    *)
(* Google account had before; not while a sign-in with either is under     *)
(* way.                                                                    *)
(***************************************************************************)
AddressMoves(s, a) ==
    /\ moves < MaxMoves /\ moves' = moves + 1
    /\ \A z \in Subjects : google[z] # a
    /\ \A t \in Tabs : flow[t] # Idle => flow[t].address \notin {a, google[s]}
    /\ google' = [google EXCEPT ![s] = a]
    /\ UNCHANGED <<accountVars, req, email, subject, linked, flow>>

AdminStep ==
    /\ \/ /\ UnderWay < MaxOverlap
          /\ \E r \in Requests, a, t \in Users, c \in Changes : Authenticate(r, a, t, c)
       \/ \E r \in Requests : LoadTarget(r) \/ CountAdmins(r) \/ Commit(r) \/ Abandon(r)
    /\ UNCHANGED identityVars

IdentityNext ==
    \/ \E t \in Tabs, a \in Addresses : StartRegistration(t, a)
    \/ \E t \in Tabs, s \in Subjects : Callback(t, s)
    \/ \E t \in Tabs : FindSubject(t) \/ FindClash(t) \/ FindAddress(t)
    \/ \E t \in Tabs : FollowAddress(t) \/ Link(t) \/ GiveUp(t)
    \/ \E t \in Tabs, u \in Users : Create(t, u)
    \/ \E s \in Subjects, a \in Addresses : AddressMoves(s, a)
    \/ AdminStep

IdentitySpec == IdentityInit /\ [][IdentityNext]_allVars

-----------------------------------------------------------------------------
\* Types; an account has an address exactly when it exists.
IdentityTypeOK ==
    /\ RacesTypeOK
    /\ email \in [Users -> Addresses \cup {NONE}]
    /\ \A u \in Users : (email[u] = NONE) <=> ~Exists(u)
    /\ subject \in [Users -> Subjects \cup {NONE}]
    /\ linked \subseteq Users
    /\ google \in [Subjects -> Addresses \cup {NONE}]
    /\ \A t \in Tabs : flow[t] = Idle \/ flow[t] \in Flows
    /\ moves \in 0 .. MaxMoves

(***************************************************************************)
(* However sign-ins and registrations overlap, no two accounts share an    *)
(* address or a Google identity: nobody's account is forked.  And the state  *)
(* is typed.                                                               *)
(***************************************************************************)
OneAccountPerIdentity ==
    /\ IdentityTypeOK
    /\ Unshared(email)
    /\ Unshared(subject)

(***************************************************************************)
(* A Google identity is never taken from the account it is bound to: step  *)
(* 2 of resolve_google_user "only ever attaches a sub to a row that has    *)
(* none".                                                                  *)
(***************************************************************************)
BoundForGood ==
    [][\A u \in Users : subject[u] # NONE => subject'[u] = subject[u]]_allVars

(***************************************************************************)
(* To the administrators' side a sign-in is at most a registration: it     *)
(* changes no role and no activation, and a new account is a USER.  Seen   *)
(* without addresses and subjects, Identity is AdminRaces.                 *)
(***************************************************************************)
ImplementsRaces == RacesSpec
=============================================================================
