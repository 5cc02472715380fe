------------------------------- MODULE SignIn -------------------------------
(***************************************************************************)
(* Accounts and sessions of agentserver: registration, login by password   *)
(* or through an identity provider, the session of one browser, roles, and *)
(* the anonymization of an account. A step is a statement or transaction   *)
(* on the database; reads whose order does not matter are taken together.  *)
(* Who is a member of the tenant workspace on whose subdomain a visit      *)
(* arrives is left open, and so is the login's active workspace. (The      *)
(* workspace that a new user gets is founded like those of Workspaces.)    *)
(***************************************************************************)
EXTENDS Integers, FiniteSets

CONSTANTS
    Visits,         \* browsers, one request of each at a time
    Emails,
    Subjects,       \* users of the identity provider
    NoSubject,
    MaxAccounts     \* bound: rows of users

ASSUME SignInAssumption ==
    /\ NoSubject \notin Subjects /\ MaxAccounts \in Nat
    /\ Emails \cap {"none", "scrubbed"} = {}

VARIABLES
    userRow,    \* the rows of users, of which none is ever deleted
    identity,   \* oidc_identities: the account of each subject, 0 for none
    visit,      \* per browser: the request
    login,      \* per browser: the row of its token
    founders    \* accounts that became admin by having been counted

accountVars == <<userRow, identity, founders>>
signInVars == <<accountVars, visit, login>>

Ids == 1..MaxAccounts
NoAccount == [email |-> "none", admin |-> FALSE, password |-> FALSE]
Existing == {a \in Ids : userRow[a].email # "none"}
NextId == CHOOSE a \in Ids \ Existing : \A b \in Ids \ Existing : a <= b
OfEmail(e) == {a \in Ids : userRow[a].email = e}

NoVisit == [pc |-> "idle", email |-> "none", subject |-> NoSubject, user |-> 0,
            tenant |-> FALSE]
NoLogin == [user |-> 0, subject |-> NoSubject, late |-> FALSE]

SignInInit ==
    /\ userRow = [a \in Ids |-> NoAccount] /\ identity = [s \in Subjects |-> 0]
    /\ founders = {}
    /\ visit = [v \in Visits |-> NoVisit] /\ login = [v \in Visits |-> NoLogin]

Go(v, pc) == visit' = [visit EXCEPT ![v].pc = pc]
GoAs(v, pc, a) == visit' = [visit EXCEPT ![v].pc = pc, ![v].user = a]
Quit(v) == visit' = [visit EXCEPT ![v] = NoVisit]

-----------------------------------------------------------------------------
(* Who it is *)

\* handleRegister; a wish for an address that is taken ends here.
RegisterUser(v, e) ==
    /\ visit[v].pc = "idle" /\ login[v].user = 0 /\ OfEmail(e) = {}
    /\ visit' = [visit EXCEPT ![v] = [NoVisit EXCEPT !.pc = "create", !.email = e]]
    /\ UNCHANGED <<accountVars, login>>

\* Auth.Login up to the comparison of the passwords, on either host.
Login(v, a, tenant) ==
    /\ visit[v].pc = "idle" /\ login[v].user = 0
    /\ userRow[a].email \in Emails /\ userRow[a].password
    /\ visit' = [visit EXCEPT ![v] = [NoVisit EXCEPT !.pc = "token", !.user = a,
                                                     !.tenant = tenant]]
    /\ UNCHANGED <<accountVars, login>>

\* HandleCallback and the first lookup of resolveUser. A provider may give no
\* address, and another one than last time.
OidcCallback(v, s, e, tenant) ==
    /\ visit[v].pc = "idle" /\ login[v].user = 0
    /\ identity[s] # 0 \/ e # "none"
    /\ visit' = [visit EXCEPT ![v] =
          [pc |-> IF identity[s] # 0 THEN "token" ELSE "byEmail", email |-> e,
           subject |-> s, user |-> identity[s], tenant |-> tenant]]
    /\ UNCHANGED <<accountVars, login>>

GetUserByEmail(v) ==
    /\ visit[v].pc = "byEmail"
    /\ IF OfEmail(visit[v].email) = {} THEN Go(v, "create")
       ELSE \E a \in OfEmail(visit[v].email) : GoAs(v, "link", a)
    /\ UNCHANGED <<accountVars, login>>

\* CreateUser, CreateUserWithEmail: addresses are unique.
CreateUser(v) ==
    /\ visit[v].pc = "create" /\ Existing # Ids
    /\ OfEmail(visit[v].email) = {}
    /\ userRow' = [userRow EXCEPT ![NextId] =
          [email |-> visit[v].email, admin |-> FALSE,
           password |-> visit[v].subject = NoSubject]]
    /\ GoAs(v, "count", NextId)
    /\ UNCHANGED <<identity, founders, login>>

FirstUser == Cardinality(Existing) = 1

\* The role is not given when the count fails.
CountUsers(v) ==
    /\ visit[v].pc = "count"
    /\ \/ FirstUser /\ Go(v, "promote")
       \/ Go(v, "link")
    /\ UNCHANGED <<accountVars, login>>

\* The error of this UPDATE is ignored.
PromoteFirst(v) ==
    /\ visit[v].pc = "promote" /\ Go(v, "link")
    /\ \/ /\ userRow' = [userRow EXCEPT ![visit[v].user].admin = TRUE]
          /\ founders' = founders \cup {visit[v].user}
       \/ UNCHANGED <<userRow, founders>>
    /\ UNCHANGED <<identity, login>>

\* A registration ends without a session.
Registered(v) ==
    /\ visit[v].pc = "link" /\ visit[v].subject = NoSubject /\ Quit(v)
    /\ UNCHANGED <<accountVars, login>>

\* Mutant: a row that exists is no reason to stop.
InsertIfAbsent(v) ==
    LET s == visit[v].subject IN
    /\ visit[v].pc = "link" /\ s # NoSubject
    /\ identity' = IF identity[s] = 0 THEN [identity EXCEPT ![s] = visit[v].user]
                   ELSE identity
    /\ Go(v, "token")
    /\ UNCHANGED <<userRow, founders, login>>

\* A subject has one row: a second visit of its fails here.
CreateOIDCIdentity(v) ==
    LET s == visit[v].subject IN
    /\ visit[v].pc = "link" /\ s # NoSubject /\ identity[s] = 0
    /\ identity' = [identity EXCEPT ![s] = visit[v].user]
    /\ Go(v, "token")
    /\ UNCHANGED <<userRow, founders, login>>

\* A conflict or an error of the database: what was written stays.
VisitFails(v) ==
    /\ visit[v].pc \in {"byEmail", "create", "link", "token"} /\ Quit(v)
    /\ UNCHANGED <<accountVars, login>>

-----------------------------------------------------------------------------
(* The session *)

IssueToken(v) ==
    /\ visit[v].pc = "token"
    /\ login' = [login EXCEPT ![v] =
          [user |-> visit[v].user, subject |-> visit[v].subject,
           late |-> userRow[visit[v].user].email = "scrubbed"]]
    /\ IF visit[v].tenant THEN Go(v, "bind") ELSE Quit(v)
    /\ UNCHANGED accountVars

\* LoginWithWorkspace and HandleCallback on a subdomain: the workspace of the
\* host, the membership in it, SetTokenActiveWorkspace, which may find no row.
BindWorkspace(v) ==
    /\ visit[v].pc = "bind"
    /\ \/ login[v].user # 0 /\ Quit(v)
       \/ Go(v, "undo")
    /\ UNCHANGED <<accountVars, login>>

\* InvalidateToken after a refusal (whose failure leaves a row that no browser
\* knows), at a logout, or the end of the token's time.
InvalidateToken(v) ==
    /\ visit[v].pc = "undo" \/ (visit[v].pc = "idle" /\ login[v].user # 0)
    /\ login' = [login EXCEPT ![v] = NoLogin] /\ Quit(v)
    /\ UNCHANGED accountVars

-----------------------------------------------------------------------------
(* Administration *)

\* An admin asks, who is signed in (requireAdmin).
AdminAsks == \E v \in Visits : login[v].user # 0 /\ userRow[login[v].user].admin

UpdateUserRole(a) ==
    /\ AdminAsks /\ a \in Existing
    /\ userRow' = [userRow EXCEPT ![a].admin = ~@]
    /\ UNCHANGED <<identity, founders, visit, login>>

\* One transaction; it leaves the identities and the role. (The check for sole
\* owners is in module Workspaces.)
AnonymizeAccount(a) ==
    /\ AdminAsks /\ userRow[a].email \in Emails
    /\ userRow' = [userRow EXCEPT ![a].email = "scrubbed", ![a].password = FALSE]
    /\ login' = [v \in Visits |-> IF login[v].user = a THEN NoLogin ELSE login[v]]
    /\ UNCHANGED <<identity, founders, visit>>

SignInNext ==
    \/ \E v \in Visits :
          \/ \E e \in Emails : RegisterUser(v, e)
          \/ \E a \in Ids, t \in BOOLEAN : Login(v, a, t)
          \/ \E s \in Subjects, e \in Emails \cup {"none"}, t \in BOOLEAN :
                OidcCallback(v, s, e, t)
          \/ GetUserByEmail(v) \/ CreateUser(v) \/ CountUsers(v) \/ PromoteFirst(v)
          \/ Registered(v) \/ CreateOIDCIdentity(v) \/ VisitFails(v)
          \/ IssueToken(v) \/ BindWorkspace(v) \/ InvalidateToken(v)
    \/ \E a \in Ids : UpdateUserRole(a) \/ AnonymizeAccount(a)

SignInSpec == SignInInit /\ [][SignInNext]_signInVars

-----------------------------------------------------------------------------

SignInTypeOK ==
    /\ userRow \in [Ids -> [email : Emails \cup {"none", "scrubbed"},
                            admin : BOOLEAN, password : BOOLEAN]]
    /\ identity \in [Subjects -> 0..MaxAccounts]
    /\ founders \subseteq Ids
    /\ visit \in [Visits ->
          [pc : {"idle", "create", "byEmail", "link", "count", "promote", "token",
                 "bind", "undo"},
           email : Emails \cup {"none"}, subject : Subjects \cup {NoSubject},
           user : 0..MaxAccounts, tenant : BOOLEAN]]
    /\ login \in [Visits -> [user : 0..MaxAccounts, subject : Subjects \cup {NoSubject},
                               late : BOOLEAN]]

\* Whatever visits meet, fail half-way and are repeated: one account at most is
\* made admin without an admin (handleRegister, resolveUser); an address belongs
\* to one account; a session that an identity opened is one of the account that
\* the identity is linked to; and an anonymized account has no session but one
\* that was issued after the anonymization, by a login that had already checked
\* the password or by an identity, which AnonymizeUser does not unlink.
AccountsSound ==
    /\ Cardinality(founders) <= 1
    /\ \A e \in Emails : Cardinality(OfEmail(e)) <= 1
    /\ \A v \in Visits :
          LET s == login[v].subject IN
          /\ s # NoSubject => identity[s] = login[v].user
          /\ (login[v].user # 0 /\ userRow[login[v].user].email = "scrubbed")
                => login[v].late
===============================================================================
