--------------------------- MODULE Accounts_proofs ---------------------------
(***************************************************************************)
(* TLAPS proofs about Workspaces, Quotas, SignIn, AgentTasks and           *)
(* Automations: no creation and no invitation is left half done, creations *)
(* exceed a quota by less than their number, accounts, identities and      *)
(* sessions agree, what a poll takes no other takes, and an automation has *)
(* one run within its lease.                                               *)
(*                                                                         *)
(* The arguments: what an acceptance marks was joined before               *)
(* (JoinedFirst); a creation that has passed the count is counted itself   *)
(* (PassedBounded); a request under way knows an account that exists, and  *)
(* an identity that is linked keeps its account (VisitsKnown,              *)
(* LoginsKnown); what was taken is marked in the transaction that took it  *)
(* (TakenIsMarked); a run within its lease has the row of its automation   *)
(* locked (LeaseIsLock).                                                   *)
(***************************************************************************)
EXTENDS Workspaces, Quotas, SignIn, AgentTasks, Automations, FiniteSetTheorems,
        WellFoundedInduction, TLAPS

-----------------------------------------------------------------------------
(* Accounts, workspaces, members and invitations *)

\* The row is there from the first statement of the creation on; the row of one that was
\* undone never comes back, and took the invitations along.
FoundingKnown ==
    /\ founding = "none" <=> workspace.row = "none"
    /\ workspace.row = "gone" => \A u \in Users : invite[u] = "none"

\* An acceptance marks the invitation of a user who has joined, if it is still there.
JoinedFirst ==
    \A u \in Users : accepting[u] = "mark" =>
        members[u] # "none" \/ u \in left \/ workspace.row = "gone"

WorkspacesInv == WorkspacesTypeOK /\ FoundingKnown /\ JoinedFirst /\ NothingHalfDone

\* The chain that creates the workspace.
LEMMA FoundingStep ==
    ASSUME WorkspacesInv,
           \/ CreateWorkspace \/ AddOwner \/ EnsureNamespace \/ SetNamespace
           \/ AnswerFounder \/ FoundingFails \/ DefaultFoundingFails \/ DeleteNamespace
           \/ UndoFounding
    PROVE  WorkspacesInv'
<1>1. UNCHANGED <<account, erasing, left, accepting, deletion>>
  BY DEF CreateWorkspace, AddOwner, EnsureNamespace, SetNamespace, AnswerFounder,
         FoundingFails, DefaultFoundingFails, DeleteNamespace, UndoFounding, FoundingAt,
         inviteVars
<1>2. /\ founding' \in {"owner", "namespace", "name", "answer", "unname", "undo", "done",
                        "failed"}
      /\ cluster' \in BOOLEAN /\ undoFailed' \in BOOLEAN
  BY DEF WorkspacesInv, WorkspacesTypeOK, CreateWorkspace, AddOwner, EnsureNamespace,
         SetNamespace, AnswerFounder, FoundingFails, DefaultFoundingFails, DeleteNamespace,
         UndoFounding, FoundingAt
<1>3. CASE UndoFounding
  <2>1. CASE /\ workspace' = [row |-> "gone", named |-> FALSE]
             /\ members' = [u \in Users |-> "none"]
             /\ invite' = [u \in Users |-> "none"]
    BY <1>1, <1>2, <2>1
       DEF WorkspacesInv, WorkspacesTypeOK, FoundingKnown, JoinedFirst, NothingHalfDone,
           FailureLeavesNothing, InviteNotWasted
  <2>2. CASE undoFailed' = TRUE /\ UNCHANGED <<workspace, members, invite>>
    <3>1. workspace'.row # "none"
      BY <1>3, <2>2 DEF WorkspacesInv, FoundingKnown, UndoFounding
    <3> QED
      BY <1>1, <1>2, <2>2, <3>1
         DEF WorkspacesInv, WorkspacesTypeOK, FoundingKnown, JoinedFirst, NothingHalfDone,
             FailureLeavesNothing, InviteNotWasted
  <2> QED BY <1>3, <2>1, <2>2 DEF UndoFounding
<1>4. CASE ~UndoFounding
  <2>1. /\ workspace' \in [row : {"none", "live", "deleted", "gone"}, named : BOOLEAN]
        /\ workspace'.row # "none"
        /\ workspace'.row # workspace.row => workspace.row = "none" /\ workspace'.row = "live"
    <3>1. CASE CreateWorkspace
      <4>1. workspace' = [row |-> "live", named |-> FALSE] /\ founding = "none"
        BY <3>1 DEF CreateWorkspace, FoundingAt
      <4> QED BY <4>1 DEF WorkspacesInv, FoundingKnown
    <3>2. CASE SetNamespace
      BY <3>2 DEF WorkspacesInv, WorkspacesTypeOK, FoundingKnown, SetNamespace, FoundingAt,
                  Live
    <3>3. CASE workspace' = workspace /\ founding # "none"
      BY <3>3 DEF WorkspacesInv, WorkspacesTypeOK, FoundingKnown
    <3> QED
      BY <1>4, <3>1, <3>2, <3>3
         DEF AddOwner, EnsureNamespace, AnswerFounder, FoundingFails, DefaultFoundingFails,
             DeleteNamespace, FoundingAt
  <2>2. /\ members' \in [Users -> Roles \cup {"none"}]
        /\ \A u \in Users : members[u] # "none" => members'[u] # "none"
        /\ invite' = invite
    <3>1. CASE AddOwner
      BY <3>1, WorkspaceAssumption
         DEF WorkspacesInv, WorkspacesTypeOK, Roles, AddOwner, FoundingAt, inviteVars
    <3>2. CASE UNCHANGED <<members, invite>>
      BY <3>2 DEF WorkspacesInv, WorkspacesTypeOK
    <3> QED
      BY <1>4, <3>1, <3>2
         DEF CreateWorkspace, EnsureNamespace, SetNamespace, AnswerFounder, FoundingFails,
             DefaultFoundingFails, DeleteNamespace, FoundingAt, inviteVars
  <2>3. founding' = "failed" => workspace'.row \in {"gone", "deleted"}
    BY <1>4, <2>1
       DEF WorkspacesInv, WorkspacesTypeOK, CreateWorkspace, AddOwner, EnsureNamespace,
           SetNamespace, AnswerFounder, FoundingFails, DefaultFoundingFails,
           DeleteNamespace, FoundingAt, Live
  <2>4. WorkspacesTypeOK'
    BY <1>1, <1>2, <2>1, <2>2 DEF WorkspacesInv, WorkspacesTypeOK
  <2>5. FoundingKnown' /\ JoinedFirst' /\ NothingHalfDone'
    <3>1. FoundingKnown'
      BY <1>2, <2>1, <2>2 DEF WorkspacesInv, FoundingKnown
    <3>2. JoinedFirst'
      BY <1>1, <2>1, <2>2 DEF WorkspacesInv, JoinedFirst
    <3>3. NothingHalfDone'
      BY <1>1, <2>2, <2>3
         DEF WorkspacesInv, NothingHalfDone, FailureLeavesNothing, InviteNotWasted
    <3> QED BY <3>1, <3>2, <3>3
  <2> QED BY <2>4, <2>5 DEF WorkspacesInv
<1> QED BY <1>3, <1>4

\* The deletion of the workspace.
LEMMA DeletionStep ==
    ASSUME WorkspacesInv, BeginDeletion \/ SoftDeleteWorkspace \/ DeletionFails
    PROVE  WorkspacesInv'
<1>1. /\ UNCHANGED <<account, erasing, cluster, founding, undoFailed, memberVars, inviteVars>>
      /\ deletion' \in {"none", "stopped", "done"}
  BY DEF BeginDeletion, SoftDeleteWorkspace, DeletionFails, DeletionAt
<1>2. /\ workspace' \in [row : {"none", "live", "deleted", "gone"}, named : BOOLEAN]
      /\ \/ workspace'.row = workspace.row
         \/ workspace.row = "live" /\ workspace'.row = "deleted"
  BY DEF WorkspacesInv, WorkspacesTypeOK, BeginDeletion, SoftDeleteWorkspace,
         DeletionFails, Live
<1> QED
  BY <1>1, <1>2
     DEF WorkspacesInv, WorkspacesTypeOK, FoundingKnown, JoinedFirst, NothingHalfDone,
         FailureLeavesNothing, InviteNotWasted, memberVars, inviteVars

\* Members come and go, and leave their mark when they go.
LEMMA MemberStep ==
    ASSUME WorkspacesInv, NEW u \in Users,
           \/ Register(u) \/ CheckLastOwner(u) \/ AnonymizeUser(u)
           \/ AddMember(u) \/ UpdateMemberRole(u) \/ RemoveMember(u)
    PROVE  WorkspacesInv'
<1>1. /\ UNCHANGED <<foundingVars, inviteVars, deletion>>
      /\ erasing' \subseteq Users /\ left' \subseteq Users
      /\ account' \in [Users -> {"none", "live", "anonymized"}]
  BY DEF WorkspacesInv, WorkspacesTypeOK, Register, CheckLastOwner, AnonymizeUser,
         AddMember, UpdateMemberRole, RemoveMember, MembersOnly, memberVars
<1>2. /\ members' \in [Users -> Roles \cup {"none"}]
      /\ \A v \in Users : members[v] # "none" \/ v \in left =>
            members'[v] # "none" \/ v \in left'
  <2>1. CASE Register(u) \/ CheckLastOwner(u)
    BY <2>1 DEF WorkspacesInv, WorkspacesTypeOK, Register, CheckLastOwner, memberVars
  <2>2. CASE AnonymizeUser(u) \/ RemoveMember(u)
    BY <2>2 DEF WorkspacesInv, WorkspacesTypeOK, AnonymizeUser, RemoveMember, memberVars
  <2>3. CASE AddMember(u) \/ UpdateMemberRole(u)
    <3>1. PICK r \in Roles : members' = [members EXCEPT ![u] = r]
      BY <2>3 DEF AddMember, UpdateMemberRole
    <3>2. left' = left \ {u} \/ left' = left
      BY <2>3 DEF AddMember, UpdateMemberRole
    <3> QED BY <3>1, <3>2 DEF WorkspacesInv, WorkspacesTypeOK, Roles
  <2> QED BY <2>1, <2>2, <2>3
<1> QED
  BY <1>1, <1>2
     DEF WorkspacesInv, WorkspacesTypeOK, FoundingKnown, JoinedFirst, NothingHalfDone,
         FailureLeavesNothing, InviteNotWasted, foundingVars, inviteVars

\* An invitation is marked after its user has joined.
LEMMA InviteStep ==
    ASSUME WorkspacesInv, NEW u \in Users,
           \/ CreateInvite(u) \/ ExpireInvite(u) \/ DeleteInvite(u)
           \/ ReadInvite(u) \/ AcceptUser(u) \/ JoinByInvite(u) \/ MarkInviteAccepted(u)
           \/ AcceptFails(u)
    PROVE  WorkspacesInv'
<1>1. UNCHANGED <<erasing, foundingVars, deletion>>
  BY DEF CreateInvite, ExpireInvite, DeleteInvite, ReadInvite, AcceptUser, JoinByInvite,
         MarkInviteAccepted, AcceptFails, InvitesOnly
<1>2. CASE CreateInvite(u) \/ ExpireInvite(u) \/ DeleteInvite(u)
  <2>1. /\ UNCHANGED <<account, memberVars, accepting>>
        /\ workspace.row = "gone" => invite[u] # "none"
    BY <1>2 DEF CreateInvite, ExpireInvite, DeleteInvite, Live
  <2>2. PICK i \in {"none", "pending", "expired"} : invite' = [invite EXCEPT ![u] = i]
    BY <1>2 DEF CreateInvite, ExpireInvite, DeleteInvite
  <2> QED
    BY <1>1, <2>1, <2>2
       DEF WorkspacesInv, WorkspacesTypeOK, FoundingKnown, JoinedFirst, NothingHalfDone,
           FailureLeavesNothing, InviteNotWasted, foundingVars, memberVars
<1>3. CASE ReadInvite(u) \/ AcceptUser(u) \/ AcceptFails(u)
  <2>1. /\ UNCHANGED <<memberVars, invite>>
        /\ account' \in [Users -> {"none", "live", "anonymized"}]
    BY <1>3 DEF WorkspacesInv, WorkspacesTypeOK, ReadInvite, AcceptUser, AcceptFails
  <2>2. PICK to \in {"none", "user", "join"} : accepting' = [accepting EXCEPT ![u] = to]
    BY <1>3 DEF ReadInvite, AcceptUser, AcceptFails, AcceptAt
  <2> QED
    BY <1>1, <2>1, <2>2
       DEF WorkspacesInv, WorkspacesTypeOK, FoundingKnown, JoinedFirst, NothingHalfDone,
           FailureLeavesNothing, InviteNotWasted, foundingVars, memberVars
<1>4. CASE JoinByInvite(u)
  <2>1. /\ UNCHANGED <<account, invite>> /\ workspace.row # "none"
        /\ accepting' = [accepting EXCEPT ![u] = "mark"]
    BY <1>4 DEF JoinByInvite, AcceptAt
  <2>2. /\ members' \in [Users -> Roles \cup {"none"}] /\ left' \subseteq left
        /\ members'[u] # "none"
        /\ \A v \in Users : v # u => members'[v] = members[v] /\ (v \in left => v \in left')
    <3>1. CASE members[u] # "none"
      BY <1>4, <3>1 DEF WorkspacesInv, WorkspacesTypeOK, JoinByInvite, memberVars
    <3>2. CASE members[u] = "none"
      <4>1. left' = left \ {u} /\ \E r \in Roles : members' = [members EXCEPT ![u] = r]
        BY <1>4, <3>2 DEF JoinByInvite
      <4>2. PICK r \in Roles : members' = [members EXCEPT ![u] = r]
        BY <4>1
      <4> QED BY <4>1, <4>2 DEF WorkspacesInv, WorkspacesTypeOK, Roles
    <3> QED BY <3>1, <3>2
  <2>3. WorkspacesTypeOK' /\ FoundingKnown'
    BY <1>1, <2>1, <2>2 DEF WorkspacesInv, WorkspacesTypeOK, FoundingKnown, foundingVars
  <2>4. \A v \in Users : members[v] # "none" \/ v \in left => members'[v] # "none" \/ v \in left'
    BY <2>2
  <2>5. JoinedFirst'
    BY <1>1, <2>1, <2>2, <2>4 DEF WorkspacesInv, WorkspacesTypeOK, JoinedFirst, foundingVars
  <2>6. NothingHalfDone'
    BY <1>1, <2>1, <2>4
       DEF WorkspacesInv, NothingHalfDone, FailureLeavesNothing, InviteNotWasted, foundingVars
  <2> QED BY <2>3, <2>5, <2>6 DEF WorkspacesInv
<1>5. CASE MarkInviteAccepted(u)
  <2>1. /\ UNCHANGED <<account, memberVars>>
        /\ accepting[u] = "mark" /\ accepting' = [accepting EXCEPT ![u] = "none"]
        /\ invite' = [invite EXCEPT ![u] = IF @ = "none" THEN @ ELSE "accepted"]
    BY <1>5 DEF MarkInviteAccepted, AcceptAt
  <2> QED
    BY <1>1, <2>1
       DEF WorkspacesInv, WorkspacesTypeOK, FoundingKnown, JoinedFirst, NothingHalfDone,
           FailureLeavesNothing, InviteNotWasted, foundingVars, memberVars
<1> QED BY <1>2, <1>3, <1>4, <1>5

\* Every step of the accounts and of the workspace keeps the invariant, and it holds at
\* the start.
LEMMA WorkspacesKept ==
    /\ WorkspacesInit => WorkspacesInv
    /\ WorkspacesInv /\ [WorkspacesNext]_workspaceVars => WorkspacesInv'
<1>1. WorkspacesInit => WorkspacesInv
  <2> SUFFICES ASSUME WorkspacesInit PROVE WorkspacesInv
    OBVIOUS
  <2>1. WorkspacesTypeOK
    BY DEF WorkspacesInit, WorkspacesTypeOK
  <2>2. FoundingKnown /\ JoinedFirst /\ NothingHalfDone
    BY DEF WorkspacesInit, FoundingKnown, JoinedFirst, NothingHalfDone,
           FailureLeavesNothing, InviteNotWasted
  <2> QED BY <2>1, <2>2 DEF WorkspacesInv
<1>2. CASE UNCHANGED workspaceVars
  BY <1>1, <1>2
     DEF workspaceVars, foundingVars, memberVars, inviteVars, WorkspacesInv,
         WorkspacesTypeOK, FoundingKnown, JoinedFirst, NothingHalfDone,
         FailureLeavesNothing, InviteNotWasted
<1> QED
  BY <1>1, <1>2, FoundingStep, DeletionStep, MemberStep, InviteStep
     DEF WorkspacesNext, UserStep

\* Accounts, the workspace, members and invitations are always of their types.
THEOREM WorkspacesAlwaysTyped == WorkspacesSpec => []WorkspacesTypeOK
  BY WorkspacesKept, PTL DEF WorkspacesSpec, WorkspacesInv

\* A creation that failed has left no workspace in use, and no invitation is used up
\* without a membership, whatever other requests did between the statements.
THEOREM NothingEverHalfDone == WorkspacesSpec => []NothingHalfDone
  BY WorkspacesKept, PTL DEF WorkspacesSpec, WorkspacesInv

-----------------------------------------------------------------------------
(* Quotas of a workspace *)

\* The limit in force is one of those that were allowed so far.
HighestKnown == highest >= AllowedCount(Limit("sandboxes"))

\* The creations that have passed the count and have not inserted their row.
Passed == {c \in Creators : creator[c] \in {"counted", "allowed"}}

\* Rows and creations on their way to one exceed the highest limit together by less than
\* the creations there can be at once, unless there was no limit at some time.
PassedBounded ==
    \/ highest >= Cardinality(SandboxIds)
    \/ Cardinality(Rows) + Cardinality(Passed) <= highest + Cardinality(Creators) - 1

QuotasInv == QuotasTypeOK /\ HighestKnown /\ PassedBounded

\* The numbers the invariant compares are numbers.
LEMMA QuotaNumbers ==
    /\ IsFiniteSet(Rows) /\ IsFiniteSet(Passed)
    /\ Cardinality(Rows) \in Nat /\ Cardinality(Passed) \in Nat
    /\ Cardinality(SandboxIds) \in Nat /\ Cardinality(Creators) \in Nat
    /\ Cardinality(Creators) >= 1
    /\ Cardinality(Rows) <= Cardinality(SandboxIds)
    /\ Cardinality(Passed) <= Cardinality(Creators)
<1>1. Rows \in SUBSET SandboxIds /\ Passed \in SUBSET Creators
  BY DEF Rows, Passed
<1>2. IsFiniteSet(Rows) /\ Cardinality(Rows) <= Cardinality(SandboxIds)
  BY <1>1, FS_Subset, QuotaAssumption
<1>3. IsFiniteSet(Passed) /\ Cardinality(Passed) <= Cardinality(Creators)
  BY <1>1, FS_Subset, QuotaAssumption
<1>4. Cardinality(SandboxIds) \in Nat /\ Cardinality(Creators) \in Nat
  BY FS_CardinalityType, QuotaAssumption
<1>5. Cardinality(Creators) # 0
  BY FS_EmptySet, QuotaAssumption
<1>6. Cardinality(Rows) \in Nat /\ Cardinality(Passed) \in Nat
  BY <1>2, <1>3, FS_CardinalityType
<1> QED BY <1>2, <1>3, <1>4, <1>5, <1>6

\* What a field comes to is a limit an administrator may set.
LEMMA EffectiveType ==
    ASSUME NEW d \in [Fields -> Limits], NEW r \in [Fields -> Limits \cup {Null}]
    PROVE  /\ Effective(d, r, "sandboxes") \in Limits
           /\ AllowedCount(Effective(d, r, "sandboxes")) \in Nat
<1>1. Effective(d, r, "sandboxes") \in Limits
  BY DEF Effective, Fields
<1> QED BY <1>1, QuotaNumbers, QuotaAssumption DEF AllowedCount

\* A creation counts and is let through, or turns away.
LEMMA CreatorStep ==
    ASSUME QuotasInv, NEW c \in Creators,
           CheckSandboxQuota(c) \/ CheckResourceBudget(c) \/ Refuse(c)
    PROVE  QuotasInv'
<1>1. UNCHANGED <<setting, quotaRow, highest, admin, sandboxes>>
  BY DEF CheckSandboxQuota, CheckResourceBudget, Refuse, CreatorAt, limitVars
<1>2. PICK pc \in {"idle", "counted", "allowed", "overQuota", "overBudget"} :
         /\ creator' = [creator EXCEPT ![c] = pc]
         /\ \/ creator[c] \in {"counted", "allowed"}
            \/ pc \notin {"counted", "allowed"}
            \/ Limit("sandboxes") = 0 \/ Cardinality(Rows) < Limit("sandboxes")
  <2>1. CASE CheckSandboxQuota(c)
    BY <2>1 DEF CheckSandboxQuota, CreatorAt
  <2>2. CASE CheckResourceBudget(c)
    BY <2>2 DEF CheckResourceBudget, CreatorAt
  <2>3. CASE Refuse(c)
    BY <2>3 DEF Refuse, CreatorAt
  <2> QED BY <2>1, <2>2, <2>3
<1>3. QuotasTypeOK'
  BY <1>1, <1>2 DEF QuotasInv, QuotasTypeOK
<1>4. HighestKnown'
  BY <1>1 DEF QuotasInv, HighestKnown, AllowedCount, Limit, Effective
<1>5. Rows' = Rows
  BY <1>1 DEF Rows
<1>6. PassedBounded'
  <2>1. CASE creator[c] \in {"counted", "allowed"} \/ pc \notin {"counted", "allowed"}
    <3>1. Passed' \in SUBSET Passed
      BY <1>2, <2>1 DEF QuotasInv, QuotasTypeOK, Passed
    <3>2. Cardinality(Passed') <= Cardinality(Passed)
      BY <3>1, FS_Subset, QuotaNumbers
    <3>3. Cardinality(Passed') \in Nat /\ highest \in Nat
      BY <3>1, FS_Subset, FS_CardinalityType, QuotaNumbers DEF QuotasInv, QuotasTypeOK
    <3> QED
      BY <1>1, <1>5, <3>2, <3>3, QuotaNumbers DEF QuotasInv, PassedBounded
  <2>2. CASE Limit("sandboxes") = 0
    BY <1>1, <2>2 DEF QuotasInv, HighestKnown, AllowedCount, PassedBounded
  <2>3. CASE Limit("sandboxes") # 0 /\ Cardinality(Rows) < Limit("sandboxes")
    <3>1. Limit("sandboxes") \in Nat /\ highest >= Limit("sandboxes") /\ highest \in Nat
      BY <2>3, EffectiveType, QuotaAssumption
         DEF QuotasInv, QuotasTypeOK, HighestKnown, AllowedCount, Limit
    <3>2. Passed' \in SUBSET Creators
      BY DEF Passed
    <3>3. Cardinality(Passed') \in Nat /\ Cardinality(Passed') <= Cardinality(Creators)
      BY <3>2, FS_Subset, FS_CardinalityType, QuotaAssumption
    <3>4. Cardinality(Rows) + Cardinality(Passed') <= highest + Cardinality(Creators) - 1
      BY <2>3, <3>1, <3>3, QuotaNumbers
    <3> QED BY <1>1, <1>5, <3>4 DEF PassedBounded
  <2> QED BY <1>2, <2>1, <2>2, <2>3
<1> QED BY <1>3, <1>4, <1>6 DEF QuotasInv

\* A creation that passed becomes a row.
LEMMA InsertStep ==
    ASSUME QuotasInv, NEW c \in Creators, InsertSandbox(c)
    PROVE  QuotasInv'
<1>1. /\ UNCHANGED <<setting, quotaRow, highest, admin>>
      /\ creator[c] = "allowed" /\ creator' = [creator EXCEPT ![c] = "idle"]
  BY DEF InsertSandbox, CreatorAt, limitVars
<1>2. PICK s \in SandboxIds \ Rows : sandboxes' = [sandboxes EXCEPT ![s] = "running"]
  BY DEF InsertSandbox
<1>3. QuotasTypeOK'
  BY <1>1, <1>2 DEF QuotasInv, QuotasTypeOK
<1>4. HighestKnown'
  BY <1>1 DEF QuotasInv, HighestKnown, AllowedCount, Limit, Effective
<1>5. Rows' = Rows \cup {s} /\ s \notin Rows
  BY <1>2 DEF QuotasInv, QuotasTypeOK, Rows
<1>6. Passed' = Passed \ {c} /\ c \in Passed
  BY <1>1 DEF QuotasInv, QuotasTypeOK, Passed
<1>7. Cardinality(Rows') = Cardinality(Rows) + 1
  BY <1>5, FS_AddElement, QuotaNumbers
<1>8. Cardinality(Passed') = Cardinality(Passed) - 1
  BY <1>6, FS_RemoveElement, QuotaNumbers
<1>9. PassedBounded'
  BY <1>1, <1>7, <1>8, QuotaNumbers DEF QuotasInv, QuotasTypeOK, PassedBounded
<1> QED BY <1>3, <1>4, <1>9 DEF QuotasInv

\* Sandboxes are paused, resumed and deleted.
LEMMA SandboxStep ==
    ASSUME QuotasInv, NEW s \in SandboxIds, ChangeSandbox(s) \/ DeleteSandbox(s)
    PROVE  QuotasInv'
<1>1. UNCHANGED <<setting, quotaRow, highest, admin, creator>>
  BY DEF ChangeSandbox, DeleteSandbox, limitVars
<1>2. PICK status \in {"none", "running", "paused"} :
         sandboxes[s] # "none" /\ sandboxes' = [sandboxes EXCEPT ![s] = status]
  BY DEF ChangeSandbox, DeleteSandbox
<1>3. QuotasTypeOK'
  BY <1>1, <1>2 DEF QuotasInv, QuotasTypeOK
<1>4. HighestKnown'
  BY <1>1 DEF QuotasInv, HighestKnown, AllowedCount, Limit, Effective
<1>5. Rows' \in SUBSET Rows
  BY <1>2 DEF QuotasInv, QuotasTypeOK, Rows
<1>6. Cardinality(Rows') \in Nat /\ Cardinality(Rows') <= Cardinality(Rows)
  BY <1>5, FS_Subset, FS_CardinalityType, QuotaNumbers
<1>7. Passed' = Passed
  BY <1>1 DEF Passed
<1>8. PassedBounded'
  BY <1>1, <1>6, <1>7, QuotaNumbers DEF QuotasInv, QuotasTypeOK, PassedBounded
<1> QED BY <1>3, <1>4, <1>8 DEF QuotasInv

\* An administrator changes a limit: the highest one is kept.
LEMMA LimitStep ==
    ASSUME QuotasInv,
           \/ \E f \in Fields : SetDefault(f)
           \/ \E a \in Admins : WriteQuota(a)
           \/ DeleteQuota
    PROVE  QuotasInv'
<1>1. /\ UNCHANGED <<sandboxes, creator>>
      /\ NoteLimit(setting', quotaRow')
  BY DEF SetDefault, WriteQuota, DeleteQuota
<1>2. /\ setting' \in [Fields -> Limits]
      /\ quotaRow' \in [Fields -> Limits \cup {Null}]
  <2>1. CASE \E f \in Fields : SetDefault(f)
    BY <2>1 DEF QuotasInv, QuotasTypeOK, SetDefault
  <2>2. CASE \E a \in Admins : WriteQuota(a)
    BY <2>2 DEF QuotasInv, QuotasTypeOK, WriteQuota
  <2>3. CASE DeleteQuota
    BY <2>3 DEF QuotasInv, QuotasTypeOK, DeleteQuota, NoOverride
  <2> QED BY <2>1, <2>2, <2>3
<1>3. admin' \in [Admins -> [pc : {"idle", "write"}, row : [Fields -> Limits \cup {Null}]]]
  <2>1. NoOverride \in [Fields -> Limits \cup {Null}]
    BY DEF NoOverride
  <2>2. [pc |-> "idle", row |-> NoOverride]
           \in [pc : {"idle", "write"}, row : [Fields -> Limits \cup {Null}]]
    BY <2>1
  <2>3. admin' = admin \/ \E a \in Admins :
           admin' = [admin EXCEPT ![a] = [pc |-> "idle", row |-> NoOverride]]
    BY DEF SetDefault, WriteQuota, DeleteQuota
  <2> QED BY <2>2, <2>3 DEF QuotasInv, QuotasTypeOK
<1>4. AllowedCount(Limit("sandboxes"))' \in Nat
  BY <1>2, EffectiveType DEF Limit
<1>5. highest' = IF AllowedCount(Limit("sandboxes"))' > highest
                 THEN AllowedCount(Limit("sandboxes"))' ELSE highest
  BY <1>1 DEF NoteLimit, Limit, AllowedCount, Effective
<1>6. highest' \in Nat /\ highest' >= highest /\ highest' >= AllowedCount(Limit("sandboxes"))'
  BY <1>4, <1>5 DEF QuotasInv, QuotasTypeOK
<1>7. QuotasTypeOK'
  BY <1>1, <1>2, <1>3, <1>6 DEF QuotasInv, QuotasTypeOK
<1>8. HighestKnown'
  BY <1>6 DEF HighestKnown
<1>9. Rows' = Rows /\ Passed' = Passed
  BY <1>1 DEF Rows, Passed
<1>10. PassedBounded'
  BY <1>6, <1>9, QuotaNumbers DEF QuotasInv, QuotasTypeOK, PassedBounded
<1> QED BY <1>7, <1>8, <1>10 DEF QuotasInv

\* What an administrator has read and merged is not in force yet.
LEMMA MergeStep ==
    ASSUME QuotasInv, NEW a \in Admins, MergeQuota(a)
    PROVE  QuotasInv'
<1>1. UNCHANGED <<setting, quotaRow, highest, sandboxes, creator>>
  BY DEF MergeQuota, limitVars
<1>2. PICK request \in [Fields -> Limits \cup {Null}] :
         admin' = [admin EXCEPT ![a] =
                     [pc |-> "write",
                      row |-> [f \in Fields |-> IF request[f] # Null THEN request[f]
                                                ELSE quotaRow[f]]]]
  BY DEF MergeQuota
<1>3. [f \in Fields |-> IF request[f] # Null THEN request[f] ELSE quotaRow[f]]
         \in [Fields -> Limits \cup {Null}]
  BY DEF QuotasInv, QuotasTypeOK
<1>4. QuotasTypeOK'
  BY <1>1, <1>2, <1>3 DEF QuotasInv, QuotasTypeOK
<1>5. HighestKnown' /\ PassedBounded'
  BY <1>1 DEF QuotasInv, HighestKnown, PassedBounded, AllowedCount, Limit, Effective, Rows,
              Passed
<1> QED BY <1>4, <1>5 DEF QuotasInv

\* Every step keeps the invariant, and it holds at the start.
LEMMA QuotasKept ==
    /\ QuotasInit => QuotasInv
    /\ QuotasInv /\ [QuotasNext]_quotaVars => QuotasInv'
<1>1. QuotasInit => QuotasInv
  <2> SUFFICES ASSUME QuotasInit PROVE QuotasInv
    OBVIOUS
  <2>1. /\ NoOverride \in [Fields -> Limits \cup {Null}] /\ NoOverride["sandboxes"] = Null
        /\ [pc |-> "idle", row |-> NoOverride]
             \in [pc : {"idle", "write"}, row : [Fields -> Limits \cup {Null}]]
    BY DEF NoOverride, Fields
  <2>2. highest = AllowedCount(Limit("sandboxes"))
    BY <2>1 DEF QuotasInit, Limit, Effective
  <2>3. highest \in Nat
    BY <2>1, <2>2, EffectiveType DEF QuotasInit, Limit
  <2>4. QuotasTypeOK /\ HighestKnown
    BY <2>1, <2>2, <2>3 DEF QuotasInit, QuotasTypeOK, HighestKnown
  <2>5. Rows = {} /\ Passed = {}
    BY DEF QuotasInit, Rows, Passed
  <2>6. Cardinality(Rows) = 0 /\ Cardinality(Passed) = 0
    BY <2>5, FS_EmptySet
  <2>7. PassedBounded
    BY <2>3, <2>6, QuotaNumbers DEF PassedBounded
  <2> QED BY <2>4, <2>7 DEF QuotasInv
<1>2. ASSUME QuotasInv, UNCHANGED quotaVars PROVE QuotasInv'
  BY <1>2 DEF quotaVars, QuotasInv, QuotasTypeOK, HighestKnown, PassedBounded, Rows, Passed,
              AllowedCount, Limit, Effective
<1> QED
  BY <1>1, <1>2, CreatorStep, InsertStep, SandboxStep, LimitStep, MergeStep DEF QuotasNext

\* The limits, the rows and the requests of a workspace are always of their types.
THEOREM QuotasAlwaysTyped == QuotasSpec => []QuotasTypeOK
  BY QuotasKept, PTL DEF QuotasSpec, QuotasInv

\* Creations that count at the same time exceed the highest limit by less than their
\* number, for every number of them.
THEOREM OvershootAlwaysBounded == QuotasSpec => []OvershootBounded
<1>1. QuotasInv => OvershootBounded
  BY QuotaNumbers DEF QuotasInv, QuotasTypeOK, PassedBounded, OvershootBounded
<1> QED BY <1>1, QuotasKept, PTL DEF QuotasSpec

-----------------------------------------------------------------------------
(* Accounts and sign-in *)

\* The first account has the first id, and only it was ever made admin by counting; an
\* address has one row.
AccountsKnown ==
    /\ Existing # {} => 1 \in Existing
    /\ founders \subseteq {1}
    /\ \A a, b \in Ids : userRow[a].email \in Emails /\ userRow[a].email = userRow[b].email
                            => a = b
    /\ \A s \in Subjects : identity[s] # 0 => identity[s] \in Existing

\* What a request knows of its user while it is under way.
VisitKnown(q) ==
    /\ q.pc \in {"create", "byEmail"} => q.email \in Emails
    /\ q.pc \in {"count", "promote", "link", "token"} => q.user \in Existing
    /\ q.pc = "promote" => q.user = 1
    /\ q.pc = "token" /\ q.subject # NoSubject => identity[q.subject] = q.user
VisitsKnown == \A v \in Visits : VisitKnown(visit[v])

\* What the row of a token is for.
LoginKnown(l) ==
    /\ l.subject # NoSubject => l.user # 0 /\ identity[l.subject] = l.user
    /\ l.user # 0 /\ userRow[l.user].email = "scrubbed" => l.late
LoginsKnown == \A v \in Visits : LoginKnown(login[v])

SignInInv == SignInTypeOK /\ AccountsKnown /\ VisitsKnown /\ LoginsKnown

\* The records of a visit and of a login.
VisitStates ==
    [pc : {"idle", "create", "byEmail", "link", "count", "promote", "token", "bind", "undo"},
     email : Emails \cup {"none"}, subject : Subjects \cup {NoSubject},
     user : 0..MaxAccounts, tenant : BOOLEAN]
LoginStates ==
    [user : 0..MaxAccounts, subject : Subjects \cup {NoSubject}, late : BOOLEAN]

\* The id of a new account is the lowest that is free.
LEMMA NextIdFree ==
    ASSUME Existing # Ids
    PROVE  NextId \in Ids \ Existing /\ \A b \in Ids \ Existing : NextId <= b
<1> DEFINE Free == Ids \ Existing
           Less == {p \in Nat \X Nat : p[1] < p[2]}
<1>1. Free # {} /\ Free \subseteq Nat
  BY SignInAssumption DEF Ids, Existing
<1>2. IsWellFoundedOn(Less, Nat)
  BY NatLessThanWellFounded, Zenon DEF OpToRel
<1>3. PICK a \in Free : \A b \in Free : <<b, a>> \notin Less
  <2> HIDE DEF Less, Free
  <2> QED BY <1>1, <1>2, WFMin
<1>4. \A b \in Free : a <= b
  <2>1. \A x, y \in Nat : x < y => <<x, y>> \in Less
    OBVIOUS
  <2>2. a \in Nat
    BY <1>1, <1>3
  <2> TAKE b \in Free
  <2>3. b \in Nat
    BY <1>1
  <2>4. <<b, a>> \notin Less
    BY <1>3
  <2>5. ~ (b < a)
    BY <2>1, <2>2, <2>3, <2>4
  <2> QED BY <2>2, <2>3, <2>5
<1>5. Free = Ids \ Existing
  OBVIOUS
<1> HIDE DEF Free
<1>6. NextId \in Free /\ \A b \in Free : NextId <= b
  BY <1>4, <1>5 DEF NextId
<1> QED BY <1>5, <1>6

\* A step that changes one visit and nothing else keeps the invariant if what the visit
\* knows is right.
LEMMA OneVisit ==
    ASSUME SignInInv, UNCHANGED <<userRow, identity, founders, login>>, NEW v \in Visits,
           NEW q \in VisitStates, VisitKnown(q), visit' = [visit EXCEPT ![v] = q]
    PROVE  SignInInv'
<1>1. SignInTypeOK'
  BY DEF SignInInv, SignInTypeOK, VisitStates
<1>2. Existing' = Existing
  BY DEF Existing
<1>3. AccountsKnown' /\ LoginsKnown'
  BY <1>2 DEF SignInInv, AccountsKnown, LoginsKnown, LoginKnown
<1>4. \A w \in Visits : visit'[w] = IF w = v THEN q ELSE visit[w]
  BY DEF SignInInv, SignInTypeOK
<1>5. VisitsKnown'
  BY <1>2, <1>4 DEF SignInInv, VisitsKnown, VisitKnown
<1> QED BY <1>1, <1>3, <1>5 DEF SignInInv

\* A request that ends knows nothing.
LEMMA NoVisitKnown == NoVisit \in VisitStates /\ VisitKnown(NoVisit)
  BY SignInAssumption DEF NoVisit, VisitStates, VisitKnown

\* Another step of a visit keeps its other fields.
LEMMA GoStep ==
    ASSUME SignInInv, NEW v \in Visits, NEW pc, Go(v, pc),
           pc \in {"create", "link", "promote", "token", "bind", "undo"}
    PROVE  /\ visit' = [visit EXCEPT ![v] = [visit[v] EXCEPT !.pc = pc]]
           /\ [visit[v] EXCEPT !.pc = pc] \in VisitStates
  BY SMTT(30) DEF SignInInv, SignInTypeOK, VisitStates, Go

LEMMA GoAsStep ==
    ASSUME SignInInv, NEW v \in Visits, NEW pc, NEW a, GoAs(v, pc, a),
           pc \in {"link", "count"}, a \in 0..MaxAccounts
    PROVE  /\ visit' = [visit EXCEPT ![v] = [visit[v] EXCEPT !.pc = pc, !.user = a]]
           /\ [visit[v] EXCEPT !.pc = pc, !.user = a] \in VisitStates
<1> DEFINE q == [visit[v] EXCEPT !.pc = pc, !.user = a]
<1>1. visit[v] \in VisitStates
  BY DEF SignInInv, SignInTypeOK, VisitStates
<1>2. q \in VisitStates
  BY <1>1 DEF VisitStates
<1>3. q = [[visit[v] EXCEPT !.pc = pc] EXCEPT !.user = a]
  OBVIOUS
<1>4. visit' = [visit EXCEPT ![v] = q]
  BY DEF SignInInv, SignInTypeOK, GoAs
<1> QED BY <1>2, <1>4

\* Requests that only read.
LEMMA ReadingStep ==
    ASSUME SignInInv, NEW v \in Visits,
           \/ \E e \in Emails : RegisterUser(v, e)
           \/ \E a \in Ids, t \in BOOLEAN : Login(v, a, t)
           \/ \E s \in Subjects, e \in Emails \cup {"none"}, t \in BOOLEAN :
                OidcCallback(v, s, e, t)
           \/ Registered(v) \/ VisitFails(v)
    PROVE  SignInInv'
<1>1. UNCHANGED <<userRow, identity, founders, login>>
  BY Zenon DEF RegisterUser, Login, OidcCallback, Registered, VisitFails, accountVars
<1>2. CASE \E e \in Emails : RegisterUser(v, e)
  <2>1. PICK e \in Emails :
          visit' = [visit EXCEPT ![v] = [NoVisit EXCEPT !.pc = "create", !.email = e]]
    BY <1>2, Zenon DEF RegisterUser
  <2> DEFINE q == [NoVisit EXCEPT !.pc = "create", !.email = e]
  <2>2. q \in VisitStates /\ q.pc = "create" /\ q.email = e
    BY NoVisitKnown DEF VisitStates
  <2>3. visit' = [visit EXCEPT ![v] = q]
    BY <2>1
  <2> HIDE DEF q
  <2>4. q \in VisitStates
    BY <2>2
  <2>5. VisitKnown(q)
    BY <2>2 DEF VisitKnown
  <2> QED BY <1>1, <2>3, <2>4, <2>5, OneVisit
<1>3. CASE \E a \in Ids, t \in BOOLEAN : Login(v, a, t)
  <2>1. PICK a \in Ids, t \in BOOLEAN : Login(v, a, t)
    BY <1>3
  <2>2. /\ visit' = [visit EXCEPT ![v] = [NoVisit EXCEPT !.pc = "token", !.user = a,
                                                         !.tenant = t]]
        /\ a \in Existing
    BY <2>1, SignInAssumption, Zenon DEF Login, Existing
  <2> DEFINE q == [NoVisit EXCEPT !.pc = "token", !.user = a, !.tenant = t]
  <2>3. /\ q \in VisitStates /\ q.pc = "token" /\ q.user = a
        /\ q.subject = NoSubject
    <3>1. NoVisit.subject = NoSubject /\ a \in 0..MaxAccounts
      BY SignInAssumption DEF NoVisit, Ids
    <3> QED BY <3>1, NoVisitKnown DEF VisitStates
  <2>4. visit' = [visit EXCEPT ![v] = q]
    BY <2>2
  <2> HIDE DEF q
  <2>5. q \in VisitStates
    BY <2>3
  <2>6. VisitKnown(q)
    BY <2>2, <2>3 DEF VisitKnown
  <2> QED BY <1>1, <2>4, <2>5, <2>6, OneVisit
<1>4. CASE \E s \in Subjects, e \in Emails \cup {"none"}, t \in BOOLEAN :
              OidcCallback(v, s, e, t)
  <2>1. PICK s \in Subjects, e \in Emails \cup {"none"}, t \in BOOLEAN :
          OidcCallback(v, s, e, t)
    BY <1>4
  <2> DEFINE q == [pc |-> IF identity[s] # 0 THEN "token" ELSE "byEmail", email |-> e,
                   subject |-> s, user |-> identity[s], tenant |-> t]
  <2>2. visit' = [visit EXCEPT ![v] = q] /\ (identity[s] # 0 \/ e \in Emails)
    BY <2>1 DEF OidcCallback
  <2>3. identity[s] \in 0..MaxAccounts /\ (identity[s] # 0 => identity[s] \in Existing)
    BY DEF SignInInv, SignInTypeOK, AccountsKnown
  <2>4. q \in VisitStates
    BY <2>3 DEF VisitStates
  <2>5. VisitKnown(q)
    BY <2>2, <2>3 DEF VisitKnown
  <2> HIDE DEF q
  <2> QED BY <1>1, <2>2, <2>4, <2>5, OneVisit
<1>5. CASE Registered(v) \/ VisitFails(v)
  BY <1>1, <1>5, OneVisit, NoVisitKnown DEF Registered, VisitFails, Quit
<1> QED BY <1>2, <1>3, <1>4, <1>5

\* The lookup by address, the count of the users, and the refusal on a subdomain.
LEMMA LookingStep ==
    ASSUME SignInInv, NEW v \in Visits,
           GetUserByEmail(v) \/ CountUsers(v) \/ BindWorkspace(v)
    PROVE  SignInInv'
<1>1. UNCHANGED <<userRow, identity, founders, login>>
  BY DEF GetUserByEmail, CountUsers, BindWorkspace, accountVars
<1>2. /\ visit[v] \in VisitStates /\ VisitKnown(visit[v])
      /\ visit[v].user \in 0..MaxAccounts
  BY DEF SignInInv, SignInTypeOK, VisitsKnown, VisitStates
<1>3. CASE GetUserByEmail(v)
  <2>1. visit[v].pc = "byEmail" /\ visit[v].email \in Emails
    BY <1>2, <1>3 DEF GetUserByEmail, VisitKnown
  <2>2. CASE Go(v, "create")
    <3>1. VisitKnown([visit[v] EXCEPT !.pc = "create"])
      BY <1>2, <2>1 DEF VisitKnown, VisitStates
    <3> QED BY <1>1, <1>2, <2>1, <2>2, <3>1, OneVisit, GoStep
  <2>3. CASE \E a \in OfEmail(visit[v].email) : GoAs(v, "link", a)
    <3>1. PICK a \in OfEmail(visit[v].email) : GoAs(v, "link", a)
      BY <2>3
    <3>2. a \in Existing /\ a \in 0..MaxAccounts
      BY <2>1, SignInAssumption DEF OfEmail, Existing, Ids
    <3> DEFINE q == [visit[v] EXCEPT !.pc = "link", !.user = a]
    <3>3. VisitKnown(q)
      BY <1>2, <3>2 DEF VisitKnown, VisitStates
    <3>4. visit' = [visit EXCEPT ![v] = q] /\ q \in VisitStates
      BY <3>1, <3>2, GoAsStep, Zenon
    <3> HIDE DEF q
    <3> QED BY <1>1, <3>3, <3>4, OneVisit
  <2> QED BY <1>3, <2>2, <2>3 DEF GetUserByEmail
<1>4. CASE CountUsers(v)
  <2>1. visit[v].pc = "count" /\ visit[v].user \in Existing
    BY <1>2, <1>4 DEF CountUsers, VisitKnown
  <2>2. CASE FirstUser /\ Go(v, "promote")
    <3>1. IsFiniteSet(Existing)
      <4>1. IsFiniteSet(Ids)
        BY FS_Interval, SignInAssumption DEF Ids
      <4>2. Existing \in SUBSET Ids
        BY DEF Existing
      <4> QED BY <4>1, <4>2, FS_Subset
    <3>2. \E x : Existing = {x}
      BY <2>2, <3>1, FS_Singleton DEF FirstUser
    <3>3. 1 \in Existing
      BY <2>1 DEF SignInInv, AccountsKnown
    <3>4. visit[v].user = 1
      BY <2>1, <3>2, <3>3
    <3>5. VisitKnown([visit[v] EXCEPT !.pc = "promote"])
      BY <1>2, <2>1, <3>4 DEF VisitKnown, VisitStates
    <3> QED BY <1>1, <1>2, <2>1, <2>2, <3>5, OneVisit, GoStep
  <2>3. CASE Go(v, "link")
    <3>1. VisitKnown([visit[v] EXCEPT !.pc = "link"])
      BY <1>2, <2>1 DEF VisitKnown, VisitStates
    <3> QED BY <1>1, <1>2, <2>1, <2>3, <3>1, OneVisit, GoStep
  <2> QED BY <1>4, <2>2, <2>3 DEF CountUsers
<1>5. CASE BindWorkspace(v)
  <2>1. visit[v].pc = "bind"
    BY <1>5 DEF BindWorkspace
  <2>2. CASE Quit(v)
    BY <1>1, <2>2, OneVisit, NoVisitKnown DEF Quit
  <2>3. CASE Go(v, "undo")
    <3>1. VisitKnown([visit[v] EXCEPT !.pc = "undo"])
      BY <1>2 DEF VisitKnown, VisitStates
    <3> QED BY <1>1, <1>2, <2>1, <2>3, <3>1, OneVisit, GoStep
  <2> QED BY <1>5, <2>2, <2>3 DEF BindWorkspace
<1> QED BY <1>3, <1>4, <1>5

\* A new account has the next id, and an address nobody has.
LEMMA CreateStep ==
    ASSUME SignInInv, NEW v \in Visits, CreateUser(v)
    PROVE  SignInInv'
<1> DEFINE e == visit[v].email
           n == NextId
<1>1. /\ n \in Ids /\ n \notin Existing /\ \A b \in Ids \ Existing : n <= b
      /\ n \in 0..MaxAccounts /\ n # 0
  BY NextIdFree, SignInAssumption DEF CreateUser, Ids
<1>2. /\ visit[v] \in VisitStates /\ VisitKnown(visit[v]) /\ visit[v].pc = "create"
      /\ e \in Emails /\ OfEmail(e) = {}
      /\ UNCHANGED <<identity, founders, login>>
  BY DEF SignInInv, SignInTypeOK, VisitsKnown, VisitStates, VisitKnown, CreateUser
<1>3. GoAs(v, "count", n)
  BY DEF CreateUser
<1>4. PICK p \in BOOLEAN :
        userRow' = [userRow EXCEPT ![n] = [email |-> e, admin |-> FALSE, password |-> p]]
  <2>1. (visit[v].subject = NoSubject) \in BOOLEAN
    OBVIOUS
  <2> QED BY <2>1, Zenon DEF CreateUser
<1> HIDE DEF e, n
<1>5. /\ userRow' \in [Ids -> [email : Emails \cup {"none", "scrubbed"},
                               admin : BOOLEAN, password : BOOLEAN]]
      /\ userRow'[n].email = e
      /\ \A a \in Ids : a # n => userRow'[a] = userRow[a]
  <2>1. [email |-> e, admin |-> FALSE, password |-> p]
           \in [email : Emails \cup {"none", "scrubbed"}, admin : BOOLEAN, password : BOOLEAN]
    BY <1>2
  <2> QED BY <1>1, <1>4, <2>1 DEF SignInInv, SignInTypeOK
<1>6. Existing' = Existing \cup {n}
  BY <1>1, <1>2, <1>5, SignInAssumption DEF Existing
<1>7. \A a \in Ids : userRow[a].email # e
  BY <1>2 DEF OfEmail
<1>8. /\ visit' = [visit EXCEPT ![v] = [visit[v] EXCEPT !.pc = "count", !.user = n]]
      /\ [visit[v] EXCEPT !.pc = "count", !.user = n] \in VisitStates
  BY <1>1, <1>3, GoAsStep, Zenon
<1>9. SignInTypeOK'
  BY <1>2, <1>5, <1>8 DEF SignInInv, SignInTypeOK, VisitStates
<1>10. AccountsKnown'
  <2>1. 1 \in Existing'
    <3>1. CASE Existing = {}
      <4>1. 1 \in Ids
        BY <1>1, SignInAssumption DEF Ids
      <4>2. n <= 1 /\ n \in Nat /\ n # 0
        BY <1>1, <3>1, <4>1, SignInAssumption DEF Ids
      <4>3. n = 1
        BY <4>2
      <4> QED BY <1>6, <4>3
    <3> QED BY <1>6, <3>1 DEF SignInInv, AccountsKnown
  <2>2. \A a, b \in Ids : userRow'[a].email \in Emails /\ userRow'[a].email = userRow'[b].email
                             => a = b
    BY <1>5, <1>7 DEF SignInInv, AccountsKnown
  <2> QED BY <1>2, <1>6, <2>1, <2>2 DEF SignInInv, AccountsKnown
<1>11. VisitsKnown'
  <2>1. \A w \in Visits : w # v => visit'[w] = visit[w]
    BY <1>8 DEF SignInInv, SignInTypeOK
  <2>2. /\ visit'[v].pc = "count" /\ visit'[v].user = n
    BY <1>2, <1>8 DEF SignInInv, SignInTypeOK, VisitStates
  <2> QED BY <1>2, <1>6, <2>1, <2>2 DEF SignInInv, VisitsKnown, VisitKnown
<1>12. LoginsKnown'
  <2>1. \A w \in Visits : login[w].user # 0 => login[w].user \in Ids
    BY SignInAssumption DEF SignInInv, SignInTypeOK, Ids
  <2>2. \A w \in Visits : login[w].user # 0 /\ userRow'[login[w].user].email = "scrubbed"
           => userRow[login[w].user].email = "scrubbed"
    BY <1>2, <1>5, <2>1, SignInAssumption
  <2> QED BY <1>2, <2>2 DEF SignInInv, LoginsKnown, LoginKnown
<1> QED BY <1>9, <1>10, <1>11, <1>12 DEF SignInInv

\* Roles change, and with them perhaps the first admin.
LEMMA RoleStep ==
    ASSUME SignInInv,
           \/ \E v \in Visits : PromoteFirst(v)
           \/ \E a \in Ids : UpdateUserRole(a)
    PROVE  SignInInv'
<1>1. UNCHANGED <<identity, login>>
  BY DEF PromoteFirst, UpdateUserRole
<1>2. /\ userRow' \in [Ids -> [email : Emails \cup {"none", "scrubbed"},
                               admin : BOOLEAN, password : BOOLEAN]]
      /\ \A a \in Ids : userRow'[a].email = userRow[a].email
  <2>1. CASE UNCHANGED userRow
    BY <2>1 DEF SignInInv, SignInTypeOK
  <2>2. ASSUME NEW a, NEW b \in BOOLEAN, userRow' = [userRow EXCEPT ![a].admin = b]
        PROVE  /\ userRow' \in [Ids -> [email : Emails \cup {"none", "scrubbed"},
                                        admin : BOOLEAN, password : BOOLEAN]]
               /\ \A c \in Ids : userRow'[c].email = userRow[c].email
    <3>1. /\ userRow' = [userRow EXCEPT ![a] = [userRow[a] EXCEPT !.admin = b]]
          /\ a \in Ids => [userRow[a] EXCEPT !.admin = b]
                             \in [email : Emails \cup {"none", "scrubbed"},
                                  admin : BOOLEAN, password : BOOLEAN]
      BY <2>2, SMTT(30) DEF SignInInv, SignInTypeOK
    <3> QED BY <3>1 DEF SignInInv, SignInTypeOK
  <2>3. CASE \E v \in Visits : PromoteFirst(v)
    BY <2>1, <2>2, <2>3 DEF PromoteFirst
  <2>4. ASSUME NEW a \in Ids, UpdateUserRole(a)
        PROVE  \E b \in BOOLEAN : userRow' = [userRow EXCEPT ![a].admin = b]
    <3>1. userRow' = [userRow EXCEPT ![a].admin = ~@]
      BY <2>4 DEF UpdateUserRole
    <3>2. (~ userRow[a].admin) \in BOOLEAN
      OBVIOUS
    <3> QED BY <3>1, <3>2, Zenon
  <2> QED BY <2>2, <2>3, <2>4
<1>3. Existing' = Existing
  BY <1>2 DEF Existing
<1>4. SignInInv' \/ (visit' \in [Visits -> VisitStates] /\ founders' \subseteq {1}
                     /\ founders' \subseteq Ids /\ VisitsKnown')
  <2>1. CASE \E a \in Ids : UpdateUserRole(a)
    <3>1. UNCHANGED <<founders, visit>>
      BY <2>1 DEF UpdateUserRole
    <3> QED
      BY <1>1, <1>3, <3>1
         DEF SignInInv, SignInTypeOK, AccountsKnown, VisitsKnown, VisitKnown, VisitStates
  <2>2. ASSUME NEW v \in Visits, PromoteFirst(v)
        PROVE  /\ visit' \in [Visits -> VisitStates] /\ founders' \subseteq {1}
               /\ founders' \subseteq Ids /\ VisitsKnown'
    <3>1. /\ visit[v] \in VisitStates /\ VisitKnown(visit[v]) /\ visit[v].pc = "promote"
          /\ visit[v].user \in 0..MaxAccounts
      BY <2>2 DEF SignInInv, SignInTypeOK, VisitsKnown, VisitStates, PromoteFirst
    <3>2. visit[v].user = 1 /\ visit[v].user \in Existing /\ 1 \in Ids
      BY <3>1 DEF VisitKnown, Existing
    <3>3. founders' = founders \/ founders' = founders \cup {1}
      BY <2>2, <3>2 DEF PromoteFirst
    <3>4. /\ visit' = [visit EXCEPT ![v] = [visit[v] EXCEPT !.pc = "link"]]
          /\ [visit[v] EXCEPT !.pc = "link"] \in VisitStates
      BY <2>2, GoStep DEF PromoteFirst
    <3>5. visit' \in [Visits -> VisitStates]
      BY <3>4 DEF SignInInv, SignInTypeOK, VisitStates
    <3>6. \A w \in Visits : w # v => visit'[w] = visit[w]
      BY <3>4 DEF SignInInv, SignInTypeOK
    <3>7. visit'[v].pc = "link" /\ visit'[v].user = visit[v].user
      BY <3>1, <3>4 DEF SignInInv, SignInTypeOK, VisitStates
    <3>8. VisitsKnown'
      BY <1>1, <1>3, <3>2, <3>6, <3>7 DEF SignInInv, VisitsKnown, VisitKnown
    <3> QED BY <3>2, <3>3, <3>5, <3>8 DEF SignInInv, AccountsKnown, SignInTypeOK
  <2> QED BY <2>1, <2>2
<1>5. ASSUME visit' \in [Visits -> VisitStates], founders' \subseteq {1},
             founders' \subseteq Ids, VisitsKnown'
      PROVE  SignInInv'
  <2>1. SignInTypeOK'
    BY <1>1, <1>2, <1>5 DEF SignInInv, SignInTypeOK, VisitStates
  <2>2. AccountsKnown'
    BY <1>1, <1>2, <1>3, <1>5 DEF SignInInv, AccountsKnown
  <2>3. \A w \in Visits : login[w].user # 0 => login[w].user \in Ids
    BY SignInAssumption DEF SignInInv, SignInTypeOK, Ids
  <2>4. LoginsKnown'
    BY <1>1, <1>2, <2>3 DEF SignInInv, LoginsKnown, LoginKnown
  <2> QED BY <1>5, <2>1, <2>2, <2>4 DEF SignInInv
<1> QED BY <1>4, <1>5

\* An identity is linked once, and never to another account.
LEMMA LinkStep ==
    ASSUME SignInInv, NEW v \in Visits, CreateOIDCIdentity(v)
    PROVE  SignInInv'
<1> DEFINE s == visit[v].subject
           a == visit[v].user
<1>1. /\ visit[v] \in VisitStates /\ VisitKnown(visit[v]) /\ visit[v].pc = "link"
      /\ s \in Subjects /\ identity[s] = 0 /\ a \in 0..MaxAccounts
      /\ UNCHANGED <<userRow, founders, login>>
  BY DEF SignInInv, SignInTypeOK, VisitsKnown, VisitStates, CreateOIDCIdentity
<1>2. a \in Existing /\ a # 0
  BY <1>1 DEF VisitKnown, Existing, Ids
<1>3. /\ visit' = [visit EXCEPT ![v] = [visit[v] EXCEPT !.pc = "token"]]
      /\ [visit[v] EXCEPT !.pc = "token"] \in VisitStates
  BY GoStep DEF CreateOIDCIdentity
<1>4. /\ identity' \in [Subjects -> 0..MaxAccounts]
      /\ identity'[s] = a
      /\ \A r \in Subjects : identity[r] # 0 => identity'[r] = identity[r]
      /\ \A r \in Subjects : r # s => identity'[r] = identity[r]
  BY <1>1 DEF SignInInv, SignInTypeOK, CreateOIDCIdentity
<1>5. Existing' = Existing
  BY <1>1 DEF Existing
<1>6. /\ \A w \in Visits : w # v => visit'[w] = visit[w]
      /\ visit'[v].pc = "token" /\ visit'[v].user = a /\ visit'[v].subject = s
  BY <1>1, <1>3 DEF SignInInv, SignInTypeOK, VisitStates
<1> HIDE DEF s, a
<1>7. SignInTypeOK'
  BY <1>1, <1>3, <1>4 DEF SignInInv, SignInTypeOK, VisitStates
<1>8. AccountsKnown'
  BY <1>1, <1>2, <1>4, <1>5 DEF SignInInv, AccountsKnown
<1>9. VisitsKnown'
  <2>1. ASSUME NEW w \in Visits, w # v PROVE VisitKnown(visit[w])'
    <3>1. VisitKnown(visit[w]) /\ visit'[w] = visit[w] /\ visit[w] \in VisitStates
      BY <1>6, <2>1 DEF SignInInv, SignInTypeOK, VisitStates, VisitsKnown
    <3>2. ASSUME visit[w].pc = "token", visit[w].subject # NoSubject
          PROVE  identity'[visit[w].subject] = visit[w].user
      <4>1. visit[w].user # 0 /\ visit[w].subject \in Subjects
        BY <3>1, <3>2 DEF VisitKnown, VisitStates, Existing, Ids
      <4> QED BY <1>4, <3>1, <3>2, <4>1 DEF VisitKnown
    <3> QED BY <1>5, <3>1, <3>2 DEF VisitKnown
  <2>2. VisitKnown(visit[v])'
    BY <1>2, <1>4, <1>5, <1>6 DEF VisitKnown
  <2> QED BY <2>1, <2>2 DEF VisitsKnown
<1>10. LoginsKnown'
  <2>1. \A w \in Visits : login[w].subject # NoSubject => login[w].subject \in Subjects
    BY DEF SignInInv, SignInTypeOK
  <2> QED BY <1>1, <1>4, <2>1 DEF SignInInv, LoginsKnown, LoginKnown
<1> QED BY <1>7, <1>8, <1>9, <1>10 DEF SignInInv

\* Sessions begin and end.
LEMMA SessionStep ==
    ASSUME SignInInv, NEW v \in Visits, IssueToken(v) \/ InvalidateToken(v)
    PROVE  SignInInv'
<1>1. UNCHANGED <<userRow, identity, founders>> /\ Existing' = Existing
  BY DEF IssueToken, InvalidateToken, accountVars, Existing
<1>2. /\ visit[v] \in VisitStates /\ VisitKnown(visit[v])
      /\ visit[v].user \in 0..MaxAccounts
  BY DEF SignInInv, SignInTypeOK, VisitsKnown, VisitStates
<1>3. PICK q \in VisitStates : VisitKnown(q) /\ visit' = [visit EXCEPT ![v] = q]
  <2>1. CASE Quit(v)
    BY <2>1, NoVisitKnown DEF Quit
  <2>2. CASE Go(v, "bind") /\ visit[v].pc = "token"
    <3>1. VisitKnown([visit[v] EXCEPT !.pc = "bind"])
      BY <1>2 DEF VisitKnown, VisitStates
    <3> QED BY <2>2, <3>1, GoStep
  <2> QED BY <2>1, <2>2 DEF IssueToken, InvalidateToken
<1>4. PICK l \in LoginStates : LoginKnown(l) /\ login' = [login EXCEPT ![v] = l]
  <2>1. CASE IssueToken(v)
    <3>1. visit[v].pc = "token"
      BY <2>1 DEF IssueToken
    <3>2. visit[v].user \in Existing /\ visit[v].user # 0
      BY <1>2, <3>1 DEF VisitKnown, Existing, Ids
    <3>3. PICK late \in BOOLEAN :
             /\ late <=> (userRow[visit[v].user].email = "scrubbed")
             /\ login' = [login EXCEPT ![v] = [user |-> visit[v].user,
                                               subject |-> visit[v].subject, late |-> late]]
      <4>1. (userRow[visit[v].user].email = "scrubbed") \in BOOLEAN
        OBVIOUS
      <4> QED BY <2>1, <4>1, Zenon DEF IssueToken
    <3> DEFINE l == [user |-> visit[v].user, subject |-> visit[v].subject, late |-> late]
    <3>4. /\ l \in LoginStates /\ l.user = visit[v].user /\ l.subject = visit[v].subject
          /\ l.late = late
      BY <1>2 DEF LoginStates, VisitStates
    <3> HIDE DEF l
    <3>5. LoginKnown(l)
      BY <1>2, <3>1, <3>2, <3>3, <3>4 DEF VisitKnown, LoginKnown
    <3> QED BY <3>3, <3>4, <3>5 DEF l
  <2>2. CASE InvalidateToken(v)
    <3>1. NoLogin \in LoginStates /\ LoginKnown(NoLogin)
      BY SignInAssumption DEF NoLogin, LoginStates, LoginKnown
    <3> QED BY <2>2, <3>1 DEF InvalidateToken
  <2> QED BY <2>1, <2>2
<1>5. SignInTypeOK'
  BY <1>1, <1>3, <1>4 DEF SignInInv, SignInTypeOK, VisitStates, LoginStates
<1>6. AccountsKnown'
  BY <1>1 DEF SignInInv, AccountsKnown
<1>7. /\ \A w \in Visits : visit'[w] = IF w = v THEN q ELSE visit[w]
      /\ \A w \in Visits : login'[w] = IF w = v THEN l ELSE login[w]
  BY <1>3, <1>4 DEF SignInInv, SignInTypeOK
<1>8. VisitsKnown'
  BY <1>1, <1>3, <1>7 DEF SignInInv, VisitsKnown, VisitKnown
<1>9. LoginsKnown'
  BY <1>1, <1>4, <1>7 DEF SignInInv, LoginsKnown, LoginKnown
<1> QED BY <1>5, <1>6, <1>8, <1>9 DEF SignInInv

\* An anonymized account loses its address, its password and its sessions, no more.
LEMMA AnonymizeStep ==
    ASSUME SignInInv, NEW a \in Ids, AnonymizeAccount(a)
    PROVE  SignInInv'
<1>1. /\ userRow[a].email \in Emails
      /\ userRow' = [userRow EXCEPT ![a].email = "scrubbed", ![a].password = FALSE]
      /\ login' = [w \in Visits |-> IF login[w].user = a THEN NoLogin ELSE login[w]]
      /\ UNCHANGED <<identity, founders, visit>>
  BY DEF AnonymizeAccount
<1>2. /\ userRow' \in [Ids -> [email : Emails \cup {"none", "scrubbed"},
                               admin : BOOLEAN, password : BOOLEAN]]
      /\ userRow'[a].email = "scrubbed"
      /\ \A b \in Ids : b # a => userRow'[b] = userRow[b]
  BY <1>1, ZenonT(40) DEF SignInInv, SignInTypeOK
<1>3. Existing' = Existing
  BY <1>1, <1>2, SignInAssumption DEF Existing
<1>4. NoLogin \in LoginStates
  BY SignInAssumption DEF NoLogin, LoginStates
<1>5. SignInTypeOK'
  BY <1>1, <1>2, <1>4 DEF SignInInv, SignInTypeOK, LoginStates
<1>6. AccountsKnown'
  BY <1>1, <1>2, <1>3, SignInAssumption DEF SignInInv, AccountsKnown
<1>7. VisitsKnown'
  BY <1>1, <1>3 DEF SignInInv, VisitsKnown, VisitKnown
<1>8. ASSUME NEW w \in Visits PROVE LoginKnown(login[w])'
  <2>1. CASE login[w].user = a
    BY <1>1, <2>1 DEF NoLogin, LoginKnown
  <2>2. CASE login[w].user # a
    <3>1. login'[w] = login[w] /\ LoginKnown(login[w])
      BY <1>1, <2>2 DEF SignInInv, LoginsKnown
    <3>2. login[w].user # 0 => login[w].user \in Ids
      BY SignInAssumption DEF SignInInv, SignInTypeOK, Ids
    <3> QED BY <1>1, <1>2, <2>2, <3>1, <3>2 DEF LoginKnown
  <2> QED BY <2>1, <2>2
<1> QED BY <1>5, <1>6, <1>7, <1>8 DEF SignInInv, LoginsKnown

\* Every step keeps the invariant, and it holds at the start.
LEMMA SignInKept ==
    /\ SignInInit => SignInInv
    /\ SignInInv /\ [SignInNext]_signInVars => SignInInv'
<1>1. SignInInit => SignInInv
  <2> SUFFICES ASSUME SignInInit PROVE SignInInv
    OBVIOUS
  <2>1. NoVisit \in VisitStates /\ VisitKnown(NoVisit)
    BY NoVisitKnown
  <2>2. /\ NoLogin \in LoginStates /\ LoginKnown(NoLogin)
        /\ NoAccount \in [email : Emails \cup {"none", "scrubbed"}, admin : BOOLEAN,
                          password : BOOLEAN]
        /\ NoAccount.email = "none"
    BY SignInAssumption DEF NoLogin, LoginStates, LoginKnown, NoAccount
  <2>3. SignInTypeOK
    BY <2>1, <2>2, SignInAssumption DEF SignInInit, SignInTypeOK, VisitStates, LoginStates
  <2>4. AccountsKnown
    BY <2>2, SignInAssumption DEF SignInInit, AccountsKnown, Existing
  <2>5. VisitsKnown /\ LoginsKnown
    BY <2>1, <2>2 DEF SignInInit, VisitsKnown, LoginsKnown
  <2> QED BY <2>3, <2>4, <2>5 DEF SignInInv
<1>2. ASSUME SignInInv, UNCHANGED signInVars PROVE SignInInv'
  BY <1>2 DEF signInVars, accountVars, SignInInv, SignInTypeOK, AccountsKnown, VisitsKnown,
              LoginsKnown, VisitKnown, LoginKnown, Existing
<1> QED
  BY <1>1, <1>2, ReadingStep, LookingStep, CreateStep, RoleStep, LinkStep, SessionStep,
     AnonymizeStep DEF SignInNext

\* Accounts, identities, visits and sessions are always of their types.
THEOREM SignInAlwaysTyped == SignInSpec => []SignInTypeOK
  BY SignInKept, PTL DEF SignInSpec, SignInInv

\* One first admin, one account for an address, a session for the account of its
\* identity, and none of an anonymized account but a late one.
THEOREM AccountsAlwaysSound == SignInSpec => []AccountsSound
<1>1. ASSUME SignInInv PROVE AccountsSound
  <2>1. Cardinality(founders) <= 1
    <3>1. Cardinality({1}) = 1 /\ IsFiniteSet({1})
      BY FS_Singleton
    <3>2. founders \in SUBSET {1}
      BY <1>1 DEF SignInInv, AccountsKnown
    <3> QED BY <3>1, <3>2, FS_Subset
  <2>2. ASSUME NEW e \in Emails PROVE Cardinality(OfEmail(e)) <= 1
    <3>1. CASE OfEmail(e) = {}
      BY <3>1, FS_EmptySet
    <3>2. CASE OfEmail(e) # {}
      <4>1. PICK a \in Ids : a \in OfEmail(e)
        BY <3>2 DEF OfEmail
      <4>2. OfEmail(e) = {a}
        BY <1>1, <4>1 DEF OfEmail, SignInInv, AccountsKnown
      <4>3. Cardinality({a}) = 1
        BY FS_Singleton
      <4> QED BY <4>2, <4>3
    <3> QED BY <3>1, <3>2
  <2>3. \A v \in Visits : LoginKnown(login[v])
    BY <1>1 DEF SignInInv, LoginsKnown
  <2> QED BY <2>1, <2>2, <2>3 DEF AccountsSound, LoginKnown
<1> QED BY <1>1, SignInKept, PTL DEF SignInSpec

-----------------------------------------------------------------------------
(* Agent tasks and mailbox *)

\* A request that has not begun holds nothing, a task that was taken is neither new nor
\* offered, and a message that was taken is read.
TakenIsMarked ==
    \A p \in Polls :
        /\ poll[p].pc = "none" => poll[p].got = {}
        /\ \A t \in poll[p].got \cap Tasks : task[t] \notin {"none", "pending"}
        /\ \A l \in poll[p].got \cap Letters : letter[l] = "read"

TasksInv == TasksTypeOK /\ TakenIsMarked /\ TakenOnce

\* A request takes tasks that were offered, and marks them.
LEMMA ListPendingStep ==
    ASSUME TasksInv, NEW p \in Polls, ListPendingAgentTasks(p)
    PROVE  TasksInv'
<1>1. PICK b \in SUBSET Tasks :
         /\ \A t \in b : task[t] = "pending"
         /\ poll[p].pc = "none"
         /\ poll' = [poll EXCEPT ![p] = [pc |-> "answer", got |-> b]]
         /\ task' = [t \in Tasks |-> IF t \in b THEN "assigned" ELSE task[t]]
  BY DEF ListPendingAgentTasks, Batch, Take
<1>2. UNCHANGED <<letter, cancel, agent>>
  BY DEF ListPendingAgentTasks
<1>3. /\ poll'[p].pc = "answer" /\ poll'[p].got = b
      /\ \A q \in Polls : q # p => poll'[q] = poll[q]
      /\ \A t \in b : task'[t] = "assigned"
      /\ \A t \in Tasks : t \notin b => task'[t] = task[t]
  BY <1>1 DEF TasksInv, TasksTypeOK
<1>4. \A q \in Polls : q # p => b \cap poll[q].got = {}
  BY <1>1 DEF TasksInv, TakenIsMarked
<1>5. b \cap Letters = {}
  BY TasksAssumption
<1>6. TasksTypeOK'
  <2>1. [pc |-> "answer", got |-> b] \in [pc : {"none", "answer", "answered", "lost"},
                                          got : SUBSET (Tasks \cup Letters)]
    OBVIOUS
  <2> QED BY <1>1, <1>2, <2>1 DEF TasksInv, TasksTypeOK
<1>7. TakenIsMarked'
  BY <1>2, <1>3, <1>5 DEF TasksInv, TakenIsMarked
<1>8. TakenOnce'
  <2>1. \A q, r \in Polls : q # r => poll'[q].got \cap poll'[r].got = {}
    BY <1>3, <1>4 DEF TasksInv, TakenOnce
  <2>2. \A q \in Polls : \A t \in poll'[q].got \cap Tasks : task'[t] # "pending"
    BY <1>7 DEF TakenIsMarked
  <2> QED BY <2>1, <2>2 DEF TakenOnce
<1> QED BY <1>6, <1>7, <1>8 DEF TasksInv

\* A read of the inbox takes messages that were unread, and marks them.
LEMMA ReadInboxStep ==
    ASSUME TasksInv, NEW p \in Polls, ReadInbox(p)
    PROVE  TasksInv'
<1>1. PICK b \in SUBSET Letters :
         /\ \A l \in b : letter[l] = "unread"
         /\ poll[p].pc = "none"
         /\ poll' = [poll EXCEPT ![p] = [pc |-> "answer", got |-> b]]
         /\ letter' = [l \in Letters |-> IF l \in b THEN "read" ELSE letter[l]]
  BY DEF ReadInbox, Batch, Take
<1>2. UNCHANGED <<task, cancel, agent>>
  BY DEF ReadInbox
<1>3. /\ poll'[p].pc = "answer" /\ poll'[p].got = b
      /\ \A q \in Polls : q # p => poll'[q] = poll[q]
      /\ \A l \in b : letter'[l] = "read"
      /\ \A l \in Letters : l \notin b => letter'[l] = letter[l]
  BY <1>1 DEF TasksInv, TasksTypeOK
<1>4. \A q \in Polls : q # p => b \cap poll[q].got = {}
  BY <1>1 DEF TasksInv, TakenIsMarked
<1>5. b \cap Tasks = {}
  BY TasksAssumption
<1>6. TasksTypeOK'
  <2>1. [pc |-> "answer", got |-> b] \in [pc : {"none", "answer", "answered", "lost"},
                                          got : SUBSET (Tasks \cup Letters)]
    OBVIOUS
  <2> QED BY <1>1, <1>2, <2>1 DEF TasksInv, TasksTypeOK
<1>7. TakenIsMarked'
  BY <1>2, <1>3, <1>5 DEF TasksInv, TakenIsMarked
<1>8. TakenOnce'
  <2>1. \A q, r \in Polls : q # r => poll'[q].got \cap poll'[r].got = {}
    BY <1>3, <1>4 DEF TasksInv, TakenOnce
  <2>2. \A q \in Polls : \A t \in poll'[q].got \cap Tasks : task'[t] # "pending"
    BY <1>7 DEF TakenIsMarked
  <2> QED BY <2>1, <2>2 DEF TakenOnce
<1> QED BY <1>6, <1>7, <1>8 DEF TasksInv

\* No other step takes, offers again or frees what was taken.
LEMMA TasksStep ==
    ASSUME TasksInv, [TasksNext]_taskVars
    PROVE  TasksInv'
<1>1. ASSUME /\ \A p \in Polls : /\ poll'[p].got = poll[p].got
                                 /\ poll'[p].pc = "none" => poll[p].pc = "none"
             /\ \A t \in Tasks : \/ task'[t] = task[t]
                                 \/ task[t] = "none" /\ task'[t] = "pending"
                                 \/ task'[t] \notin {"none", "pending"}
             /\ \A l \in Letters : letter[l] = "read" => letter'[l] = "read"
      PROVE  TakenIsMarked' /\ TakenOnce'
  BY <1>1 DEF TasksInv, TakenIsMarked, TakenOnce
<1>2. ASSUME NEW t \in Tasks, CreateAgentTask(t) PROVE TasksInv'
  <2>1. TasksTypeOK'
    BY <1>2 DEF TasksInv, TasksTypeOK, CreateAgentTask
  <2> QED BY <1>1, <1>2, <2>1 DEF TasksInv, TasksTypeOK, CreateAgentTask
<1>3. ASSUME NEW t \in Tasks, UpdateTaskStatus(t) PROVE TasksInv'
  <2>1. PICK status \in {"running"} \cup Finished :
           /\ task' = [task EXCEPT ![t] = status]
           /\ agent' \in {[agent EXCEPT ![t] = "over"], [agent EXCEPT ![t] = "working"]}
    BY <1>3 DEF UpdateTaskStatus
  <2>2. UNCHANGED <<letter, poll, cancel>>
    BY <1>3 DEF UpdateTaskStatus
  <2>3. TasksTypeOK'
    BY <2>1, <2>2 DEF TasksInv, TasksTypeOK
  <2> QED BY <1>1, <2>1, <2>2, <2>3 DEF TasksInv, TasksTypeOK, Finished
<1>4. ASSUME NEW l \in Letters, SendMessage(l) PROVE TasksInv'
  <2>1. TasksTypeOK'
    BY <1>4 DEF TasksInv, TasksTypeOK, SendMessage
  <2> QED BY <1>1, <1>4, <2>1 DEF TasksInv, TasksTypeOK, SendMessage
<1>5. ASSUME NEW p \in Polls, AnswerPoll(p) \/ AnswerLost(p) PROVE TasksInv'
  <2>1. /\ \E pc \in {"answered", "lost"} : poll' = [poll EXCEPT ![p].pc = pc]
        /\ agent' = agent \/ agent' = [t \in Tasks |-> IF t \in poll[p].got
                                                       THEN "working" ELSE agent[t]]
        /\ UNCHANGED <<task, letter, cancel>>
    BY <1>5 DEF AnswerPoll, AnswerLost
  <2>2. TasksTypeOK'
    BY <2>1 DEF TasksInv, TasksTypeOK
  <2>3. \A q \in Polls : poll'[q].got = poll[q].got /\ (poll'[q].pc = "none" => poll[q].pc = "none")
    BY <2>1 DEF TasksInv, TasksTypeOK
  <2> QED BY <1>1, <2>1, <2>2, <2>3 DEF TasksInv
<1>6. ASSUME NEW c \in Cancels, ReadForCancel(c) \/ WriteCancel(c) PROVE TasksInv'
  <2>1. PICK t \in Tasks : t = cancel[c].of
    BY DEF TasksInv, TasksTypeOK
  <2>2. /\ \E pc \in {"refused", "write", "done"} : cancel' = [cancel EXCEPT ![c].pc = pc]
        /\ task' = task \/ task' = [task EXCEPT ![t] = "cancelled"]
        /\ UNCHANGED <<letter, poll, agent>>
    BY <1>6, <2>1 DEF ReadForCancel, WriteCancel
  <2>3. TasksTypeOK'
    BY <2>2 DEF TasksInv, TasksTypeOK, Finished
  <2>4. \A s \in Tasks : task'[s] = task[s] \/ task'[s] = "cancelled"
    BY <2>2 DEF TasksInv, TasksTypeOK
  <2> QED BY <1>1, <2>2, <2>3, <2>4 DEF TasksInv
<1>7. CASE UNCHANGED taskVars
  BY <1>7 DEF TasksInv, TasksTypeOK, TakenIsMarked, TakenOnce, taskVars
<1> QED
  BY <1>2, <1>3, <1>4, <1>5, <1>6, <1>7, ListPendingStep, ReadInboxStep DEF TasksNext

\* The tasks, messages and requests are always of their types.
THEOREM TasksAlwaysTyped == TasksSpec => []TasksTypeOK
<1>1. TasksInit => TasksInv
  BY DEF TasksInit, TasksInv, TasksTypeOK, TakenIsMarked, TakenOnce
<1> QED BY <1>1, TasksStep, PTL DEF TasksSpec, TasksInv

\* A task or a message is taken by one request at most, and never offered again.
THEOREM AlwaysTakenOnce == TasksSpec => []TakenOnce
<1>1. TasksInit => TasksInv
  BY DEF TasksInit, TasksInv, TasksTypeOK, TakenIsMarked, TakenOnce
<1> QED BY <1>1, TasksStep, PTL DEF TasksSpec, TasksInv

-----------------------------------------------------------------------------
(* Automations *)

\* A run within its lease has the row locked, unless the row is gone.
LeaseIsLock ==
    \A r \in Schedulers : firing[r].lease = "own" =>
        \/ automation.here = "yes" /\ automation.locked = "yes"
        \/ automation.here = "gone"

AutomationInv == AutomationTypeOK /\ LeaseIsLock /\ OneRunInLease

\* Requests leave the lock alone, or end the row for good.
LEMMA AutomationRequests ==
    ASSUME AutomationInv,
           \/ CreateAutomation \/ DeleteAutomation \/ TimeComes
           \/ \E e \in Editors : BeginPatch(e) \/ UpdateAutomation(e)
    PROVE  AutomationInv'
<1>1. firing' = firing /\ crashes' = crashes
  BY Zenon DEF CreateAutomation, DeleteAutomation, TimeComes, BeginPatch, UpdateAutomation
<1>2. /\ automation.here = "yes" =>
            \/ automation'.here = "gone"
            \/ automation'.here = "yes" /\ automation'.locked = automation.locked
      /\ automation.here = "gone" => automation'.here = "gone"
  BY Zenon DEF AutomationInv, AutomationTypeOK, AutomationRows, NoAutomation, Exists,
         CreateAutomation, DeleteAutomation, TimeComes, BeginPatch, UpdateAutomation
<1>3. automation' \in AutomationRows /\ edit' \in [Editors -> Edits]
  <2>1. ASSUME NEW enabled \in BOOLEAN, NEW complete \in BOOLEAN, NEW cron \in Crons
        PROVE  /\ [here |-> "yes", enabled |-> enabled, cron |-> cron, complete |-> complete,
                   next |-> FirstRun(cron), locked |-> "no"] \in AutomationRows
               /\ [pc |-> "write", enabled |-> enabled, cron |-> cron,
                   complete |-> complete] \in Edits
    BY DEF AutomationRows, Edits, FirstRun
  <2>2. NoEdit \in Edits /\ [NoAutomation EXCEPT !.here = "gone"] \in AutomationRows
    BY DEF NoEdit, NoAutomation, Edits, AutomationRows, Crons
  <2>3. CASE CreateAutomation
    BY <2>1, <2>3 DEF AutomationInv, AutomationTypeOK, CreateAutomation
  <2>4. CASE DeleteAutomation
    BY <2>2, <2>4 DEF AutomationInv, AutomationTypeOK, DeleteAutomation
  <2>5. CASE TimeComes
    BY <2>5 DEF AutomationInv, AutomationTypeOK, AutomationRows, TimeComes
  <2>6. ASSUME NEW e \in Editors, BeginPatch(e)
        PROVE  automation' \in AutomationRows /\ edit' \in [Editors -> Edits]
    BY <2>1, <2>6 DEF AutomationInv, AutomationTypeOK, BeginPatch
  <2>7. ASSUME NEW e \in Editors, UpdateAutomation(e)
        PROVE  automation' \in AutomationRows /\ edit' \in [Editors -> Edits]
    <3>1. edit' \in [Editors -> Edits]
      BY <2>2, <2>7, Zenon DEF AutomationInv, AutomationTypeOK, UpdateAutomation
    <3>2. /\ edit[e].enabled \in BOOLEAN /\ edit[e].complete \in BOOLEAN
          /\ edit[e].cron \in Crons
      BY DEF AutomationInv, AutomationTypeOK, Edits
    <3>3. ASSUME NEW enabled \in BOOLEAN, NEW complete \in BOOLEAN, NEW cron \in Crons,
                 NEW next \in {"null", "due", "later"}
          PROVE  [automation EXCEPT !.enabled = enabled, !.cron = cron,
                                    !.complete = complete, !.next = next] \in AutomationRows
      BY DEF AutomationInv, AutomationTypeOK, AutomationRows
    <3>4. (IF edit[e].enabled THEN FirstRun(edit[e].cron) ELSE "null")
             \in {"null", "due", "later"}
      BY DEF FirstRun
    <3>5. CASE Exists
      <4>1. automation' =
              [automation EXCEPT
                 !.enabled = edit[e].enabled, !.cron = edit[e].cron,
                 !.complete = edit[e].complete,
                 !.next = IF edit[e].enabled THEN FirstRun(edit[e].cron) ELSE "null"]
        BY <2>7, <3>5, Zenon DEF UpdateAutomation
      <4> QED BY <3>1, <3>2, <3>3, <3>4, <4>1, Zenon
    <3>6. CASE ~Exists
      BY <2>7, <3>1, <3>6 DEF AutomationInv, AutomationTypeOK, UpdateAutomation
    <3> QED BY <3>5, <3>6
  <2> QED BY <2>3, <2>4, <2>5, <2>6, <2>7
<1> QED
  BY <1>1, <1>2, <1>3 DEF AutomationInv, AutomationTypeOK, LeaseIsLock, OneRunInLease

\* A claim finds nobody within the lease.
LEMMA ClaimStep ==
    ASSUME AutomationInv, NEW r \in Schedulers, ClaimDueAutomations(r)
    PROVE  AutomationInv'
<1>1. automation.here = "yes" /\ automation.locked \in {"no", "expired"}
  BY DEF ClaimDueAutomations, ClaimBy, Due, Exists
<1>2. \A q \in Schedulers : firing[q].lease # "own"
  BY <1>1 DEF AutomationInv, LeaseIsLock
<1>3. PICK next \in {"null", "later"} :
         firing' = [firing EXCEPT ![r] = [pc |-> "batch", lease |-> "own", next |-> next]]
  BY DEF ClaimDueAutomations, ClaimBy, NextRun
<1>4. [pc |-> "batch", lease |-> "own", next |-> next] \in Firings
  BY DEF Firings
<1>5. firing' \in [Schedulers -> Firings] /\ firing'[r].lease = "own"
      /\ \A q \in Schedulers : q # r => firing'[q] = firing[q]
  BY <1>3, <1>4 DEF AutomationInv, AutomationTypeOK
<1>6. /\ automation'.here = "yes" /\ automation'.locked = "yes"
      /\ automation' \in AutomationRows
  BY <1>1 DEF AutomationInv, AutomationTypeOK, AutomationRows, ClaimDueAutomations, ClaimBy
<1>7. UNCHANGED <<edit, crashes>>
  BY DEF ClaimDueAutomations, ClaimBy
<1> QED
  BY <1>2, <1>5, <1>6, <1>7
     DEF AutomationInv, AutomationTypeOK, LeaseIsLock, OneRunInLease

\* The end of a lease, and the steps of a run, give nobody a lease; the lock goes only when
\* no lease is left.
LEMMA RunSteps ==
    ASSUME AutomationInv,
           LeaseExpires \/ \E r \in Schedulers : RunStep(r) \/ CrashOf(r)
    PROVE  AutomationInv'
<1>0. NoRun \in Firings /\ NoRun.lease = "none"
  BY DEF NoRun, Firings
<1>1. ASSUME firing' \in [Schedulers -> Firings], automation' \in AutomationRows,
             UNCHANGED edit, crashes' \in 0 .. MaxCrashes,
             \A q \in Schedulers : firing'[q].lease = "own" => firing[q].lease = "own",
             \/ automation'.here = automation.here /\ automation'.locked = automation.locked
             \/ \A q \in Schedulers : firing'[q].lease # "own"
      PROVE  AutomationInv'
  BY <1>1 DEF AutomationInv, AutomationTypeOK, LeaseIsLock, OneRunInLease
<1>2. CASE LeaseExpires
  <2>1. /\ firing' \in [Schedulers -> Firings]
        /\ \A q \in Schedulers : firing'[q].lease # "own"
    BY <1>2 DEF AutomationInv, AutomationTypeOK, Firings, LeaseExpires
  <2>2. automation' \in AutomationRows
    BY <1>2 DEF AutomationInv, AutomationTypeOK, AutomationRows, LeaseExpires
  <2> QED BY <1>1, <1>2, <2>1, <2>2 DEF AutomationInv, AutomationTypeOK, LeaseExpires
<1>3. ASSUME NEW r \in Schedulers, StartFire(r) \/ FireOpenClaw(r) \/ FireCodex(r)
      PROVE  AutomationInv'
  <2>1. PICK to \in {"openclaw", "codex", "mark"} : firing' = [firing EXCEPT ![r].pc = to]
    BY <1>3 DEF StartFire, FireOpenClaw, FireCodex, StepOf
  <2>2. UNCHANGED <<automation, edit, crashes>>
    BY <1>3 DEF StartFire, FireOpenClaw, FireCodex, StepOf
  <2>3. /\ firing' \in [Schedulers -> Firings]
        /\ \A q \in Schedulers : firing'[q].lease = firing[q].lease
    BY <2>1 DEF AutomationInv, AutomationTypeOK, Firings
  <2> QED BY <1>1, <2>2, <2>3 DEF AutomationInv, AutomationTypeOK
<1>4. ASSUME NEW r \in Schedulers, MarkAutomationRun(r) PROVE AutomationInv'
  <2>1. CASE Exists
    <3>1. firing' = [q \in Schedulers |->
                       IF q = r THEN NoRun
                       ELSE IF firing[q].lease = "own"
                            THEN [firing[q] EXCEPT !.lease = "released"]
                            ELSE firing[q]]
      BY <1>4, <2>1 DEF MarkAutomationRun
    <3>2. /\ firing' \in [Schedulers -> Firings]
          /\ \A q \in Schedulers : firing'[q].lease # "own"
      BY <1>0, <3>1 DEF AutomationInv, AutomationTypeOK, Firings
    <3>3. PICK next \in {"null", "later"} :
             automation' = [automation EXCEPT !.next = next, !.locked = "no"]
      BY <1>4, <2>1 DEF AutomationInv, AutomationTypeOK, Firings, MarkAutomationRun
    <3>4. automation' \in AutomationRows
      BY <3>3 DEF AutomationInv, AutomationTypeOK, AutomationRows
    <3> QED
      BY <1>1, <1>4, <3>2, <3>4 DEF AutomationInv, AutomationTypeOK, MarkAutomationRun
  <2>2. CASE ~Exists
    BY <1>0, <1>1, <1>4, <2>2 DEF AutomationInv, AutomationTypeOK, MarkAutomationRun
  <2> QED BY <2>1, <2>2
<1>5. ASSUME NEW r \in Schedulers, MarkLost(r) \/ CrashOf(r) PROVE AutomationInv'
  <2>1. firing' = [firing EXCEPT ![r] = NoRun] /\ UNCHANGED <<automation, edit>>
    BY <1>5 DEF MarkLost, CrashOf
  <2>2. crashes' \in 0 .. MaxCrashes
    BY <1>5, AutomationAssumption DEF AutomationInv, AutomationTypeOK, MarkLost, CrashOf
  <2> QED BY <1>0, <1>1, <2>1, <2>2 DEF AutomationInv, AutomationTypeOK
<1> QED BY <1>2, <1>3, <1>4, <1>5 DEF RunStep

\* Every step of an automation keeps the invariant, and it holds at the start.
LEMMA AutomationKept ==
    /\ AutomationInit => AutomationInv
    /\ AutomationInv /\ [AutomationNext]_automationVars => AutomationInv'
<1>1. AutomationInit => AutomationInv
  <2>1. NoAutomation \in AutomationRows /\ NoRun \in Firings /\ NoEdit \in Edits
    BY DEF NoAutomation, NoRun, NoEdit, AutomationRows, Firings, Edits, Crons
  <2>2. 0 \in 0 .. MaxCrashes
    BY AutomationAssumption
  <2> QED
    BY <2>1, <2>2 DEF AutomationInit, AutomationInv, AutomationTypeOK, LeaseIsLock,
                      OneRunInLease, NoRun
<1>2. CASE UNCHANGED automationVars
  BY <1>1, <1>2 DEF automationVars, AutomationInv, AutomationTypeOK, LeaseIsLock, OneRunInLease
<1> QED
  BY <1>1, <1>2, AutomationRequests, ClaimStep, RunSteps DEF AutomationNext

\* The row of an automation, its runs and its edits are always of their types.
THEOREM AutomationAlwaysTyped == AutomationSpec => []AutomationTypeOK
  BY AutomationKept, PTL DEF AutomationSpec, AutomationInv

\* Of the overlapping runs of an automation one at most is within its lease, however the
\* replicas, the clock, crashes and edits interleave.
THEOREM AlwaysOneRunInLease == AutomationSpec => []OneRunInLease
  BY AutomationKept, PTL DEF AutomationSpec, AutomationInv

=============================================================================
