----------------------------- MODULE Workspaces -----------------------------
(***************************************************************************)
(* Accounts, and one workspace with its members and invitations.           *)
(* Each handler is a chain of database statements with others in between:  *)
(* registration, the creation of the workspace with its compensations, the *)
(* acceptance of an invitation, the deletion of the workspace (soft) and   *)
(* that of an account (anonymized). A user stands for an email address;    *)
(* the role of an account, admin or user, is left out.                     *)
(***************************************************************************)
EXTENDS Naturals, FiniteSets

CONSTANTS
    Users,     \* email addresses
    Founder    \* the user for whom the workspace is created

ASSUME WorkspaceAssumption == Founder \in Users

VARIABLES
    account,    \* users: none, live or anonymized
    workspace,  \* row of the workspace, and the namespace it names
    cluster,    \* the namespace exists in the cluster
    founding,   \* step of the creation
    undoFailed, \* a compensation of the creation has failed
    members,    \* workspace_members: role, or "none"
    invite,     \* workspace_invites: newest row of each user
    accepting,  \* per user: step of the acceptance
    erasing,    \* users about to be anonymized
    left,       \* users removed from the workspace after they had joined
    deletion    \* step of the deletion of the workspace

foundingVars == <<workspace, cluster, founding, undoFailed>>
memberVars == <<members, left>>
inviteVars == <<invite, accepting>>
workspaceVars == <<account, erasing, foundingVars, memberVars, inviteVars, deletion>>

Roles == {"owner", "developer"}

WorkspacesInit ==
    /\ account = [u \in Users |-> "none"] /\ erasing = {}
    /\ workspace = [row |-> "none", named |-> FALSE] /\ cluster = FALSE
    /\ founding = "none" /\ undoFailed = FALSE
    /\ members = [u \in Users |-> "none"] /\ left = {}
    /\ invite = [u \in Users |-> "none"]
    /\ accepting = [u \in Users |-> "none"]
    /\ deletion = "none"

Owners == {u \in Users : members[u] = "owner"}
Live == workspace.row = "live"

-----------------------------------------------------------------------------
(* handleRegister *)

Register(u) ==
    /\ account[u] = "none"
    /\ account' = [account EXCEPT ![u] = "live"]
    /\ UNCHANGED <<erasing, foundingVars, memberVars, inviteVars, deletion>>

-----------------------------------------------------------------------------
(* handleCreateWorkspace, and createDefaultWorkspace, which leaves what a       *)
(* namespace is missing for the next start of the server                        *)

FoundingAt(from, to) ==
    /\ founding = from /\ founding' = to
    /\ UNCHANGED <<account, erasing, left, inviteVars, deletion>>

CreateWorkspace ==
    /\ account[Founder] = "live"
    /\ FoundingAt("none", "owner")
    /\ workspace' = [row |-> "live", named |-> FALSE]
    /\ UNCHANGED <<cluster, undoFailed, members>>

AddOwner ==
    /\ FoundingAt("owner", "namespace")
    /\ members' = [members EXCEPT ![Founder] = "owner"]
    /\ UNCHANGED <<workspace, cluster, undoFailed>>

EnsureNamespace ==
    /\ FoundingAt("namespace", "name")
    /\ cluster' = TRUE
    /\ UNCHANGED <<workspace, undoFailed, members>>

\* No row is updated, and that is no error, when the workspace is deleted.
SetNamespace ==
    /\ FoundingAt("name", "answer")
    /\ workspace' = [workspace EXCEPT !.named = Live]
    /\ UNCHANGED <<cluster, undoFailed, members>>

AnswerFounder ==
    /\ FoundingAt("answer", IF Live THEN "done" ELSE "failed")
    /\ UNCHANGED <<workspace, cluster, undoFailed, members>>

FoundingFails ==
    /\ \/ FoundingAt("owner", "undo") \/ FoundingAt("namespace", "undo")
       \/ FoundingAt("name", "unname")
    /\ UNCHANGED <<workspace, cluster, undoFailed, members>>

DefaultFoundingFails ==
    /\ \/ FoundingAt("namespace", "done") \/ FoundingAt("name", "done")
    /\ UNCHANGED <<workspace, cluster, undoFailed, members>>

DeleteNamespace ==
    /\ FoundingAt("unname", "undo")
    /\ cluster' \in BOOLEAN
    /\ undoFailed' = (undoFailed \/ cluster')
    /\ UNCHANGED <<workspace, members>>

\* DeleteWorkspace; members and invitations go with the row.
UndoFounding ==
    /\ founding = "undo" /\ founding' = "failed"
    /\ \/ /\ workspace' = [row |-> "gone", named |-> FALSE]
          /\ members' = [u \in Users |-> "none"]
          /\ invite' = [u \in Users |-> "none"]
          /\ UNCHANGED undoFailed
       \/ /\ undoFailed' = TRUE
          /\ UNCHANGED <<workspace, members, invite>>
    /\ UNCHANGED <<account, erasing, cluster, left, accepting, deletion>>

-----------------------------------------------------------------------------
(* Members *)

\* requireWorkspaceRole, which does not look at deleted_at.
Allowed(roles) == \E u \in Users : members[u] \in roles

MembersOnly == UNCHANGED <<account, erasing, foundingVars, inviteVars, deletion>>

\* The row of a member is there already: its key admits one per user.
AddMember(u) ==
    /\ Allowed({"owner"}) /\ account[u] = "live" /\ members[u] = "none"
    /\ \E r \in Roles : members' = [members EXCEPT ![u] = r]
    /\ left' = left \ {u}
    /\ MembersOnly

UpdateMemberRole(u) ==
    /\ Allowed({"owner"}) /\ members[u] # "none"
    /\ \E r \in Roles : members' = [members EXCEPT ![u] = r]
    /\ UNCHANGED left
    /\ MembersOnly

RemoveMember(u) ==
    /\ Allowed({"owner"}) /\ members[u] # "none"
    /\ members' = [members EXCEPT ![u] = "none"]
    /\ left' = left \cup {u}
    /\ MembersOnly

\* handleAdminDeleteUser: the user is nobody's last owner when it asks.
CheckLastOwner(u) ==
    /\ account[u] = "live" /\ u \notin erasing /\ Owners # {u}
    /\ erasing' = erasing \cup {u}
    /\ UNCHANGED <<account, foundingVars, memberVars, inviteVars, deletion>>

\* One transaction, which may fail, and asks no more whose owner he is. That his
\* email could be used again is left out.
AnonymizeUser(u) ==
    /\ u \in erasing /\ erasing' = erasing \ {u}
    /\ \/ /\ account' = [account EXCEPT ![u] = "anonymized"]
          /\ members' = [members EXCEPT ![u] = "none"] /\ left' = left \cup {u}
       \/ UNCHANGED <<account, memberVars>>
    /\ UNCHANGED <<foundingVars, inviteVars, deletion>>

-----------------------------------------------------------------------------
(* Invitations *)

InvitesOnly == UNCHANGED <<erasing, foundingVars, deletion>>

\* One invitation that is not accepted, expired or not, at a time.
CreateInvite(u) ==
    /\ Allowed({"owner"}) /\ Live /\ account[u] # "anonymized"
    /\ invite[u] \in {"none", "accepted"}
    /\ invite' = [invite EXCEPT ![u] = "pending"]
    /\ UNCHANGED <<account, memberVars, accepting>> /\ InvitesOnly

ExpireInvite(u) ==
    /\ invite[u] = "pending"
    /\ invite' = [invite EXCEPT ![u] = "expired"]
    /\ UNCHANGED <<account, memberVars, accepting>> /\ InvitesOnly

DeleteInvite(u) ==
    /\ Allowed({"owner"}) /\ invite[u] \in {"pending", "expired"}
    /\ invite' = [invite EXCEPT ![u] = "none"]
    /\ UNCHANGED <<account, memberVars, accepting>> /\ InvitesOnly

AcceptAt(u, from, to) ==
    /\ accepting[u] = from /\ accepting' = [accepting EXCEPT ![u] = to]

ReadInvite(u) ==
    /\ AcceptAt(u, "none", "user") /\ invite[u] = "pending" /\ Live
    /\ UNCHANGED <<account, memberVars, invite>> /\ InvitesOnly

\* A new user is registered; one that exists logs in.
AcceptUser(u) ==
    /\ AcceptAt(u, "user", "join")
    /\ \/ account[u] = "none" /\ account' = [account EXCEPT ![u] = "live"]
       \/ account[u] = "live" /\ UNCHANGED account
    /\ UNCHANGED <<memberVars, invite>> /\ InvitesOnly

\* Mutant: an error of the insertion is logged, and the invitation used up.
JoinOrNot(u) ==
    /\ AcceptAt(u, "join", "mark")
    /\ \/ members' = [members EXCEPT ![u] = "developer"] /\ left' = left \ {u}
       \/ UNCHANGED memberVars
    /\ UNCHANGED <<account, invite>> /\ InvitesOnly

\* A member stays what he is. The row of an anonymized user is still there.
JoinByInvite(u) ==
    /\ AcceptAt(u, "join", "mark") /\ workspace.row \in {"live", "deleted"}
    /\ IF members[u] # "none" THEN UNCHANGED memberVars
       ELSE /\ \E r \in Roles : members' = [members EXCEPT ![u] = r]
            /\ left' = left \ {u}
    /\ UNCHANGED <<account, invite>> /\ InvitesOnly

\* MarkInviteAccepted; that the row is gone is no error.
MarkInviteAccepted(u) ==
    /\ AcceptAt(u, "mark", "none")
    /\ invite' = [invite EXCEPT ![u] = IF @ = "none" THEN @ ELSE "accepted"]
    /\ UNCHANGED <<account, memberVars>> /\ InvitesOnly

\* A wrong password, or a statement that fails.
AcceptFails(u) ==
    /\ \E from \in {"user", "join", "mark"} : AcceptAt(u, from, "none")
    /\ UNCHANGED <<account, memberVars, invite>> /\ InvitesOnly

-----------------------------------------------------------------------------
(* handleDeleteWorkspace *)

DeletionAt(from, to) ==
    /\ deletion = from /\ deletion' = to
    /\ UNCHANGED <<account, erasing, cluster, founding, undoFailed, memberVars, inviteVars>>

\* The sandboxes are stopped as handleDeleteSandbox does it.
BeginDeletion ==
    /\ Allowed({"owner"}) /\ Live
    /\ DeletionAt("none", "stopped")
    /\ UNCHANGED workspace

SoftDeleteWorkspace ==
    /\ Live
    /\ DeletionAt("stopped", "done")
    /\ workspace' = [workspace EXCEPT !.row = "deleted"]

DeletionFails ==
    /\ DeletionAt("stopped", "none")
    /\ UNCHANGED workspace

-----------------------------------------------------------------------------
UserStep(u) ==
    \/ Register(u) \/ CheckLastOwner(u) \/ AnonymizeUser(u)
    \/ AddMember(u) \/ UpdateMemberRole(u) \/ RemoveMember(u)
    \/ CreateInvite(u) \/ ExpireInvite(u) \/ DeleteInvite(u)
    \/ ReadInvite(u) \/ AcceptUser(u) \/ JoinByInvite(u) \/ MarkInviteAccepted(u)
    \/ AcceptFails(u)

WorkspacesNext ==
    \/ CreateWorkspace \/ AddOwner \/ EnsureNamespace \/ SetNamespace \/ AnswerFounder
    \/ FoundingFails \/ DefaultFoundingFails \/ DeleteNamespace \/ UndoFounding
    \/ BeginDeletion \/ SoftDeleteWorkspace \/ DeletionFails
    \/ \E u \in Users : UserStep(u)

WorkspacesSpec == WorkspacesInit /\ [][WorkspacesNext]_workspaceVars

-----------------------------------------------------------------------------
(* Properties *)

WorkspacesTypeOK ==
    /\ account \in [Users -> {"none", "live", "anonymized"}]
    /\ workspace \in [row : {"none", "live", "deleted", "gone"}, named : BOOLEAN]
    /\ cluster \in BOOLEAN /\ undoFailed \in BOOLEAN /\ left \cup erasing \subseteq Users
    /\ founding \in {"none", "owner", "namespace", "name", "answer", "unname", "undo",
                     "done", "failed"}
    /\ members \in [Users -> Roles \cup {"none"}]
    /\ invite \in [Users -> {"none", "pending", "expired", "accepted"}]
    /\ accepting \in [Users -> {"none", "user", "join", "mark"}]
    /\ deletion \in {"none", "stopped", "done"}

\* A creation that has failed leaves nothing a user could see, unless undoing it
\* has failed too: no row in use, no members (handleCreateWorkspace).
FailureLeavesNothing ==
    founding = "failed" => undoFailed \/ workspace.row \in {"gone", "deleted"}

\* An invitation is used up only for a membership: whoever's was accepted is a
\* member, unless he was removed since (handleAcceptInvite, with any of its
\* statements failing and invitations revoked, expired or renewed meanwhile).
InviteNotWasted ==
    \A u \in Users : invite[u] = "accepted" => members[u] # "none" \/ u \in left

\* Neither a failed creation nor an invitation that was accepted leaves half of
\* what it was for.
NothingHalfDone == FailureLeavesNothing /\ InviteNotWasted
=============================================================================
