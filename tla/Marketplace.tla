---------------------------- MODULE Marketplace ----------------------------
(***************************************************************************)
(* Who reads the text of a draft of the playground: its author, the        *)
(* members of its workspace, everybody once it is shared in the            *)
(* marketplace or is of no workspace; and who writes it: its author, by a  *)
(* patch, a fork of what is shared, an import. A handler reads             *)
(* memberships, roles and rows in statements of their own and writes in a  *)
(* later one. Promotion and publication do not touch the text: they are in *)
(* Drafts. Skills and souls have a table each, with the same code twice: a *)
(* behaviour is about one of them.                                         *)
(***************************************************************************)
EXTENDS FiniteSets, Naturals

CONSTANTS
    Items,          \* rows of the table, and the texts their authors write
    Persons,        \* users
    Curator,        \* the administrator among them
    Teams,          \* workspaces
    System,         \* the workspace of a draft that has none
    Calls,          \* requests under way at once
    NoItem,         \* the draft of a request without one; the empty text
    NoPerson,       \* the author of a row that is not there
    MaxPerAuthor,   \* playgroundMaxDraftsPerUser
    Movers,         \* bound: users whose membership changes
    MaxMoves        \* bound: changes of membership

ASSUME MarketplaceAssumption ==
    /\ NoItem \notin Items /\ NoPerson \notin Persons /\ Curator \in Persons
    /\ Movers \subseteq Persons
    /\ System \notin Teams /\ {MaxPerAuthor, MaxMoves} \subseteq Nat

VARIABLES
    table,      \* the table the requests are about
    item,       \* per row: its columns
    role,       \* per workspace and user: the role of the member
    call,       \* per request: its step and what it has read
    offered,    \* history: texts shared, or everybody's, in the draft they are of
    belonged,   \* history, per user: workspaces he has been a member of
    moves

marketVars == <<table, item, role, call, offered, belonged, moves>>

NoItemRow == [status |-> "none", author |-> NoPerson, team |-> System,
          shared |-> FALSE, text |-> NoItem, forkOf |-> NoItem]
NoCall == [pc |-> "idle", user |-> NoPerson, item |-> NoItem,
           team |-> System, text |-> NoItem, teams |-> {}, answer |-> {}]

MyTeams(u) == {w \in Teams : role[w][u] # "none"}

MarketInit ==
    /\ table \in {"skill", "soul"}
    /\ item = [d \in Items |-> NoItemRow]
    /\ role = [w \in Teams |->
                 [u \in Persons |-> IF u = Curator THEN "none" ELSE "maintainer"]]
    /\ call = [c \in Calls |-> NoCall]
    /\ offered = {NoItem}
    /\ belonged = [u \in Persons |-> MyTeams(u)]
    /\ moves = 0

InRow(d) == item[d].status # "none"
Listed(d) == InRow(d) /\ item[d].status # "archived"

Skills == table = "skill"
Souls == table = "soul"

Store(rows) ==
    /\ item' = rows
    /\ offered' = offered \cup {d \in Items : /\ rows[d].text = d
                                           /\ (rows[d].shared \/ rows[d].team = System)}
    /\ UNCHANGED <<table, role, belonged, moves>>
NoStore == UNCHANGED <<table, item, role, offered, belonged, moves>>

Arrive(c, step) == call[c].pc = "idle" /\ call' = [call EXCEPT ![c] = step]
Become(c, step) == call' = [call EXCEPT ![c] = step]
AnswerCall(c) == call' = [call EXCEPT ![c] = NoCall]
AnswerWith(c, u, texts) ==
    call' = [call EXCEPT ![c] = [NoCall EXCEPT !.pc = "answer", !.user = u, !.answer = texts]]

-----------------------------------------------------------------------------
(* New drafts: created, forked, imported *)

\* Rows of the other status values count; archived ones do not.
Authored(u) == {d \in Items : Listed(d) /\ item[d].author = u}

Count(c, u) ==
    /\ Cardinality(Authored(u)) < MaxPerAuthor
    /\ Arrive(c, [NoCall EXCEPT !.pc = "resolve", !.user = u])
    /\ NoStore
CreateSkillDraft(c, u) == Skills /\ Count(c, u)
CreateSoulDraft(c, u) == Souls /\ Count(c, u)

\* A fork is not counted.
Fork(c, u, d) ==
    /\ InRow(d)
    /\ Arrive(c, [NoCall EXCEPT !.pc = "resolve", !.user = u, !.item = d])
    /\ NoStore
ForkMarketplaceSkill(c, u, d) == Skills /\ Fork(c, u, d)
ForkMarketplaceSoul(c, u, d) == Souls /\ Fork(c, u, d)

\* The workspace that is asked for, or the first of the caller's; none, which
\* makes the draft everybody's, when he has none or they cannot be read. One
\* that is not his is refused, and nothing changes.
ResolveDraftWorkspace(c) ==
    /\ call[c].pc = "resolve"
    /\ \E w \in MyTeams(call[c].user) \cup {System} :
          Become(c, [call[c] EXCEPT !.team = w,
                       !.pc = IF call[c].item = NoItem THEN "insert" ELSE "source"])
    /\ NoStore

\* The status of the source is not asked for.
ReadSource(c) ==
    /\ call[c].pc = "source"
    /\ IF item[call[c].item].shared
       THEN Become(c, [call[c] EXCEPT !.pc = "insert", !.text = item[call[c].item].text])
       ELSE AnswerCall(c)
    /\ NoStore

\* Mutant: a fork of whatever draft is named.
ForkAny(c) ==
    /\ Skills
    /\ call[c].pc = "source"
    /\ Become(c, [call[c] EXCEPT !.pc = "insert", !.text = item[call[c].item].text])
    /\ NoStore

ForkSkillDraft(c) == Skills /\ ReadSource(c)
ForkSoulDraft(c) == Souls /\ ReadSource(c)

\* The name of a fork follows from that of its source, and an author has each
\* name once, archived drafts included.
InsertDraft(c, d) ==
    /\ call[c].pc = "insert"
    /\ ~InRow(d)
    /\ LET s == call[c].item IN
       IF s # NoItem /\ \E e \in Items : item[e].forkOf = s /\ item[e].author = call[c].user
       THEN NoStore
       ELSE Store([item EXCEPT ![d] =
              [NoItemRow EXCEPT !.status = "draft", !.author = call[c].user,
                 !.team = call[c].team, !.text = call[c].text, !.forkOf = s]])
    /\ AnswerCall(c)
InsertSkillDraft(c, d) == Skills /\ InsertDraft(c, d)
InsertSoulDraft(c, d) == Souls /\ InsertDraft(c, d)

\* Three statements, each of which may fail and end the request.
Import(c, d) ==
    /\ ~InRow(d)
    /\ Arrive(c, [NoCall EXCEPT !.pc = "content", !.user = Curator, !.item = d])
    /\ Store([item EXCEPT ![d] =
              [NoItemRow EXCEPT !.status = "draft", !.author = Curator]])
ImportMarketplaceSkill(c, d) == Skills /\ Import(c, d)
ImportMarketplaceSoul(c, d) == Souls /\ Import(c, d)

ImportContent(c) ==
    LET d == call[c].item IN
    /\ call[c].pc = "content"
    /\ \/ /\ item[d].status # "archived"
          /\ Store([item EXCEPT ![d].text = d])
          /\ Become(c, [call[c] EXCEPT !.pc = "share"])
       \/ AnswerCall(c) /\ NoStore

ImportShared(c) ==
    /\ call[c].pc = "share"
    /\ Store([item EXCEPT ![call[c].item].shared = TRUE]) \/ NoStore
    /\ AnswerCall(c)

-----------------------------------------------------------------------------
(* The author and the members *)

\* Published drafts are edited in place; promoted ones are locked, but only
\* for who asks before.
Edit(c, u, d) ==
    /\ item[d].author = u /\ item[d].status = "draft"
    /\ Arrive(c, [NoCall EXCEPT !.pc = "write", !.user = u, !.item = d])
    /\ NoStore
PatchSkillDraft(c, u, d) == Skills /\ Edit(c, u, d)
PatchSoulDraft(c, u, d) == Souls /\ Edit(c, u, d)

Rewrite(c) ==
    LET d == call[c].item IN
    /\ call[c].pc = "write"
    /\ IF item[d].status # "archived" THEN Store([item EXCEPT ![d].text = d]) ELSE NoStore
    /\ AnswerCall(c)
UpdateSkillDraftFiles(c) == Skills /\ Rewrite(c)
UpdateSoulDraft(c) == Souls /\ Rewrite(c)

\* The author never changes, so the row may be read with the write.
Archive(u, d) ==
    /\ InRow(d)
    /\ u \in {item[d].author, Curator}
    /\ Store([item EXCEPT ![d].status = "archived"])
    /\ UNCHANGED call
ArchiveSkillDraft(u, d) == Skills /\ Archive(u, d)
ArchiveSoulDraft(u, d) == Souls /\ Archive(u, d)

\* The row first, the memberships after.
GetDraft(c, u, d) ==
    /\ InRow(d)
    /\ Arrive(c, [NoCall EXCEPT !.pc = "get", !.user = u, !.item = d,
                                !.text = item[d].text])
    /\ NoStore
GetSkillDraft(c, u, d) == Skills /\ GetDraft(c, u, d)
GetSoulDraft(c, u, d) == Souls /\ GetDraft(c, u, d)

AnswerGet(c) ==
    LET d == call[c].item
        u == call[c].user IN
    /\ call[c].pc = "get"
    /\ IF item[d].author = u \/ item[d].team \in MyTeams(u) \cup {System}
       THEN AnswerWith(c, u, {call[c].text})
       ELSE AnswerCall(c)
    /\ NoStore

\* The memberships first, the rows after; no memberships if they cannot be
\* read.
List(c, u) ==
    /\ \E teams \in {MyTeams(u), {}} :
          Arrive(c, [NoCall EXCEPT !.pc = "list", !.user = u, !.teams = teams])
    /\ NoStore
ListSkillDrafts(c, u) == Skills /\ List(c, u)
ListSoulDrafts(c, u) == Souls /\ List(c, u)

InScope(c) ==
    {d \in Items : /\ Listed(d)
                   /\ \/ item[d].author = call[c].user
                      \/ item[d].team \in call[c].teams \cup {System}}
AnswerList(c) ==
    /\ call[c].pc = "list"
    /\ AnswerWith(c, call[c].user, {item[d].text : d \in InScope(c)})
    /\ NoStore
ListSkillDraftsForScope(c) == Skills /\ AnswerList(c)
ListSoulDraftsForScope(c) == Souls /\ AnswerList(c)

-----------------------------------------------------------------------------
(* The marketplace *)

\* The role counts when it is read; a draft of no workspace is left to the
\* administrator.
AskVisibility(c, u, d) ==
    /\ InRow(d) /\ item[d].team # System
    /\ role[item[d].team][u] = "maintainer"
    /\ Arrive(c, [NoCall EXCEPT !.pc = "visibility", !.user = u, !.item = d])
    /\ NoStore
AuthorSetSkillVisibility(c, u, d) == Skills /\ AskVisibility(c, u, d)
AuthorSetSoulVisibility(c, u, d) == Souls /\ AskVisibility(c, u, d)

\* Of whatever status.
SetVisibility(d) == \E shared \in BOOLEAN : Store([item EXCEPT ![d].shared = shared])
PatchVisibility(c) ==
    /\ call[c].pc = "visibility"
    /\ SetVisibility(call[c].item)
    /\ AnswerCall(c)
SetSkillDraftVisibility(c) == Skills /\ PatchVisibility(c)
SetSoulDraftVisibility(c) == Souls /\ PatchVisibility(c)

AdminVisibility(d) == InRow(d) /\ SetVisibility(d) /\ UNCHANGED call
AdminSetSkillVisibility(d) == Skills /\ AdminVisibility(d)
AdminSetSoulVisibility(d) == Souls /\ AdminVisibility(d)

\* A preview and an export, which also take archived drafts; the list, of the
\* others, shows no more.
Preview(c, u, d) ==
    /\ call[c].pc = "idle"
    /\ InRow(d) /\ item[d].shared
    /\ AnswerWith(c, u, {item[d].text})
    /\ NoStore
PreviewMarketplaceSkill(c, u, d) == Skills /\ Preview(c, u, d)
PreviewMarketplaceSoul(c, u, d) == Souls /\ Preview(c, u, d)

Export(c, u, d) == Preview(c, u, d)
ExportMarketplaceSkill(c, u, d) == Skills /\ Export(c, u, d)
ExportMarketplaceSoul(c, u, d) == Souls /\ Export(c, u, d)

ListShared(c, u) ==
    /\ call[c].pc = "idle"
    /\ AnswerWith(c, u, {item[d].text : d \in {e \in Items : Listed(e) /\ item[e].shared}})
    /\ NoStore
ListMarketplaceSkills(c, u) == Skills /\ ListShared(c, u)
ListMarketplaceSouls(c, u) == Souls /\ ListShared(c, u)

\* Owners of the workspaces.
Move(w, u) ==
    /\ moves < MaxMoves
    /\ moves' = moves + 1
    /\ \E r \in {"none", "developer", "maintainer"} \ {role[w][u]} :
          role' = [role EXCEPT ![w][u] = r]
    /\ belonged' = [belonged EXCEPT ![u] = @ \cup {w}]
    /\ UNCHANGED <<table, item, call, offered>>

CallAnswered(c) == call[c].pc = "answer" /\ AnswerCall(c) /\ NoStore

MarketNext ==
    \/ \E c \in Calls, u \in Persons :
          \/ CreateSkillDraft(c, u) \/ CreateSoulDraft(c, u)
          \/ ListSkillDrafts(c, u) \/ ListSoulDrafts(c, u)
          \/ ListMarketplaceSkills(c, u) \/ ListMarketplaceSouls(c, u)
    \/ \E c \in Calls, u \in Persons, d \in Items :
          \/ ForkMarketplaceSkill(c, u, d) \/ ForkMarketplaceSoul(c, u, d)
          \/ PatchSkillDraft(c, u, d) \/ PatchSoulDraft(c, u, d)
          \/ GetSkillDraft(c, u, d) \/ GetSoulDraft(c, u, d)
          \/ PreviewMarketplaceSkill(c, u, d) \/ PreviewMarketplaceSoul(c, u, d)
          \/ ExportMarketplaceSkill(c, u, d) \/ ExportMarketplaceSoul(c, u, d)
          \/ AuthorSetSkillVisibility(c, u, d) \/ AuthorSetSoulVisibility(c, u, d)
    \/ \E c \in Calls :
          \/ CallAnswered(c)
          \/ ResolveDraftWorkspace(c)
          \/ ForkSkillDraft(c) \/ ForkSoulDraft(c)
          \/ ImportContent(c) \/ ImportShared(c)
          \/ UpdateSkillDraftFiles(c) \/ UpdateSoulDraft(c)
          \/ AnswerGet(c)
          \/ ListSkillDraftsForScope(c) \/ ListSoulDraftsForScope(c)
          \/ SetSkillDraftVisibility(c) \/ SetSoulDraftVisibility(c)
    \/ \E c \in Calls, d \in Items :
          \/ InsertSkillDraft(c, d) \/ InsertSoulDraft(c, d)
          \/ ImportMarketplaceSkill(c, d) \/ ImportMarketplaceSoul(c, d)
    \/ \E u \in Persons, d \in Items :
          \/ ArchiveSkillDraft(u, d) \/ ArchiveSoulDraft(u, d)
    \/ \E d \in Items : AdminSetSkillVisibility(d) \/ AdminSetSoulVisibility(d)
    \/ \E w \in Teams, u \in Movers : Move(w, u)

MarketSpec == MarketInit /\ [][MarketNext]_marketVars

-----------------------------------------------------------------------------

Texts == Items \cup {NoItem}

ItemRows ==
    [status : {"none", "draft", "archived"}, author : Persons \cup {NoPerson},
     team : Teams \cup {System}, shared : BOOLEAN, text : Texts, forkOf : Texts]

CallStates ==
    [pc : {"idle", "resolve", "source", "insert", "content", "share", "write", "get",
           "list", "visibility", "answer"},
     user : Persons \cup {NoPerson}, item : Texts, team : Teams \cup {System},
     text : Texts, teams : SUBSET Teams, answer : SUBSET Texts]

MarketTypeOK ==
    /\ table \in {"skill", "soul"}
    /\ item \in [Items -> ItemRows]
    /\ role \in [Teams -> [Persons -> {"none", "developer", "maintainer"}]]
    /\ call \in [Calls -> CallStates]
    /\ offered \subseteq Texts
    /\ belonged \in [Persons -> SUBSET Teams]
    /\ moves \in 0..MaxMoves

\* A user is answered the text of a draft of another only if it has been shared
\* or everybody's, or he has been a member of the workspace of that draft:
\* whatever changes between the statements of a handler, and over any chain of
\* forks. The 403s of playground_handlers.go and the 404s of
\* playground_marketplace.go.
AnswersAreOpen ==
    \A c \in Calls : \A t \in call[c].answer :
        \/ t \in offered
        \/ item[t].author = call[c].user
        \/ item[t].team \in belonged[call[c].user]
=============================================================================
