------------------------------- MODULE Drafts -------------------------------
(***************************************************************************)
(* The drafts of the playground that carry one name in one workspace, each *)
(* of an author of its own: what the requests make of their rows, the      *)
(* promotion of a draft, which builds a branch and a pull request on       *)
(* GitHub between two writes of the row, and the pollers that copy the     *)
(* state of the pull requests back. Skills and souls have the same code    *)
(* twice; the model is of either. What a draft contains is left out.       *)
(***************************************************************************)
EXTENDS FiniteSets, Naturals

CONSTANTS
    Drafts,         \* drafts with the same name, of different authors
    Promoters,      \* requests to promote under way at once
    PRPollers,      \* replicas of agentserver, one poller each
    NoDraft,        \* the draft of a request or of a poller that has none
    MaxRestarts     \* bound: restarts of the server

ASSUME DraftsAssumption == NoDraft \notin Drafts /\ MaxRestarts \in Nat

VARIABLES
    row,        \* per draft: status, url and prState of its row
    github,     \* per draft: its branch, its file there, its pull request
    promoter,   \* per request: its step and its draft
    prPoller,   \* per poller: its step, its list, what it holds of one row
    unfinished, \* history: drafts whose last write of a promotion was lost
    restarts

draftVars == <<row, github, promoter, prPoller, unfinished, restarts>>

NewRow == [status |-> "none", url |-> FALSE, prState |-> "null"]
NewBranch == [branch |-> FALSE, file |-> FALSE, pr |-> "none"]
IdlePromoter == [pc |-> "idle", draft |-> NoDraft]
IdlePoller == [pc |-> "idle", todo |-> {}, draft |-> NoDraft,
               seen |-> "null"]

DraftsInit ==
    /\ row = [d \in Drafts |-> NewRow]
    /\ github = [d \in Drafts |-> NewBranch]
    /\ promoter = [h \in Promoters |-> IdlePromoter]
    /\ prPoller = [p \in PRPollers |-> IdlePoller]
    /\ unfinished = {}
    /\ restarts = 0

\* Get*Draft answers every row, the archived ones too.
InTable(d) == row[d].status # "none"

SetStatus(d, status) == row' = [row EXCEPT ![d].status = status]

-----------------------------------------------------------------------------
(* Requests of one statement or one transaction *)

\* The quota of 50 is out of reach of these few drafts.
CreateDraft(d) ==
    /\ ~InTable(d)
    /\ SetStatus(d, "draft")
    /\ UNCHANGED <<github, promoter, prPoller, unfinished, restarts>>

\* Of whatever status: neither write asks for it.
ArchiveDraft(d) ==
    /\ InTable(d)
    /\ SetStatus(d, "archived")
    /\ UNCHANGED <<github, promoter, prPoller, unfinished, restarts>>

\* Demotes the published draft of the name and publishes this one, whatever
\* else its status is. Of two at once the unique index fails the second.
PublishDraft(d) ==
    /\ InTable(d)
    /\ row[d].status # "archived"
    /\ row' = [e \in Drafts |->
                 [row[e] EXCEPT !.status = CASE e = d -> "published"
                                             [] e # d /\ @ = "published" -> "draft"
                                             [] OTHER -> @]]
    /\ UNCHANGED <<github, promoter, prPoller, unfinished, restarts>>

-----------------------------------------------------------------------------
(* Promotion *)

\* The compare-and-set, after the checks of role, author and content; a row
\* that is not a draft answers 409 and nothing changes.
TryPromote(h, d) ==
    /\ promoter[h].pc = "idle"
    /\ row[d].status = "draft"
    /\ SetStatus(d, "promoting")
    /\ promoter' = [promoter EXCEPT ![h] = [pc |-> "branch", draft |-> d]]
    /\ UNCHANGED <<github, prPoller, unfinished, restarts>>

\* One call of promoteToGitHub: done and answered, not done, or done with the
\* answer lost, which the handler takes for a failure.
Call(h, next, done) ==
    /\ \/ github' = done /\ promoter' = [promoter EXCEPT ![h].pc = next]
       \/ UNCHANGED github /\ promoter' = [promoter EXCEPT ![h].pc = "revert"]
       \/ github' = done /\ promoter' = [promoter EXCEPT ![h].pc = "revert"]
    /\ UNCHANGED <<row, prPoller, unfinished, restarts>>

\* "Reference already exists" is not a failure.
CreateBranch(h) ==
    LET d == promoter[h].draft IN
    /\ promoter[h].pc = "branch"
    /\ Call(h, "file", [github EXCEPT ![d].branch = TRUE])

\* Mutant: a refused file returns without the revert.
PutWithoutRevert(h) ==
    LET d == promoter[h].draft IN
    /\ promoter[h].pc = "file"
    /\ IF github[d].file
       THEN /\ promoter' = [promoter EXCEPT ![h] = IdlePromoter]
            /\ UNCHANGED <<row, github, prPoller, unfinished, restarts>>
       ELSE Call(h, "pull", [github EXCEPT ![d].file = TRUE])

\* Without the sha GitHub refuses a file that is there.
PutFile(h) ==
    LET d == promoter[h].draft IN
    /\ promoter[h].pc = "file"
    /\ IF github[d].file
       THEN /\ promoter' = [promoter EXCEPT ![h].pc = "revert"]
            /\ UNCHANGED <<row, github, prPoller, unfinished, restarts>>
       ELSE Call(h, "pull", [github EXCEPT ![d].file = TRUE])

OpenPR(h) ==
    LET d == promoter[h].draft IN
    /\ promoter[h].pc = "pull"
    /\ Call(h, "complete", [github EXCEPT ![d].pr = "open"])

Written(h) ==
    /\ promoter' = [promoter EXCEPT ![h] = IdlePromoter]
    /\ UNCHANGED <<github, prPoller, restarts>>

\* Whatever the status is by now.
CompletePromote(h) ==
    LET d == promoter[h].draft IN
    /\ promoter[h].pc = "complete"
    /\ \/ /\ row' = [row EXCEPT ![d].status = "promoted", ![d].url = TRUE]
          /\ unfinished' = unfinished \ {d}
       \/ unfinished' = unfinished \cup {d} /\ UNCHANGED row
    /\ Written(h)

\* The error of the revert is dropped.
RevertPromote(h) ==
    LET d == promoter[h].draft IN
    /\ promoter[h].pc = "revert"
    /\ \/ /\ IF row[d].status = "promoting" THEN SetStatus(d, "draft") ELSE UNCHANGED row
          /\ unfinished' = unfinished \ {d}
       \/ unfinished' = unfinished \cup {d} /\ UNCHANGED row
    /\ Written(h)

Promoting(h) == promoter[h].pc # "idle"

\* The server stops in the middle of what its handlers and pollers do; no code
\* looks for rows left at "promoting".
RestartServer ==
    /\ restarts < MaxRestarts
    /\ restarts' = restarts + 1
    /\ unfinished' = unfinished \cup {promoter[h].draft : h \in {g \in Promoters : Promoting(g)}}
    /\ promoter' = [h \in Promoters |-> IdlePromoter]
    /\ prPoller' = [p \in PRPollers |-> IdlePoller]
    /\ UNCHANGED <<row, github>>

-----------------------------------------------------------------------------
(* The pollers of pull requests *)

Unsettled == {"null", "open"}

\* ListPromotedDraftsForPolling.
ToPoll == {d \in Drafts : /\ row[d].status = "promoted"
                          /\ row[d].url
                          /\ row[d].prState \in Unsettled}

\* A tick: the list, with the states the rows had then.
ListForPolling(p) ==
    /\ prPoller[p].pc = "idle"
    /\ ToPoll # {}
    /\ prPoller' = [prPoller EXCEPT
          ![p] = [IdlePoller EXCEPT
                    !.pc = "polling", !.todo = {<<d, row[d].prState>> : d \in ToPoll}]]
    /\ UNCHANGED <<row, github, promoter, unfinished, restarts>>

\* What the poller is at once a row is dealt with.
Rest(todo) ==
    IF todo = {} THEN IdlePoller ELSE [IdlePoller EXCEPT !.pc = "polling", !.todo = todo]

\* A state that is the one listed is not written.
FetchPRState(p, d) ==
    /\ prPoller[p].pc = "polling"
    /\ \E entry \in prPoller[p].todo :
          LET todo == prPoller[p].todo \ {entry} IN
          /\ entry[1] = d
          /\ prPoller' = [prPoller EXCEPT
                ![p] = IF github[d].pr = entry[2]
                       THEN Rest(todo)
                       ELSE [pc |-> "write", todo |-> todo, draft |-> d,
                             seen |-> github[d].pr]]
    /\ UNCHANGED <<row, github, promoter, unfinished, restarts>>

\* GitHub does not answer, or with a status other than 2xx and 404.
FetchFails(p, d) ==
    /\ prPoller[p].pc = "polling"
    /\ \E entry \in prPoller[p].todo :
          /\ entry[1] = d
          /\ prPoller' = [prPoller EXCEPT ![p] = Rest(prPoller[p].todo \ {entry})]
    /\ UNCHANGED <<row, github, promoter, unfinished, restarts>>

\* By the id alone. An error is logged.
UpdatePRState(p, d) ==
    /\ prPoller[p].pc = "write"
    /\ prPoller[p].draft = d
    /\ row' = [row EXCEPT ![d].prState = prPoller[p].seen]
    /\ prPoller' = [prPoller EXCEPT ![p] = Rest(prPoller[p].todo)]
    /\ UNCHANGED <<github, promoter, unfinished, restarts>>

UpdatePRFails(p) ==
    /\ prPoller[p].pc = "write"
    /\ prPoller' = [prPoller EXCEPT ![p] = Rest(prPoller[p].todo)]
    /\ UNCHANGED <<row, github, promoter, unfinished, restarts>>

\* People at GitHub.
SettlePR(d) ==
    /\ github[d].pr = "open"
    /\ \E state \in {"merged", "closed"} : github' = [github EXCEPT ![d].pr = state]
    /\ UNCHANGED <<row, promoter, prPoller, unfinished, restarts>>

-----------------------------------------------------------------------------

Poll(p) ==
    \/ ListForPolling(p)
    \/ \E d \in Drafts : FetchPRState(p, d) \/ FetchFails(p, d) \/ UpdatePRState(p, d)
    \/ UpdatePRFails(p)

DraftsNext ==
    \/ \E d \in Drafts :
          CreateDraft(d) \/ ArchiveDraft(d) \/ PublishDraft(d) \/ SettlePR(d)
    \/ \E h \in Promoters :
          \/ \E d \in Drafts : TryPromote(h, d)
          \/ CreateBranch(h) \/ PutFile(h) \/ OpenPR(h)
          \/ CompletePromote(h) \/ RevertPromote(h)
    \/ \E p \in PRPollers : Poll(p)
    \/ RestartServer

DraftsSpec == DraftsInit /\ [][DraftsNext]_draftVars

-----------------------------------------------------------------------------

PRStates == {"null", "open", "merged", "closed"}
DraftRows == [status : {"none", "draft", "promoting", "promoted", "archived", "published"},
              url : BOOLEAN, prState : PRStates]
Branches == [branch : BOOLEAN, file : BOOLEAN, pr : {"none", "open", "merged", "closed"}]
PromoterStates == [pc : {"idle", "branch", "file", "pull", "complete", "revert"},
                   draft : Drafts \cup {NoDraft}]
PollerStates == [pc : {"idle", "polling", "write"}, todo : SUBSET (Drafts \X PRStates),
                 draft : Drafts \cup {NoDraft}, seen : PRStates]

DraftsTypeOK ==
    /\ row \in [Drafts -> DraftRows]
    /\ github \in [Drafts -> Branches]
    /\ promoter \in [Promoters -> PromoterStates]
    /\ prPoller \in [PRPollers -> PollerStates]
    /\ unfinished \in SUBSET Drafts
    /\ restarts \in 0..MaxRestarts

\* A row at "promoting" has a request that will write it again, unless the
\* last write of a promotion of it was lost, to the database or to a restart:
\* no way through promoteToGitHub leaves a draft locked. The failures of the
\* handlers of playground_promote.go.
PromotingIsOwned ==
    \A d \in Drafts : row[d].status = "promoting" =>
        d \in unfinished \/ \E h \in Promoters : Promoting(h) /\ promoter[h].draft = d
=============================================================================
