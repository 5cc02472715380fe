-------------------------- MODULE Provisions_proofs --------------------------
(***************************************************************************)
(* TLAPS proofs about what sandboxes are provisioned with and run in       *)
(* (Drafts, Marketplace, ModelServer, DockerBackend): a draft that is      *)
(* promoting has a promotion or a poller to take it further, texts are     *)
(* answered only to whom they are open, the connection of a workspace to   *)
(* its model server is usable or ended, and rows and containers agree.     *)
(*                                                                         *)
(* The arguments: pull requests that a row or a poller names exist         *)
(* (PROpened); a row keeps its author and its workspace, and a text in     *)
(* another draft than its own was offered before it was copied             *)
(* (RowsKnown), so that what a request has read may still be answered by   *)
(* what it reads later (CallsKnown); a grant is new until its dance has    *)
(* stored it, and the answer of a refresh in flight is newer than the row  *)
(* (GrantIsNew, AnswerIsFresh); a sandbox whose container is missing or    *)
(* being made has one goroutine that works on it (Alone), which found what *)
(* it says it found (FoundHolds, MadeIsHere).                              *)
(***************************************************************************)
EXTENDS Drafts, Marketplace, ModelServer, DockerBackend, TLAPS

-----------------------------------------------------------------------------
(* Promotion of drafts *)

\* A promotion at work has a draft.
PromoterHolds == \A h \in Promoters : Promoting(h) => promoter[h].draft \in Drafts

\* Where a row or a poller says there is a pull request, there is one.
PROpened ==
    /\ \A d \in Drafts : row[d].url => github[d].pr # "none"
    /\ \A h \in Promoters :
          promoter[h].pc = "complete" => github[promoter[h].draft].pr # "none"
    /\ \A p \in PRPollers :
          /\ \A entry \in prPoller[p].todo : github[entry[1]].pr # "none"
          /\ prPoller[p].pc = "write" => prPoller[p].draft \in Drafts

DraftsInv == DraftsTypeOK /\ PromoterHolds /\ PROpened /\ PromotingIsOwned

\* What the calls of GitHub do.
LEMMA GitHubCall ==
    ASSUME NEW h \in Promoters, DraftsTypeOK, PromoterHolds,
           CreateBranch(h) \/ PutFile(h) \/ OpenPR(h)
    PROVE  /\ promoter[h].draft \in Drafts
           /\ \E pc \in {"file", "pull", "complete", "revert"} :
                 /\ promoter' = [promoter EXCEPT ![h].pc = pc]
                 /\ pc = "complete" => github'[promoter[h].draft].pr = "open"
           /\ github' \in [Drafts -> Branches]
           /\ \A d \in Drafts : github[d].pr # "none" => github'[d].pr # "none"
           /\ UNCHANGED <<row, prPoller, unfinished, restarts>>
<1>1. PICK d \in Drafts : d = promoter[h].draft
  BY DEF DraftsTypeOK, PromoterHolds, Promoting, CreateBranch, PutFile, OpenPR
<1>2. ASSUME NEW b \in [Drafts -> Branches],
             b \in {[github EXCEPT ![d].branch = TRUE], [github EXCEPT ![d].file = TRUE],
                    [github EXCEPT ![d].pr = "open"], github}
      PROVE  \A e \in Drafts : github[e].pr # "none" => b[e].pr # "none"
  BY <1>2 DEF DraftsTypeOK, Branches
<1>3. /\ [github EXCEPT ![d].branch = TRUE] \in [Drafts -> Branches]
      /\ [github EXCEPT ![d].file = TRUE] \in [Drafts -> Branches]
      /\ [github EXCEPT ![d].pr = "open"] \in [Drafts -> Branches]
      /\ github \in [Drafts -> Branches]
  BY DEF DraftsTypeOK, Branches
<1>4. CASE CreateBranch(h)
  <2>1. /\ \E pc \in {"file", "revert"} : promoter' = [promoter EXCEPT ![h].pc = pc]
        /\ github' \in {github, [github EXCEPT ![d].branch = TRUE]}
        /\ UNCHANGED <<row, prPoller, unfinished, restarts>>
    BY <1>1, <1>4 DEF CreateBranch, Call
  <2> QED BY <1>1, <1>2, <1>3, <2>1
<1>5. CASE PutFile(h)
  <2>1. /\ \E pc \in {"pull", "revert"} : promoter' = [promoter EXCEPT ![h].pc = pc]
        /\ github' \in {github, [github EXCEPT ![d].file = TRUE]}
        /\ UNCHANGED <<row, prPoller, unfinished, restarts>>
    BY <1>1, <1>5 DEF PutFile, Call
  <2> QED BY <1>1, <1>2, <1>3, <2>1
<1>6. CASE OpenPR(h)
  <2>1. /\ \E pc \in {"complete", "revert"} :
              /\ promoter' = [promoter EXCEPT ![h].pc = pc]
              /\ pc = "complete" => github' = [github EXCEPT ![d].pr = "open"]
        /\ github' \in {github, [github EXCEPT ![d].pr = "open"]}
        /\ UNCHANGED <<row, prPoller, unfinished, restarts>>
    BY <1>1, <1>6 DEF OpenPR, Call
  <2>2. [github EXCEPT ![d].pr = "open"][d].pr = "open"
    BY DEF DraftsTypeOK, Branches
  <2> QED BY <1>1, <1>2, <1>3, <2>1, <2>2
<1> QED BY <1>4, <1>5, <1>6

\* What a poller is once a row is dealt with.
LEMMA RestType ==
    ASSUME NEW todo \in SUBSET (Drafts \X PRStates)
    PROVE  Rest(todo) \in PollerStates /\ Rest(todo).todo = todo /\ Rest(todo).pc # "write"
  BY DEF Rest, IdlePoller, PollerStates, PRStates

\* What the steps of a poller leave of its list.
LEMMA PollStep ==
    ASSUME NEW p \in PRPollers, DraftsTypeOK, PROpened, Poll(p)
    PROVE  /\ prPoller' \in [PRPollers -> PollerStates]
           /\ \A q \in PRPollers :
                 /\ \A entry \in prPoller'[q].todo : github[entry[1]].pr # "none"
                 /\ prPoller'[q].pc = "write" => prPoller'[q].draft \in Drafts
           /\ row' \in [Drafts -> DraftRows]
           /\ \A d \in Drafts : row'[d].url = row[d].url /\ row'[d].status = row[d].status
           /\ UNCHANGED <<github, promoter, unfinished, restarts>>
<1> USE DEF DraftsTypeOK, PROpened
<1>1. CASE ListForPolling(p)
  <2> DEFINE todo == {<<d, row[d].prState>> : d \in ToPoll}
             s == [IdlePoller EXCEPT !.pc = "polling", !.todo = todo]
  <2>1. todo \in SUBSET (Drafts \X PRStates) /\ \A entry \in todo : github[entry[1]].pr # "none"
    BY DEF ToPoll, DraftRows
  <2>2. s \in PollerStates /\ s.todo = todo /\ s.pc # "write"
    BY <2>1 DEF PollerStates, IdlePoller, PRStates
  <2>3. prPoller' = [prPoller EXCEPT ![p] = s]
    BY <1>1 DEF ListForPolling
  <2> QED BY <1>1, <2>1, <2>2, <2>3 DEF ListForPolling
<1>2. ASSUME NEW d \in Drafts, FetchPRState(p, d)
      PROVE  /\ prPoller' \in [PRPollers -> PollerStates]
             /\ \A q \in PRPollers :
                   /\ \A entry \in prPoller'[q].todo : github[entry[1]].pr # "none"
                   /\ prPoller'[q].pc = "write" => prPoller'[q].draft \in Drafts
  <2>1. PICK entry \in prPoller[p].todo :
           /\ entry[1] = d
           /\ prPoller' = [prPoller EXCEPT
                ![p] = IF github[d].pr = entry[2]
                       THEN Rest(prPoller[p].todo \ {entry})
                       ELSE [pc |-> "write", todo |-> prPoller[p].todo \ {entry},
                             draft |-> d, seen |-> github[d].pr]]
    BY <1>2 DEF FetchPRState
  <2> DEFINE left == prPoller[p].todo \ {entry}
             s == [pc |-> "write", todo |-> left, draft |-> d, seen |-> github[d].pr]
  <2>2. left \in SUBSET (Drafts \X PRStates) /\ \A e \in left : github[e[1]].pr # "none"
    BY DEF PollerStates
  <2>3. s \in PollerStates /\ s.todo = left /\ s.draft = d
    <3>1. github[d].pr \in PRStates
      BY <2>1 DEF Branches, PRStates
    <3> QED BY <2>2, <3>1 DEF PollerStates
  <2>4. Rest(left) \in PollerStates /\ Rest(left).todo = left /\ Rest(left).pc # "write"
    BY <2>2, RestType
  <2> QED BY <2>1, <2>2, <2>3, <2>4
<1>3. ASSUME NEW d \in Drafts, FetchFails(p, d)
      PROVE  /\ prPoller' \in [PRPollers -> PollerStates]
             /\ \A q \in PRPollers :
                   /\ \A entry \in prPoller'[q].todo : github[entry[1]].pr # "none"
                   /\ prPoller'[q].pc = "write" => prPoller'[q].draft \in Drafts
  <2>1. PICK entry \in prPoller[p].todo :
           prPoller' = [prPoller EXCEPT ![p] = Rest(prPoller[p].todo \ {entry})]
    BY <1>3 DEF FetchFails
  <2> DEFINE left == prPoller[p].todo \ {entry}
  <2>2. left \in SUBSET (Drafts \X PRStates) /\ \A e \in left : github[e[1]].pr # "none"
    BY DEF PollerStates
  <2>3. Rest(left) \in PollerStates /\ Rest(left).todo = left /\ Rest(left).pc # "write"
    BY <2>2, RestType
  <2> QED BY <2>1, <2>2, <2>3
<1>4. ASSUME prPoller' = [prPoller EXCEPT ![p] = Rest(prPoller[p].todo)]
      PROVE  /\ prPoller' \in [PRPollers -> PollerStates]
             /\ \A q \in PRPollers :
                   /\ \A entry \in prPoller'[q].todo : github[entry[1]].pr # "none"
                   /\ prPoller'[q].pc = "write" => prPoller'[q].draft \in Drafts
  <2> DEFINE left == prPoller[p].todo
  <2>1. left \in SUBSET (Drafts \X PRStates) /\ \A e \in left : github[e[1]].pr # "none"
    BY DEF PollerStates
  <2>2. Rest(left) \in PollerStates /\ Rest(left).todo = left /\ Rest(left).pc # "write"
    BY <2>1, RestType
  <2> QED BY <1>4, <2>1, <2>2
<1>5. ASSUME NEW d \in Drafts, UpdatePRState(p, d)
      PROVE  /\ row' \in [Drafts -> DraftRows]
             /\ \A e \in Drafts : row'[e].url = row[e].url /\ row'[e].status = row[e].status
  <2>1. row' = [row EXCEPT ![d].prState = prPoller[p].seen] /\ prPoller[p].seen \in PRStates
    BY <1>5 DEF UpdatePRState, PollerStates
  <2> QED BY <2>1 DEF DraftRows
<1> QED
  BY <1>1, <1>2, <1>3, <1>4, <1>5
     DEF Poll, FetchPRState, FetchFails, UpdatePRState, UpdatePRFails
\* Requests of one statement keep the invariant.
LEMMA RequestStep ==
    ASSUME DraftsInv, NEW d \in Drafts,
           CreateDraft(d) \/ ArchiveDraft(d) \/ PublishDraft(d)
    PROVE  DraftsInv'
<1> USE DEF DraftsInv, DraftsTypeOK
<1>1. UNCHANGED <<github, promoter, prPoller, unfinished, restarts>>
  BY DEF CreateDraft, ArchiveDraft, PublishDraft
<1>2. row' \in [Drafts -> DraftRows]
  BY DEF CreateDraft, ArchiveDraft, PublishDraft, SetStatus, DraftRows
<1>3. \A e \in Drafts : row'[e].url => row[e].url
  BY DEF CreateDraft, ArchiveDraft, PublishDraft, SetStatus, DraftRows
<1>4. \A e \in Drafts : row'[e].status = "promoting" => row[e].status = "promoting"
  BY DEF CreateDraft, ArchiveDraft, PublishDraft, SetStatus, DraftRows
<1>5. DraftsTypeOK'
  BY <1>1, <1>2
<1>6. PromoterHolds'
  BY <1>1 DEF PromoterHolds, Promoting
<1>7. PROpened'
  BY <1>1, <1>3 DEF PROpened
<1>8. PromotingIsOwned'
  BY <1>1, <1>4 DEF PromotingIsOwned, Promoting
<1> QED BY <1>5, <1>6, <1>7, <1>8

\* The steps of a promotion keep it.
LEMMA PromotionStep ==
    ASSUME DraftsInv, NEW h \in Promoters,
           \/ \E d \in Drafts : TryPromote(h, d)
           \/ CreateBranch(h) \/ PutFile(h) \/ OpenPR(h)
           \/ CompletePromote(h) \/ RevertPromote(h)
    PROVE  DraftsInv'
<1> USE DEF DraftsInv, DraftsTypeOK
<1>1. ASSUME NEW d \in Drafts, TryPromote(h, d) PROVE DraftsInv'
  <2>1. /\ row' = [row EXCEPT ![d].status = "promoting"]
        /\ promoter' = [promoter EXCEPT ![h] = [pc |-> "branch", draft |-> d]]
        /\ ~Promoting(h)
        /\ UNCHANGED <<github, prPoller, unfinished, restarts>>
    BY <1>1 DEF TryPromote, SetStatus, Promoting
  <2>2. row' \in [Drafts -> DraftRows] /\ promoter' \in [Promoters -> PromoterStates]
    BY <2>1 DEF DraftRows, PromoterStates
  <2>3. \A e \in Drafts : row'[e].url = row[e].url
    BY <2>1 DEF DraftRows
  <2>4. PromoterHolds' /\ PROpened'
    BY <2>1, <2>3 DEF PromoterHolds, PROpened, Promoting
  <2>5. PromotingIsOwned'
    BY <2>1 DEF PromotingIsOwned, Promoting, DraftRows, PromoterStates
  <2> QED BY <2>1, <2>2, <2>4, <2>5
<1>2. CASE CreateBranch(h) \/ PutFile(h) \/ OpenPR(h)
  <2>1. PICK pc \in {"file", "pull", "complete", "revert"} :
              /\ promoter' = [promoter EXCEPT ![h].pc = pc]
              /\ pc = "complete" => github'[promoter[h].draft].pr = "open"
    BY <1>2, GitHubCall
  <2>2. /\ promoter[h].draft \in Drafts
        /\ github' \in [Drafts -> Branches]
        /\ \A d \in Drafts : github[d].pr # "none" => github'[d].pr # "none"
        /\ UNCHANGED <<row, prPoller, unfinished, restarts>>
    BY <1>2, GitHubCall
  <2>3. promoter' \in [Promoters -> PromoterStates]
    BY <2>1 DEF PromoterStates
  <2>4. \A g \in Promoters : promoter'[g].draft = promoter[g].draft
    BY <2>1 DEF PromoterStates
  <2>5. \A g \in Promoters : promoter'[g].pc = IF g = h THEN pc ELSE promoter[g].pc
    BY <2>1 DEF PromoterStates
  <2>6. PromoterHolds'
    BY <2>2, <2>4, <2>5 DEF PromoterHolds, Promoting
  <2>7. PROpened'
    <3>1. \A g \in Promoters :
             promoter'[g].pc = "complete" => github'[promoter'[g].draft].pr # "none"
      BY <2>1, <2>2, <2>4, <2>5 DEF PROpened, PromoterHolds, Promoting
    <3>2. \A p \in PRPollers : \A entry \in prPoller'[p].todo : github'[entry[1]].pr # "none"
      BY <2>2 DEF PROpened, PollerStates
    <3> QED BY <2>2, <3>1, <3>2 DEF PROpened
  <2>8. PromotingIsOwned'
    BY <2>2, <2>4, <2>5 DEF PromotingIsOwned, Promoting
  <2> QED BY <2>2, <2>3, <2>6, <2>7, <2>8
<1>3. CASE CompletePromote(h) \/ RevertPromote(h)
  <2>1. PICK d \in Drafts : d = promoter[h].draft
    BY <1>3 DEF PromoterHolds, Promoting, CompletePromote, RevertPromote
  <2>2. /\ promoter' = [promoter EXCEPT ![h] = IdlePromoter]
        /\ UNCHANGED <<github, prPoller, restarts>>
    BY <1>3 DEF CompletePromote, RevertPromote, Written
  <2>3. row' \in [Drafts -> DraftRows] /\ unfinished' \in SUBSET Drafts
    BY <1>3, <2>1 DEF CompletePromote, RevertPromote, SetStatus, DraftRows
  <2>4. \A e \in Drafts : row'[e].url => github[e].pr # "none"
    <3>1. CASE CompletePromote(h)
      <4>1. github[d].pr # "none"
        BY <2>1, <3>1 DEF CompletePromote, PROpened
      <4> QED BY <2>1, <3>1, <4>1 DEF CompletePromote, PROpened, DraftRows
    <3>2. CASE RevertPromote(h)
      BY <2>1, <3>2 DEF RevertPromote, SetStatus, PROpened, DraftRows
    <3> QED BY <1>3, <3>1, <3>2
  <2>5. \A e \in Drafts : row'[e].status = "promoting" =>
              /\ row[e].status = "promoting"
              /\ e = d => e \in unfinished'
              /\ e \in unfinished => e \in unfinished'
    BY <1>3, <2>1 DEF CompletePromote, RevertPromote, SetStatus, DraftRows
  <2>6. promoter' \in [Promoters -> PromoterStates]
    BY <2>2 DEF PromoterStates, IdlePromoter
  <2>7. PromoterHolds'
    BY <2>2 DEF PromoterHolds, Promoting, IdlePromoter
  <2>8. PROpened'
    BY <2>2, <2>4 DEF PROpened, IdlePromoter
  <2>9. PromotingIsOwned'
    BY <2>1, <2>2, <2>5 DEF PromotingIsOwned, Promoting, IdlePromoter
  <2> QED BY <2>2, <2>3, <2>6, <2>7, <2>8, <2>9
<1> QED BY <1>1, <1>2, <1>3

\* Every step keeps the invariant.
LEMMA DraftsStep == DraftsInv /\ [DraftsNext]_draftVars => DraftsInv'
<1> SUFFICES ASSUME DraftsInv, [DraftsNext]_draftVars PROVE DraftsInv'
  OBVIOUS
<1>1. ASSUME NEW d \in Drafts, CreateDraft(d) \/ ArchiveDraft(d) \/ PublishDraft(d)
      PROVE DraftsInv'
  BY <1>1, RequestStep
<1>2. ASSUME NEW h \in Promoters,
             \/ \E d \in Drafts : TryPromote(h, d)
             \/ CreateBranch(h) \/ PutFile(h) \/ OpenPR(h)
             \/ CompletePromote(h) \/ RevertPromote(h)
      PROVE DraftsInv'
  BY <1>2, PromotionStep
<1>3. ASSUME NEW p \in PRPollers, Poll(p) PROVE DraftsInv'
  <2>1. /\ prPoller' \in [PRPollers -> PollerStates]
        /\ \A q \in PRPollers :
              /\ \A entry \in prPoller'[q].todo : github[entry[1]].pr # "none"
              /\ prPoller'[q].pc = "write" => prPoller'[q].draft \in Drafts
        /\ row' \in [Drafts -> DraftRows]
        /\ \A d \in Drafts : row'[d].url = row[d].url /\ row'[d].status = row[d].status
        /\ UNCHANGED <<github, promoter, unfinished, restarts>>
    BY <1>3, PollStep DEF DraftsInv
  <2>2. DraftsTypeOK'
    BY <2>1 DEF DraftsInv, DraftsTypeOK
  <2>3. PromoterHolds' /\ PROpened'
    BY <2>1 DEF DraftsInv, PromoterHolds, PROpened, Promoting
  <2>4. PromotingIsOwned'
    BY <2>1 DEF DraftsInv, PromotingIsOwned, Promoting
  <2> QED BY <2>2, <2>3, <2>4 DEF DraftsInv
<1>4. ASSUME NEW d \in Drafts, SettlePR(d) PROVE DraftsInv'
  <2>1. /\ github' \in [Drafts -> Branches]
        /\ \A e \in Drafts : github[e].pr # "none" => github'[e].pr # "none"
        /\ UNCHANGED <<row, promoter, prPoller, unfinished, restarts>>
    BY <1>4 DEF SettlePR, DraftsInv, DraftsTypeOK, Branches
  <2>2. DraftsTypeOK' /\ PromoterHolds' /\ PromotingIsOwned'
    BY <2>1 DEF DraftsInv, DraftsTypeOK, PromoterHolds, PromotingIsOwned, Promoting
  <2>3. PROpened'
    <3>1. \A p \in PRPollers : \A entry \in prPoller[p].todo : entry[1] \in Drafts
      BY DEF DraftsInv, DraftsTypeOK, PollerStates
    <3>2. \A h \in Promoters :
             promoter[h].pc = "complete" => promoter[h].draft \in Drafts
      BY DEF DraftsInv, PromoterHolds, Promoting
    <3> QED BY <2>1, <3>1, <3>2 DEF DraftsInv, PROpened
  <2> QED BY <2>2, <2>3 DEF DraftsInv
<1>5. CASE RestartServer
  <2>1. /\ promoter' = [h \in Promoters |-> IdlePromoter]
        /\ prPoller' = [p \in PRPollers |-> IdlePoller]
        /\ unfinished' = unfinished \cup
              {promoter[h].draft : h \in {g \in Promoters : Promoting(g)}}
        /\ restarts' \in 0..MaxRestarts
        /\ UNCHANGED <<row, github>>
    BY <1>5, DraftsAssumption DEF RestartServer, DraftsInv, DraftsTypeOK
  <2>2. unfinished' \in SUBSET Drafts
    BY <2>1 DEF DraftsInv, DraftsTypeOK, PromoterHolds
  <2>3. /\ promoter' \in [Promoters -> PromoterStates]
        /\ prPoller' \in [PRPollers -> PollerStates]
    BY <2>1 DEF PromoterStates, PollerStates, IdlePromoter, IdlePoller, PRStates
  <2>4. DraftsTypeOK'
    BY <2>1, <2>2, <2>3 DEF DraftsInv, DraftsTypeOK
  <2>5. PromoterHolds' /\ PROpened'
    BY <2>1 DEF DraftsInv, PromoterHolds, PROpened, Promoting, IdlePromoter, IdlePoller
  <2>6. PromotingIsOwned'
    BY <2>1 DEF DraftsInv, PromotingIsOwned
  <2> QED BY <2>4, <2>5, <2>6 DEF DraftsInv
<1>6. CASE UNCHANGED draftVars
  BY <1>6 DEF draftVars, DraftsInv, DraftsTypeOK, PromoterHolds, PROpened,
              PromotingIsOwned, Promoting
<1> QED BY <1>1, <1>2, <1>3, <1>4, <1>5, <1>6 DEF DraftsNext

LEMMA DraftsInitial == DraftsInit => DraftsInv
<1> SUFFICES ASSUME DraftsInit PROVE DraftsInv
  OBVIOUS
<1>1. DraftsTypeOK
  BY DraftsAssumption DEF DraftsInit, DraftsTypeOK, DraftRows, Branches, PromoterStates,
     PollerStates, PRStates, NewRow, NewBranch, IdlePromoter, IdlePoller
<1>2. PromoterHolds /\ PROpened /\ PromotingIsOwned
  BY DEF DraftsInit, PromoterHolds, PROpened, PromotingIsOwned, Promoting, NewRow,
     IdlePromoter, IdlePoller
<1> QED BY <1>1, <1>2 DEF DraftsInv

THEOREM DraftsAlwaysTyped == DraftsSpec => []DraftsTypeOK
<1>1. DraftsInv => DraftsTypeOK
  BY DEF DraftsInv
<1> QED BY <1>1, DraftsInitial, DraftsStep, PTL DEF DraftsSpec

THEOREM PromotingAlwaysOwned == DraftsSpec => []PromotingIsOwned
<1>1. DraftsInv => PromotingIsOwned
  BY DEF DraftsInv
<1> QED BY <1>1, DraftsInitial, DraftsStep, PTL DEF DraftsSpec

-----------------------------------------------------------------------------
(* The marketplace *)

\* A row that is not there has no text; one that is has its own, or one it was forked
\* with; its own has been offered when it is shared or everybody's. The memberships of
\* now are among those of ever.
RowsKnown ==
    /\ NoItem \in offered
    /\ \A d \in Items : ~InRow(d) => item[d] = NoItemRow
    /\ \A d \in Items : item[d].text = d \/ item[d].text \in offered
    /\ \A d \in Items : item[d].text = d /\ (item[d].shared \/ item[d].team = System)
                           => d \in offered
    /\ \A u \in Persons : MyTeams(u) \subseteq belonged[u]

\* Who may know a text.
OpenTo(t, u) == t \in offered \/ item[t].author = u \/ item[t].team \in belonged[u]

\* What a request under way has read is still true, or true of some time.
CallKnown(q) ==
    /\ q.pc # "idle" => q.user \in Persons
    /\ q.pc = "resolve" => q.text = NoItem
    /\ q.pc = "source" => q.item \in Items
    /\ q.pc \in {"write", "visibility", "content", "share"} => q.item \in Items /\ InRow(q.item)
    /\ q.pc = "insert" => q.text \in offered
    /\ q.pc = "get" =>
          /\ q.item \in Items
          /\ q.text \in offered \/ (q.text = q.item /\ item[q.item].text = q.item)
    /\ q.pc = "list" => q.teams \subseteq belonged[q.user]
    /\ \A t \in q.answer : q.user \in Persons /\ OpenTo(t, q.user)
CallsKnown == \A c \in Calls : CallKnown(call[c])

MarketInv == MarketTypeOK /\ RowsKnown /\ CallsKnown

\* What a handler may store: a row keeps its author and its workspace, and gets its own
\* text; a new row has a text that was offered.
GoodRows(rows) ==
    /\ rows \in [Items -> ItemRows]
    /\ \A d \in Items : InRow(d) =>
          /\ rows[d].status # "none"
          /\ rows[d].author = item[d].author /\ rows[d].team = item[d].team
          /\ rows[d].text = item[d].text \/ rows[d].text = d
    /\ \A d \in Items : ~InRow(d) =>
          \/ rows[d] = item[d]
          \/ rows[d].status # "none" /\ rows[d].text \in offered

\* Such a step keeps what is known of the rows, and what was open stays so.
LEMMA RowsKept ==
    ASSUME MarketInv, NEW rows, GoodRows(rows), Store(rows)
    PROVE  /\ RowsKnown' /\ offered' \subseteq Texts /\ offered \subseteq offered'
           /\ item' \in [Items -> ItemRows]
           /\ \A d \in Items : InRow(d) => InRow(d)'
           /\ \A d \in Items : item[d].text = d => item'[d].text = d
           /\ \A t \in Texts, u \in Persons : OpenTo(t, u) => OpenTo(t, u)'
<1>1. /\ item' = rows /\ item' \in [Items -> ItemRows]
      /\ UNCHANGED <<table, role, belonged, moves>>
      /\ offered' = offered \cup {d \in Items : /\ rows[d].text = d
                                              /\ (rows[d].shared \/ rows[d].team = System)}
  BY DEF Store, GoodRows
<1>2. offered' \subseteq Texts /\ offered \subseteq offered' /\ NoItem \in offered'
  BY <1>1 DEF MarketInv, MarketTypeOK, RowsKnown, Texts
<1>3. \A d \in Items : InRow(d) => InRow(d)'
  BY <1>1 DEF GoodRows, InRow
<1>4. \A d \in Items : ~InRow(d) => /\ item[d] = NoItemRow /\ item[d].text = NoItem
                                     /\ item[d].author = NoPerson /\ item[d].team = System
  <2>1. NoItemRow.text = NoItem /\ NoItemRow.author = NoPerson /\ NoItemRow.team = System
    BY DEF NoItemRow
  <2> QED BY <2>1 DEF MarketInv, RowsKnown
<1>5. \A d \in Items : ~InRow(d)' => item'[d] = NoItemRow
  <2>1. ASSUME NEW d \in Items, ~InRow(d)' PROVE item'[d] = NoItemRow
    <3>1. ~InRow(d)
      BY <1>3, <2>1
    <3>2. item'[d] = item[d]
      BY <1>1, <2>1, <3>1 DEF GoodRows, InRow
    <3> QED BY <1>4, <3>1, <3>2
  <2> QED BY <2>1
<1>6. \A d \in Items : item[d].text = d => item'[d].text = d
  <2>1. ASSUME NEW d \in Items, item[d].text = d PROVE item'[d].text = d
    <3>1. InRow(d)
      BY <1>4, <2>1, MarketplaceAssumption
    <3> QED BY <1>1, <2>1, <3>1 DEF GoodRows
  <2> QED BY <2>1
<1>7. \A d \in Items : item'[d].text = d \/ item'[d].text \in offered'
  <2>1. ASSUME NEW d \in Items PROVE rows[d].text = d \/ rows[d].text \in offered
    <3>1. item[d].text = d \/ item[d].text \in offered
      BY DEF MarketInv, RowsKnown
    <3> QED BY <3>1 DEF GoodRows
  <2> QED BY <1>1, <1>2, <2>1
<1>8. \A d \in Items : item'[d].text = d /\ (item'[d].shared \/ item'[d].team = System)
                          => d \in offered'
  BY <1>1
<1>9. RowsKnown'
  <2>1. \A u \in Persons : MyTeams(u)' \subseteq belonged'[u]
    BY <1>1 DEF MarketInv, RowsKnown, MyTeams
  <2> QED BY <1>2, <1>5, <1>7, <1>8, <2>1 DEF RowsKnown
<1>10. ASSUME NEW t \in Texts, NEW u \in Persons, OpenTo(t, u) PROVE OpenTo(t, u)'
  <2>1. CASE t \in offered
    BY <1>2, <2>1 DEF OpenTo
  <2>2. CASE t \notin offered
    <3>1. t \in Items
      BY <2>2 DEF MarketInv, RowsKnown, Texts
    <3>2. item[t].author = u \/ item[t].team \in belonged[u]
      BY <1>10, <2>2 DEF OpenTo
    <3>3. InRow(t)
      BY <1>4, <3>1, <3>2, MarketplaceAssumption DEF MarketInv, MarketTypeOK
    <3>4. item'[t].author = item[t].author /\ item'[t].team = item[t].team
      BY <1>1, <3>1, <3>3 DEF GoodRows
    <3> QED BY <1>1, <3>2, <3>4 DEF OpenTo
  <2> QED BY <2>1, <2>2
<1> QED BY <1>1, <1>2, <1>3, <1>6, <1>9, <1>10

\* A step of one request keeps the invariant if it stores what it may, or nothing, and if
\* what it knows after it is true before or after it.
LEMMA MarketKeep ==
    ASSUME MarketInv, NoStore \/ \E rows : GoodRows(rows) /\ Store(rows),
           call' \in [Calls -> CallStates],
           \A c \in Calls : call'[c] = call[c] \/ CallKnown(call'[c]) \/ CallKnown(call[c])'
    PROVE  MarketInv'
<1>1. UNCHANGED <<table, role, belonged, moves>>
  BY DEF NoStore, Store
<1>2. /\ RowsKnown' /\ offered' \subseteq Texts /\ offered \subseteq offered'
      /\ item' \in [Items -> ItemRows]
      /\ \A d \in Items : InRow(d) => InRow(d)'
      /\ \A d \in Items : item[d].text = d => item'[d].text = d
      /\ \A t \in Texts, u \in Persons : OpenTo(t, u) => OpenTo(t, u)'
  <2>1. CASE NoStore
    BY <2>1 DEF NoStore, MarketInv, MarketTypeOK, RowsKnown, InRow, OpenTo, MyTeams
  <2>2. CASE \E rows : GoodRows(rows) /\ Store(rows)
    BY <2>2, RowsKept
  <2> QED BY <2>1, <2>2
<1>3. MarketTypeOK'
  BY <1>1, <1>2 DEF MarketInv, MarketTypeOK
<1>4. ASSUME NEW c \in Calls PROVE CallKnown(call[c])'
  <2>1. PICK q \in CallStates : q = call'[c]
    OBVIOUS
  <2>2. CASE CallKnown(q)
    <3>1. /\ q.pc # "idle" => q.user \in Persons
          /\ q.pc = "resolve" => q.text = NoItem
          /\ q.pc = "source" => q.item \in Items
      BY <2>2 DEF CallKnown
    <3>2. q.pc \in {"write", "visibility", "content", "share"} =>
             q.item \in Items /\ InRow(q.item)'
      BY <1>2, <2>2 DEF CallKnown
    <3>3. q.pc = "insert" => q.text \in offered'
      BY <1>2, <2>2 DEF CallKnown
    <3>4. q.pc = "get" =>
             /\ q.item \in Items
             /\ q.text \in offered' \/ (q.text = q.item /\ item'[q.item].text = q.item)
      BY <1>2, <2>2 DEF CallKnown
    <3>5. q.pc = "list" => q.teams \subseteq belonged'[q.user]
      BY <1>1, <2>2 DEF CallKnown
    <3>6. \A t \in q.answer : q.user \in Persons /\ OpenTo(t, q.user)'
      <4>1. q.answer \subseteq Texts
        BY DEF CallStates
      <4>2. \A t \in q.answer : q.user \in Persons /\ OpenTo(t, q.user)
        BY <2>2 DEF CallKnown
      <4>3. ASSUME NEW t \in q.answer PROVE q.user \in Persons /\ OpenTo(t, q.user)'
        <5>1. t \in Texts /\ q.user \in Persons /\ OpenTo(t, q.user)
          BY <4>1, <4>2
        <5>2. \A x \in Texts, u \in Persons : OpenTo(x, u) => OpenTo(x, u)'
          BY <1>2
        <5> QED BY <5>1, <5>2
      <4> QED BY <4>3
    <3>7. CallKnown(q)'
      BY <3>1, <3>2, <3>3, <3>4, <3>5, <3>6 DEF CallKnown
    <3> QED BY <2>1, <3>7 DEF CallKnown, InRow, OpenTo
  <2>3. CASE q = call[c]
    BY <2>2, <2>3 DEF MarketInv, CallsKnown
  <2> QED BY <2>1, <2>2, <2>3
<1>5. CallsKnown'
  BY <1>4 DEF CallsKnown
<1> QED BY <1>2, <1>3, <1>5 DEF MarketInv

\* A step of one request.
LEMMA OneCall ==
    ASSUME MarketInv, NoStore \/ \E rows : GoodRows(rows) /\ Store(rows),
           NEW c \in Calls, NEW q \in CallStates, CallKnown(q) \/ CallKnown(q)',
           call' = [call EXCEPT ![c] = q]
    PROVE  MarketInv'
<1>1. call' \in [Calls -> CallStates]
  BY DEF MarketInv, MarketTypeOK
<1>2. \A d \in Calls : call'[d] = IF d = c THEN q ELSE call[d]
  BY DEF MarketInv, MarketTypeOK
<1>3. ASSUME NEW d \in Calls
      PROVE  call'[d] = call[d] \/ CallKnown(call'[d]) \/ CallKnown(call[d])'
  <2>1. CASE d = c
    <3>1. call'[d] = q
      BY <1>2, <2>1
    <3>2. CASE CallKnown(q)
      BY <3>1, <3>2
    <3>3. CASE CallKnown(q)'
      BY <3>1, <3>3 DEF CallKnown, InRow, OpenTo
    <3> QED BY <3>2, <3>3
  <2>2. CASE d # c
    BY <1>2, <2>2
  <2> QED BY <2>1, <2>2
<1> QED BY <1>1, <1>3, MarketKeep

\* A request that has ended, and an empty row, are of their types.
LEMMA Empties ==
    /\ NoCall \in CallStates /\ CallKnown(NoCall)
    /\ NoCall.pc = "idle" /\ NoCall.item = NoItem /\ NoCall.text = NoItem
    /\ NoCall.answer = {} /\ NoCall.teams = {}
    /\ NoItemRow \in ItemRows /\ NoItemRow.text = NoItem
<1>1. /\ NoCall.pc = "idle" /\ NoCall.item = NoItem /\ NoCall.text = NoItem
      /\ NoCall.answer = {} /\ NoCall.teams = {}
  BY DEF NoCall
<1>2. NoCall \in CallStates
  BY DEF NoCall, CallStates, Texts
<1>3. NoItemRow \in ItemRows /\ NoItemRow.text = NoItem
  BY DEF NoItemRow, ItemRows, Texts
<1> QED BY <1>1, <1>2, <1>3 DEF CallKnown

\* Requests that begin, and keep who asks and for which draft.
LEMMA ArriveStep ==
    ASSUME MarketInv, NEW c \in Calls, NEW u \in Persons,
           \/ Count(c, u)
           \/ \E d \in Items : Fork(c, u, d) \/ Edit(c, u, d) \/ AskVisibility(c, u, d)
    PROVE  MarketInv'
<1>1. NoStore
  BY DEF Count, Fork, Edit, AskVisibility
<1>2. CASE Count(c, u)
  <2> DEFINE q == [NoCall EXCEPT !.pc = "resolve", !.user = u]
  <2>1. /\ q \in CallStates /\ q.pc = "resolve" /\ q.user = u /\ q.answer = {}
        /\ q.text = NoItem
    BY Empties DEF CallStates
  <2>2. call' = [call EXCEPT ![c] = q]
    BY <1>2 DEF Count, Arrive
  <2> HIDE DEF q
  <2>3. CallKnown(q)
    BY <2>1 DEF CallKnown
  <2> QED BY <1>1, <2>1, <2>2, <2>3, OneCall
<1>3. ASSUME NEW d \in Items, Fork(c, u, d) PROVE MarketInv'
  <2> DEFINE q == [NoCall EXCEPT !.pc = "resolve", !.user = u, !.item = d]
  <2>1. /\ q \in CallStates /\ q.pc = "resolve" /\ q.user = u /\ q.answer = {}
        /\ q.text = NoItem
    BY Empties DEF CallStates, Texts
  <2>2. call' = [call EXCEPT ![c] = q]
    BY <1>3 DEF Fork, Arrive
  <2> HIDE DEF q
  <2>3. CallKnown(q)
    BY <2>1 DEF CallKnown
  <2> QED BY <1>1, <2>1, <2>2, <2>3, OneCall
<1>4. ASSUME NEW d \in Items, Edit(c, u, d) \/ AskVisibility(c, u, d) PROVE MarketInv'
  <2>1. PICK pc \in {"write", "visibility"} :
           call' = [call EXCEPT ![c] = [NoCall EXCEPT !.pc = pc, !.user = u, !.item = d]]
    BY <1>4 DEF Edit, AskVisibility, Arrive
  <2>2. InRow(d)
    BY <1>4 DEF Edit, AskVisibility, InRow
  <2> DEFINE q == [NoCall EXCEPT !.pc = pc, !.user = u, !.item = d]
  <2>3. q \in CallStates /\ q.pc = pc /\ q.user = u /\ q.item = d /\ q.answer = {}
    BY Empties DEF CallStates, Texts
  <2>4. call' = [call EXCEPT ![c] = q]
    BY <2>1
  <2> HIDE DEF q
  <2>5. CallKnown(q)
    BY <2>2, <2>3 DEF CallKnown
  <2> QED BY <1>1, <2>3, <2>4, <2>5, OneCall
<1> QED BY <1>2, <1>3, <1>4

\* Requests that read texts or memberships first.
LEMMA ReadStep ==
    ASSUME MarketInv, NEW c \in Calls, NEW u \in Persons,
           List(c, u) \/ \E d \in Items : GetDraft(c, u, d)
    PROVE  MarketInv'
<1>1. NoStore
  BY DEF GetDraft, List
<1>2. ASSUME NEW d \in Items, GetDraft(c, u, d) PROVE MarketInv'
  <2> DEFINE q == [NoCall EXCEPT !.pc = "get", !.user = u, !.item = d, !.text = item[d].text]
  <2>1. item[d].text \in Texts /\ (item[d].text = d \/ item[d].text \in offered)
    BY DEF MarketInv, MarketTypeOK, ItemRows, RowsKnown
  <2>2. /\ q \in CallStates /\ q.pc = "get" /\ q.user = u /\ q.item = d
        /\ q.text = item[d].text /\ q.answer = {}
    BY <2>1, Empties DEF CallStates, Texts
  <2>3. call' = [call EXCEPT ![c] = q]
    BY <1>2 DEF GetDraft, Arrive
  <2> HIDE DEF q
  <2>4. CallKnown(q)
    BY <2>1, <2>2 DEF CallKnown
  <2> QED BY <1>1, <2>2, <2>3, <2>4, OneCall
<1>3. CASE List(c, u)
  <2>1. MyTeams(u) \subseteq belonged[u] /\ MyTeams(u) \subseteq Teams
    BY DEF MarketInv, RowsKnown, MyTeams
  <2>2. PICK teams \in {MyTeams(u), {}} :
           call' = [call EXCEPT ![c] = [NoCall EXCEPT !.pc = "list", !.user = u,
                                                      !.teams = teams]]
    BY <1>3 DEF List, Arrive
  <2> DEFINE q == [NoCall EXCEPT !.pc = "list", !.user = u, !.teams = teams]
  <2>3. /\ q \in CallStates /\ q.pc = "list" /\ q.user = u /\ q.teams = teams
        /\ q.answer = {}
    BY <2>1, Empties DEF CallStates
  <2>4. call' = [call EXCEPT ![c] = q]
    BY <2>2
  <2> HIDE DEF q
  <2>5. CallKnown(q)
    BY <2>1, <2>3 DEF CallKnown
  <2> QED BY <1>1, <2>3, <2>4, <2>5, OneCall
<1> QED BY <1>2, <1>3

\* A shared text has been offered.
LEMMA SharedIsOffered ==
    ASSUME MarketInv, NEW d \in Items, item[d].shared \/ item[d].team = System
    PROVE  item[d].text \in offered /\ item[d].text \in Texts
  BY DEF MarketInv, RowsKnown, MarketTypeOK, Texts

\* An answer of texts that are open to who asks.
LEMMA AnswerOpen ==
    ASSUME MarketInv, NoStore, NEW c \in Calls, NEW u \in Persons, NEW texts,
           texts \subseteq Texts, \A t \in texts : OpenTo(t, u), AnswerWith(c, u, texts)
    PROVE  MarketInv'
<1> DEFINE q == [NoCall EXCEPT !.pc = "answer", !.user = u, !.answer = texts]
<1>1. q \in CallStates /\ q.pc = "answer" /\ q.user = u /\ q.answer = texts
  BY Empties DEF CallStates
<1>2. call' = [call EXCEPT ![c] = q]
  BY DEF AnswerWith
<1> HIDE DEF q
<1>3. CallKnown(q)
  BY <1>1 DEF CallKnown
<1> QED BY <1>1, <1>2, <1>3, OneCall

\* A request that ends.
LEMMA AnswerEmpty ==
    ASSUME MarketInv, NoStore \/ \E rows : GoodRows(rows) /\ Store(rows),
           NEW c \in Calls, AnswerCall(c)
    PROVE  MarketInv'
  BY Empties, OneCall DEF AnswerCall

\* The answers of the marketplace are of shared drafts.
LEMMA SharedStep ==
    ASSUME MarketInv, NEW c \in Calls, NEW u \in Persons,
           ListShared(c, u) \/ \E d \in Items : Preview(c, u, d)
    PROVE  MarketInv'
<1>1. ASSUME NEW d \in Items, Preview(c, u, d) PROVE MarketInv'
  <2>1. /\ NoStore /\ item[d].shared /\ AnswerWith(c, u, {item[d].text})
    BY <1>1 DEF Preview
  <2>2. item[d].text \in offered /\ item[d].text \in Texts
    BY <2>1, SharedIsOffered
  <2> QED BY <2>1, <2>2, AnswerOpen DEF OpenTo
<1>2. CASE ListShared(c, u)
  <2> DEFINE texts == {item[e].text : e \in {f \in Items : Listed(f) /\ item[f].shared}}
  <2>1. NoStore /\ AnswerWith(c, u, texts)
    BY <1>2 DEF ListShared
  <2>2. \A t \in texts : t \in offered /\ t \in Texts
    BY SharedIsOffered
  <2> HIDE DEF texts
  <2> QED BY <2>1, <2>2, AnswerOpen DEF OpenTo
<1> QED BY <1>1, <1>2

\* The answers to the members of a workspace.
LEMMA MemberAnswerStep ==
    ASSUME MarketInv, NEW c \in Calls, AnswerGet(c) \/ AnswerList(c)
    PROVE  MarketInv'
<1>1. call[c] \in CallStates /\ CallKnown(call[c]) /\ NoStore
  BY DEF MarketInv, MarketTypeOK, CallsKnown, AnswerGet, AnswerList
<1>2. CASE AnswerGet(c)
  <2> DEFINE d == call[c].item
             u == call[c].user
  <2>1. /\ u \in Persons /\ d \in Items /\ call[c].text \in Texts
        /\ call[c].text \in offered \/ (call[c].text = d /\ item[d].text = d)
    BY <1>1, <1>2 DEF AnswerGet, CallKnown, CallStates
  <2>2. CASE /\ item[d].author = u \/ item[d].team \in MyTeams(u) \cup {System}
             /\ AnswerWith(c, u, {call[c].text})
    <3>1. OpenTo(call[c].text, u)
      <4>1. CASE call[c].text \in offered
        BY <4>1 DEF OpenTo
      <4>2. CASE call[c].text = d /\ item[d].text = d
        <5>1. item[d].team = System => d \in offered
          BY <2>1, <4>2 DEF MarketInv, RowsKnown
        <5>2. MyTeams(u) \subseteq belonged[u]
          BY <2>1 DEF MarketInv, RowsKnown
        <5> QED BY <2>2, <4>2, <5>1, <5>2 DEF OpenTo
      <4> QED BY <2>1, <4>1, <4>2
    <3> QED BY <1>1, <2>1, <2>2, <3>1, AnswerOpen
  <2>3. CASE AnswerCall(c)
    BY <1>1, <2>3, AnswerEmpty
  <2> QED BY <1>2, <2>2, <2>3 DEF AnswerGet
<1>3. CASE AnswerList(c)
  <2> DEFINE u == call[c].user
             texts == {item[d].text : d \in InScope(c)}
  <2>1. u \in Persons /\ call[c].teams \subseteq belonged[u] /\ AnswerWith(c, u, texts)
    BY <1>1, <1>3 DEF AnswerList, CallKnown
  <2>2. ASSUME NEW d \in InScope(c) PROVE item[d].text \in Texts /\ OpenTo(item[d].text, u)
    <3>1. d \in Items /\ (item[d].author = u \/ item[d].team \in call[c].teams \cup {System})
      BY DEF InScope
    <3>2. item[d].text \in Texts /\ (item[d].text = d \/ item[d].text \in offered)
      BY <3>1 DEF MarketInv, MarketTypeOK, ItemRows, RowsKnown
    <3>3. item[d].team = System => item[d].text \in offered
      BY <3>1, SharedIsOffered
    <3> QED BY <2>1, <3>1, <3>2, <3>3 DEF OpenTo
  <2>3. \A t \in texts : t \in Texts /\ OpenTo(t, u)
    BY <2>2
  <2> HIDE DEF texts, u
  <2> QED BY <1>1, <2>1, <2>3, AnswerOpen
<1> QED BY <1>2, <1>3

\* The chain of a new draft up to its row.
LEMMA ForkingStep ==
    ASSUME MarketInv, NEW c \in Calls,
           ResolveDraftWorkspace(c) \/ ReadSource(c) \/ CallAnswered(c)
    PROVE  MarketInv'
<1>1. call[c] \in CallStates /\ CallKnown(call[c]) /\ NoStore
  BY DEF MarketInv, MarketTypeOK, CallsKnown, ResolveDraftWorkspace, ReadSource, CallAnswered
<1>2. CASE ResolveDraftWorkspace(c)
  <2>1. PICK w \in MyTeams(call[c].user) \cup {System} :
          call' = [call EXCEPT ![c] =
                     [call[c] EXCEPT !.team = w,
                        !.pc = IF call[c].item = NoItem THEN "insert" ELSE "source"]]
    BY <1>2 DEF ResolveDraftWorkspace, Become
  <2>2. w \in Teams \cup {System}
    BY <2>1 DEF MyTeams
  <2>3. PICK pc \in {"insert", "source"} :
          pc = IF call[c].item = NoItem THEN "insert" ELSE "source"
    OBVIOUS
  <2> DEFINE q == [call[c] EXCEPT !.team = w, !.pc = pc]
  <2>4. /\ q \in CallStates /\ q.pc = pc /\ q.user = call[c].user /\ q.item = call[c].item
        /\ q.text = call[c].text /\ q.answer = call[c].answer
    BY <1>1, <2>2 DEF CallStates
  <2>5. call' = [call EXCEPT ![c] = q]
    BY <2>1, <2>3
  <2> HIDE DEF q
  <2>6. q.user \in Persons /\ q.text = NoItem
    BY <1>1, <1>2, <2>4 DEF ResolveDraftWorkspace, CallKnown
  <2>7. NoItem \in offered /\ (q.pc = "source" => q.item \in Items)
    BY <1>1, <2>3, <2>4 DEF MarketInv, RowsKnown, CallStates, Texts
  <2>8. CallKnown(q)
    BY <1>1, <2>3, <2>4, <2>6, <2>7 DEF CallKnown
  <2> QED BY <1>1, <2>4, <2>5, <2>8, OneCall
<1>3. CASE ReadSource(c)
  <2>1. CASE AnswerCall(c)
    BY <1>1, <2>1, AnswerEmpty
  <2>2. CASE item[call[c].item].shared /\
             Become(c, [call[c] EXCEPT !.pc = "insert", !.text = item[call[c].item].text])
    <3>1. call[c].item \in Items /\ call[c].user \in Persons
      BY <1>1, <1>3 DEF ReadSource, CallKnown
    <3>2. PICK t : t = item[call[c].item].text
      OBVIOUS
    <3>3. t \in offered /\ t \in Texts
      BY <2>2, <3>1, <3>2, SharedIsOffered
    <3> DEFINE q == [call[c] EXCEPT !.pc = "insert", !.text = t]
    <3>4. /\ q \in CallStates /\ q.pc = "insert" /\ q.user = call[c].user
          /\ q.text = t /\ q.answer = call[c].answer
      BY <1>1, <3>3 DEF CallStates
    <3>5. call' = [call EXCEPT ![c] = q]
      BY <2>2, <3>2 DEF Become
    <3> HIDE DEF q
    <3>6. CallKnown(q)
      BY <1>1, <3>1, <3>3, <3>4 DEF CallKnown
    <3> QED BY <1>1, <3>4, <3>5, <3>6, OneCall
  <2> QED BY <1>3, <2>1, <2>2 DEF ReadSource
<1>4. CASE CallAnswered(c)
  BY <1>1, <1>4, AnswerEmpty DEF CallAnswered
<1> QED BY <1>2, <1>3, <1>4

\* One row stored: it keeps its author and workspace, or was not there.
LEMMA OneRow ==
    ASSUME MarketInv, NEW d \in Items, NEW r \in ItemRows, r.status # "none",
           \/ InRow(d) /\ r.author = item[d].author /\ r.team = item[d].team
                       /\ (r.text = item[d].text \/ r.text = d)
           \/ ~InRow(d) /\ r.text \in offered
    PROVE  GoodRows([item EXCEPT ![d] = r])
<1>1. /\ [item EXCEPT ![d] = r] \in [Items -> ItemRows]
      /\ \A e \in Items : [item EXCEPT ![d] = r][e] = IF e = d THEN r ELSE item[e]
  BY DEF MarketInv, MarketTypeOK
<1> DEFINE rows == [item EXCEPT ![d] = r]
<1>2. \A e \in Items : e # d => rows[e] = item[e]
  BY <1>1
<1>3. rows[d] = r
  BY <1>1
<1>4. rows \in [Items -> ItemRows]
  BY <1>1
<1> HIDE DEF rows
<1>5. GoodRows(rows)
  BY <1>2, <1>3, <1>4 DEF GoodRows, InRow
<1> QED BY <1>5 DEF rows

\* A row that is there gets its own text, another visibility or another status.
LEMMA SameRow ==
    ASSUME MarketInv, NEW d \in Items, InRow(d)
    PROVE  /\ GoodRows([item EXCEPT ![d].text = d])
           /\ GoodRows([item EXCEPT ![d].status = "archived"])
           /\ \A shared \in BOOLEAN : GoodRows([item EXCEPT ![d].shared = shared])
<1>1. item[d] \in ItemRows /\ item[d].status # "none"
  BY DEF MarketInv, MarketTypeOK, InRow
<1>2. GoodRows([item EXCEPT ![d].text = d])
  <2> DEFINE r == [item[d] EXCEPT !.text = d]
  <2>1. /\ r \in ItemRows /\ r.status # "none" /\ r.author = item[d].author
        /\ r.team = item[d].team /\ r.text = d
    BY <1>1 DEF ItemRows, Texts
  <2>2. [item EXCEPT ![d].text = d] = [item EXCEPT ![d] = r]
    BY DEF MarketInv, MarketTypeOK
  <2> HIDE DEF r
  <2> QED BY <2>1, <2>2, OneRow
<1>3. GoodRows([item EXCEPT ![d].status = "archived"])
  <2> DEFINE r == [item[d] EXCEPT !.status = "archived"]
  <2>1. /\ r \in ItemRows /\ r.status # "none" /\ r.author = item[d].author
        /\ r.team = item[d].team /\ r.text = item[d].text
    BY <1>1 DEF ItemRows
  <2>2. [item EXCEPT ![d].status = "archived"] = [item EXCEPT ![d] = r]
    BY DEF MarketInv, MarketTypeOK
  <2> HIDE DEF r
  <2> QED BY <2>1, <2>2, OneRow
<1>4. ASSUME NEW shared \in BOOLEAN PROVE GoodRows([item EXCEPT ![d].shared = shared])
  <2> DEFINE r == [item[d] EXCEPT !.shared = shared]
  <2>1. /\ r \in ItemRows /\ r.status # "none" /\ r.author = item[d].author
        /\ r.team = item[d].team /\ r.text = item[d].text
    BY <1>1 DEF ItemRows
  <2>2. [item EXCEPT ![d].shared = shared] = [item EXCEPT ![d] = r]
    BY DEF MarketInv, MarketTypeOK
  <2> HIDE DEF r
  <2> QED BY <2>1, <2>2, OneRow
<1> QED BY <1>2, <1>3, <1>4

\* A row is created, with a text that was offered, or with none.
LEMMA NewRowStep ==
    ASSUME MarketInv, NEW c \in Calls, NEW d \in Items, InsertDraft(c, d) \/ Import(c, d)
    PROVE  MarketInv'
<1>1. ~InRow(d) /\ NoItem \in offered /\ Curator \in Persons
  BY MarketplaceAssumption DEF InsertDraft, Import, MarketInv, RowsKnown
<1>2. CASE InsertDraft(c, d)
  <2>1. /\ call[c] \in CallStates /\ call[c].user \in Persons /\ call[c].text \in offered
        /\ call[c].text \in Texts
    BY <1>2 DEF InsertDraft, MarketInv, MarketTypeOK, CallsKnown, CallKnown, CallStates
  <2> DEFINE r == [NoItemRow EXCEPT !.status = "draft", !.author = call[c].user,
                     !.team = call[c].team, !.text = call[c].text, !.forkOf = call[c].item]
  <2>2. r \in ItemRows /\ r.status = "draft" /\ r.text = call[c].text
    BY <2>1, Empties DEF ItemRows, CallStates
  <2>3. NoStore \/ Store([item EXCEPT ![d] = r])
    BY <1>2 DEF InsertDraft
  <2> HIDE DEF r
  <2>4. GoodRows([item EXCEPT ![d] = r])
    BY <1>1, <2>1, <2>2, OneRow
  <2>5. AnswerCall(c)
    BY <1>2 DEF InsertDraft
  <2> QED BY <2>3, <2>4, <2>5, AnswerEmpty
<1>3. CASE Import(c, d)
  <2> DEFINE r == [NoItemRow EXCEPT !.status = "draft", !.author = Curator]
             q == [NoCall EXCEPT !.pc = "content", !.user = Curator, !.item = d]
  <2>1. r \in ItemRows /\ r.status = "draft" /\ r.text = NoItem
    BY <1>1, Empties DEF ItemRows
  <2>2. /\ q \in CallStates /\ q.pc = "content" /\ q.user = Curator /\ q.item = d
        /\ q.answer = {}
    BY <1>1, Empties DEF CallStates, Texts
  <2>3. Store([item EXCEPT ![d] = r]) /\ call' = [call EXCEPT ![c] = q]
    BY <1>3 DEF Import, Arrive
  <2> HIDE DEF r, q
  <2>4. GoodRows([item EXCEPT ![d] = r])
    BY <1>1, <2>1, OneRow
  <2>5. InRow(d)'
    <3>1. item'[d] = r
      BY <2>3 DEF Store, MarketInv, MarketTypeOK
    <3> QED BY <2>1, <3>1 DEF InRow
  <2>6. PICK k : k = q
    OBVIOUS
  <2>7. CallKnown(k)'
    BY <1>1, <2>2, <2>5, <2>6 DEF CallKnown
  <2> QED BY <2>2, <2>3, <2>4, <2>6, <2>7, OneCall
<1> QED BY <1>2, <1>3

\* The requests that change a row that is there.
LEMMA WriteStep ==
    ASSUME MarketInv, NEW c \in Calls,
           ImportContent(c) \/ ImportShared(c) \/ Rewrite(c) \/ PatchVisibility(c)
    PROVE  MarketInv'
<1> DEFINE d == call[c].item
<1>1. /\ call[c] \in CallStates /\ CallKnown(call[c])
      /\ call[c].pc \in {"content", "share", "write", "visibility"}
  BY DEF MarketInv, MarketTypeOK, CallsKnown, ImportContent, ImportShared, Rewrite,
         PatchVisibility
<1>2. d \in Items /\ InRow(d) /\ call[c].user \in Persons
  BY <1>1 DEF CallKnown
<1>3. NoStore \/ \E rows : GoodRows(rows) /\ Store(rows)
  <2>1. CASE \/ Store([item EXCEPT ![d].text = d])
             \/ \E shared \in BOOLEAN : Store([item EXCEPT ![d].shared = shared])
    BY <1>2, <2>1, SameRow
  <2> QED
    BY <2>1 DEF ImportContent, ImportShared, Rewrite, PatchVisibility, SetVisibility
<1>4. CASE AnswerCall(c)
  BY <1>3, <1>4, AnswerEmpty
<1>5. CASE Become(c, [call[c] EXCEPT !.pc = "share"])
  <2> DEFINE q == [call[c] EXCEPT !.pc = "share"]
  <2>1. /\ q \in CallStates /\ q.pc = "share" /\ q.user = call[c].user /\ q.item = d
        /\ q.answer = call[c].answer
    BY <1>1 DEF CallStates
  <2>2. call' = [call EXCEPT ![c] = q]
    BY <1>5 DEF Become
  <2> HIDE DEF q
  <2>3. CallKnown(q)
    BY <1>1, <1>2, <2>1 DEF CallKnown
  <2> QED BY <1>3, <2>1, <2>2, <2>3, OneCall
<1> QED BY <1>4, <1>5 DEF ImportContent, ImportShared, Rewrite, PatchVisibility

\* Rows are archived by their authors, and shared or hidden by the administrator.
LEMMA ColumnStep ==
    ASSUME MarketInv, NEW d \in Items,
           AdminVisibility(d) \/ \E u \in Persons : Archive(u, d)
    PROVE  MarketInv'
<1>1. InRow(d) /\ UNCHANGED call
  BY DEF AdminVisibility, Archive
<1>2. \E rows : GoodRows(rows) /\ Store(rows)
  BY <1>1, SameRow DEF AdminVisibility, Archive, SetVisibility
<1>3. call' \in [Calls -> CallStates] /\ \A c \in Calls : call'[c] = call[c]
  BY <1>1 DEF MarketInv, MarketTypeOK
<1> QED BY <1>2, <1>3, MarketKeep

\* Members come and go; that they were members stays.
LEMMA MoveStep ==
    ASSUME MarketInv, NEW w \in Teams, NEW u \in Movers, Move(w, u)
    PROVE  MarketInv'
<1>1. /\ UNCHANGED <<table, item, call, offered>>
      /\ moves' = moves + 1 /\ moves < MaxMoves
      /\ belonged' = [belonged EXCEPT ![u] = @ \cup {w}]
      /\ u \in Persons
  BY MarketplaceAssumption DEF Move
<1>2. PICK r \in {"none", "developer", "maintainer"} : role' = [role EXCEPT ![w][u] = r]
  BY DEF Move
<1>3. /\ belonged' \in [Persons -> SUBSET Teams]
      /\ \A v \in Persons : belonged[v] \subseteq belonged'[v]
      /\ w \in belonged'[u]
  BY <1>1 DEF MarketInv, MarketTypeOK
<1>4. /\ role' \in [Teams -> [Persons -> {"none", "developer", "maintainer"}]]
      /\ \A x \in Teams, v \in Persons : x # w \/ v # u => role'[x][v] = role[x][v]
  BY <1>1, <1>2 DEF MarketInv, MarketTypeOK
<1>5. MarketTypeOK'
  BY <1>1, <1>3, <1>4, MarketplaceAssumption DEF MarketInv, MarketTypeOK
<1>6. RowsKnown'
  <2>1. ASSUME NEW v \in Persons PROVE MyTeams(v)' \subseteq belonged'[v]
    <3>1. MyTeams(v) \subseteq belonged[v]
      BY DEF MarketInv, RowsKnown
    <3> QED BY <1>3, <1>4, <3>1 DEF MyTeams
  <2> QED BY <1>1, <2>1 DEF MarketInv, RowsKnown, InRow
<1>7. CallsKnown'
  <2>1. ASSUME NEW c \in Calls PROVE CallKnown(call[c])'
    <3>1. CallKnown(call[c]) /\ call'[c] = call[c]
      BY <1>1 DEF MarketInv, CallsKnown
    <3> QED BY <1>1, <1>3, <3>1 DEF CallKnown, OpenTo, InRow
  <2> QED BY <2>1 DEF CallsKnown
<1> QED BY <1>5, <1>6, <1>7 DEF MarketInv

\* The requests for skills and those for souls are the same.
LEMMA MarketActions ==
    ASSUME MarketNext
    PROVE  \/ \E c \in Calls, u \in Persons : Count(c, u) \/ List(c, u) \/ ListShared(c, u)
           \/ \E c \in Calls, u \in Persons, d \in Items :
                 \/ Fork(c, u, d) \/ Edit(c, u, d) \/ GetDraft(c, u, d) \/ Preview(c, u, d)
                 \/ AskVisibility(c, u, d)
           \/ \E c \in Calls :
                 \/ CallAnswered(c) \/ ResolveDraftWorkspace(c) \/ ReadSource(c)
                 \/ ImportContent(c) \/ ImportShared(c) \/ Rewrite(c) \/ AnswerGet(c)
                 \/ AnswerList(c) \/ PatchVisibility(c)
           \/ \E c \in Calls, d \in Items : InsertDraft(c, d) \/ Import(c, d)
           \/ \E u \in Persons, d \in Items : Archive(u, d)
           \/ \E d \in Items : AdminVisibility(d)
           \/ \E w \in Teams, u \in Movers : Move(w, u)
  BY Zenon
     DEF MarketNext, CreateSkillDraft, CreateSoulDraft, ListSkillDrafts, ListSoulDrafts,
         ListMarketplaceSkills, ListMarketplaceSouls, ForkMarketplaceSkill,
         ForkMarketplaceSoul, PatchSkillDraft, PatchSoulDraft, GetSkillDraft, GetSoulDraft,
         PreviewMarketplaceSkill, PreviewMarketplaceSoul, ExportMarketplaceSkill,
         ExportMarketplaceSoul, Export, AuthorSetSkillVisibility, AuthorSetSoulVisibility,
         ForkSkillDraft, ForkSoulDraft, UpdateSkillDraftFiles, UpdateSoulDraft,
         ListSkillDraftsForScope, ListSoulDraftsForScope, SetSkillDraftVisibility,
         SetSoulDraftVisibility, InsertSkillDraft, InsertSoulDraft, ImportMarketplaceSkill,
         ImportMarketplaceSoul, ArchiveSkillDraft, ArchiveSoulDraft, AdminSetSkillVisibility,
         AdminSetSoulVisibility

\* Every step of the marketplace keeps the invariant, and it holds at the start.
LEMMA MarketKept ==
    /\ MarketInit => MarketInv
    /\ MarketInv /\ [MarketNext]_marketVars => MarketInv'
<1>1. MarketInit => MarketInv
  <2> SUFFICES ASSUME MarketInit PROVE MarketInv
    OBVIOUS
  <2>1. MarketTypeOK
    <3>1. role \in [Teams -> [Persons -> {"none", "developer", "maintainer"}]]
      BY DEF MarketInit
    <3>2. belonged \in [Persons -> SUBSET Teams]
      BY DEF MarketInit, MyTeams
    <3> QED
      BY <3>1, <3>2, Empties, MarketplaceAssumption DEF MarketInit, MarketTypeOK, Texts
  <2>2. RowsKnown
    BY Empties DEF MarketInit, RowsKnown, InRow, NoItemRow
  <2>3. CallsKnown
    BY Empties DEF MarketInit, CallsKnown
  <2> QED BY <2>1, <2>2, <2>3 DEF MarketInv
<1>2. ASSUME MarketInv, UNCHANGED marketVars PROVE MarketInv'
  <2>1. NoStore /\ call' \in [Calls -> CallStates] /\ \A c \in Calls : call'[c] = call[c]
    BY <1>2 DEF marketVars, NoStore, MarketInv, MarketTypeOK
  <2> QED BY <1>2, <2>1, MarketKeep
<1>3. ASSUME MarketInv, MarketNext PROVE MarketInv'
  <2>1. ASSUME NEW c \in Calls, NEW u \in Persons,
               Count(c, u) \/ List(c, u) \/ ListShared(c, u)
        PROVE  MarketInv'
    BY <1>3, <2>1, ArriveStep, ReadStep, SharedStep
  <2>2. ASSUME NEW c \in Calls, NEW u \in Persons, NEW d \in Items,
               \/ Fork(c, u, d) \/ Edit(c, u, d) \/ GetDraft(c, u, d) \/ Preview(c, u, d)
               \/ AskVisibility(c, u, d)
        PROVE  MarketInv'
    BY <1>3, <2>2, ArriveStep, ReadStep, SharedStep
  <2>3. ASSUME NEW c \in Calls,
               \/ CallAnswered(c) \/ ResolveDraftWorkspace(c) \/ ReadSource(c)
               \/ ImportContent(c) \/ ImportShared(c) \/ Rewrite(c) \/ AnswerGet(c)
               \/ AnswerList(c) \/ PatchVisibility(c)
        PROVE  MarketInv'
    BY <1>3, <2>3, ForkingStep, WriteStep, MemberAnswerStep
  <2> QED
    BY <1>3, <2>1, <2>2, <2>3, MarketActions, NewRowStep, ColumnStep, MoveStep
<1> QED BY <1>1, <1>2, <1>3

\* The table, the memberships and the requests are always of their types.
THEOREM MarketAlwaysTyped == MarketSpec => []MarketTypeOK
  BY MarketKept, PTL DEF MarketSpec, MarketInv

\* The text of a draft is answered to its author, to who was a member of its workspace, or
\* after it was shared or everybody's, for any number of drafts, forks and users.
THEOREM AnswersAlwaysOpen == MarketSpec => []AnswersAreOpen
<1>1. MarketInv => AnswersAreOpen
  BY DEF MarketInv, CallsKnown, CallKnown, OpenTo, AnswersAreOpen
<1> QED BY <1>1, MarketKept, PTL DEF MarketSpec

-----------------------------------------------------------------------------
(* The connection to the model server *)

Consented(t) == dance[t].pc \in {"supersede", "save"}
Flying(r) == flight[r].pc # "idle"

\* A grant on its way to the row is nobody's yet, and its token is the first.
GrantIsNew ==
    \A t \in Tabs : Consented(t) =>
        /\ dance[t].grant \in Given
        /\ current[dance[t].grant] = 1
        /\ connection.owner # dance[t].grant
        /\ \A r \in Replicas : Flying(r) => flight[r].owner # dance[t].grant
        /\ \A u \in Tabs : Consented(u) /\ dance[u].grant = dance[t].grant => u = t

\* The tokens of the row and of the refreshes are of grants that were given, and not newer
\* than the one ModelServer will accept.
TokensKnown ==
    /\ connection # NoConnection =>
          connection.owner \in Given /\ connection.token <= current[connection.owner]
    /\ \A r \in Replicas : Flying(r) =>
          flight[r].owner \in Given /\ flight[r].token <= current[flight[r].owner]

\* A refresh that was answered has the token of the moment, and where tokens rotate,
\* neither the row nor another refresh has it.
AnswerIsFresh ==
    \A r \in Replicas : flight[r].pc = "write" =>
        /\ flight[r].token = current[flight[r].owner]
        /\ rotates =>
             /\ connection # NoConnection /\ connection.owner = flight[r].owner =>
                   connection.token < flight[r].token
             /\ \A q \in Replicas : q # r /\ Flying(q) /\ flight[q].owner = flight[r].owner =>
                   flight[q].token < flight[r].token

ModelServerInv ==
    /\ ModelServerTypeOK /\ GrantIsNew /\ TokensKnown /\ AnswerIsFresh
    /\ ConnectionUsable

\* Types are kept.
LEMMA ModelServerTypeStep ==
    ASSUME ModelServerTypeOK, [ModelServerNext]_modelServerVars
    PROVE  ModelServerTypeOK'
<1>0. /\ NewDance \in Dances /\ NoConnection \in Connections /\ NoFlight \in Flights
      /\ \A d \in Dances : d.grant \in Grants \cup {NoGrant}
      /\ \A c \in Connections : c.owner \in Grants \cup {NoGrant} /\ c.token \in Numbers
      /\ \A f \in Flights : f.owner \in Grants \cup {NoGrant} /\ f.token \in Numbers
      /\ Numbers \subseteq Int /\ 0 \in Numbers /\ 1 \in Numbers
  BY ModelServerAssumption
     DEF NewDance, NoConnection, NoFlight, Dances, Connections, Flights, Numbers
<1>a. ASSUME NEW t \in Tabs, NEW pc \in {"idle", "asked", "exchange", "supersede", "save"}
      PROVE  [dance EXCEPT ![t].pc = pc] \in [Tabs -> Dances]
  BY DEF ModelServerTypeOK, Dances
<1>1. ASSUME NEW t \in Tabs, BeginConnection(t) PROVE ModelServerTypeOK'
  BY <1>1, <1>a DEF ModelServerTypeOK, BeginConnection, DanceStep, refreshVars
<1>2. ASSUME NEW t \in Tabs, Callback(t) PROVE ModelServerTypeOK'
  BY <1>2, <1>a DEF ModelServerTypeOK, Callback, DanceStep, refreshVars
<1>3. ASSUME NEW t \in Tabs, CallbackFails(t) PROVE ModelServerTypeOK'
  BY <1>0, <1>3 DEF ModelServerTypeOK, CallbackFails, refreshVars
<1>4. ASSUME NEW t \in Tabs, ExchangeCode(t) PROVE ModelServerTypeOK'
  <2>1. PICK g \in Grants \ Given :
           /\ current' = [current EXCEPT ![g] = 1]
           /\ dance' = [dance EXCEPT ![t] = [pc |-> "supersede", grant |-> g]]
    BY <1>4 DEF ExchangeCode
  <2>2. [pc |-> "supersede", grant |-> g] \in Dances
    BY DEF Dances
  <2>3. dance' \in [Tabs -> Dances]
    BY <2>1, <2>2 DEF ModelServerTypeOK
  <2>4. current' \in [Grants -> Numbers]
    BY <1>0, <2>1 DEF ModelServerTypeOK
  <2> QED BY <1>4, <2>3, <2>4 DEF ModelServerTypeOK, ExchangeCode
<1>5. ASSUME NEW t \in Tabs, SupersedeBYOK(t) PROVE ModelServerTypeOK'
  <2>1. byok' \in BOOLEAN
    BY <1>5 DEF ModelServerTypeOK, SupersedeBYOK
  <2> QED BY <1>5, <1>a, <2>1 DEF ModelServerTypeOK, SupersedeBYOK, DanceStep, refreshVars
<1>6. ASSUME NEW t \in Tabs, SaveConnection(t) PROVE ModelServerTypeOK'
  <2>1. dance' \in [Tabs -> Dances]
    BY <1>0, <1>6 DEF ModelServerTypeOK, SaveConnection
  <2>2. PICK g \in Grants \cup {NoGrant} : g = dance[t].grant
    BY <1>0 DEF ModelServerTypeOK
  <2>3. [project |-> g, owner |-> g, token |-> 1, valid |-> TRUE] \in Connections
    BY <1>0 DEF Connections
  <2>4. connection' \in Connections
    BY <1>6, <2>2, <2>3 DEF ModelServerTypeOK, SaveConnection
  <2>5. connected' \in BOOLEAN
    BY <1>6 DEF ModelServerTypeOK, SaveConnection
  <2> QED BY <1>6, <2>1, <2>4, <2>5 DEF ModelServerTypeOK, SaveConnection, refreshVars
<1>7. CASE Disconnect
  BY <1>0, <1>7 DEF ModelServerTypeOK, Disconnect, danceVars, refreshVars
<1>8. CASE ConfigureBYOK
  <2>1. byok' \in BOOLEAN
    BY <1>8 DEF ConfigureBYOK
  <2> QED BY <1>8, <2>1 DEF ModelServerTypeOK, ConfigureBYOK, danceVars, refreshVars
<1>9. CASE TokenExpires
  <2>1. connection' \in Connections
    BY <1>9 DEF ModelServerTypeOK, TokenExpires, Connections
  <2> QED BY <1>9, <2>1 DEF ModelServerTypeOK, TokenExpires, danceVars, refreshVars
<1>10. ASSUME NEW r \in Replicas, StartRefresh(r) PROVE ModelServerTypeOK'
  <2>1. PICK o \in Grants \cup {NoGrant}, n \in Numbers :
           o = connection.owner /\ n = connection.token
    BY <1>0 DEF ModelServerTypeOK
  <2>2. [pc |-> "ask", owner |-> o, token |-> n] \in Flights
    BY DEF Flights
  <2>3. flight' \in [Replicas -> Flights]
    BY <1>10, <2>1, <2>2 DEF ModelServerTypeOK, StartRefresh
  <2> QED BY <1>10, <2>3 DEF ModelServerTypeOK, StartRefresh, danceVars
<1>11. ASSUME NEW r \in Replicas, AskRefresh(r) PROVE ModelServerTypeOK'
  <2>1. PICK n \in Numbers :
           /\ current' = [current EXCEPT ![flight[r].owner] = n]
           /\ flight' = [flight EXCEPT ![r] =
                            [flight[r] EXCEPT !.pc = "write", !.token = n]]
    <3>1. flight[r].token \in Numbers
      BY <1>0 DEF ModelServerTypeOK
    <3>2. \A n \in Int : 0 <= n /\ n <= MaxRotations => n \in Numbers
      BY DEF Numbers
    <3>3. flight[r].token + 1 \in Nat /\ flight[r].token \in Nat
      BY <3>1 DEF Numbers
    <3>4. CASE rotates
      <4>1. /\ flight[r].token + 1 <= MaxRotations
            /\ current' = [current EXCEPT ![flight[r].owner] = flight[r].token + 1]
            /\ flight' = [flight EXCEPT ![r] = [flight[r] EXCEPT !.pc = "write",
                                                   !.token = flight[r].token + 1]]
        BY <1>11, <3>4 DEF AskRefresh
      <4>2. flight[r].token + 1 \in Numbers
        BY <3>2, <3>3, <4>1
      <4> QED BY <4>1, <4>2
    <3>5. CASE ~rotates
      BY <1>11, <3>1, <3>5 DEF AskRefresh
    <3> QED BY <3>4, <3>5
  <2>2. [flight[r] EXCEPT !.pc = "write", !.token = n] \in Flights
    BY DEF ModelServerTypeOK, Flights
  <2>3. flight' \in [Replicas -> Flights] /\ current' \in [Grants -> Numbers]
    BY <2>1, <2>2 DEF ModelServerTypeOK
  <2> QED BY <1>11, <2>3 DEF ModelServerTypeOK, AskRefresh, danceVars
<1>12. ASSUME NEW r \in Replicas, RefreshFails(r) PROVE ModelServerTypeOK'
  BY <1>0, <1>12 DEF ModelServerTypeOK, RefreshFails, danceVars
<1>13. ASSUME NEW r \in Replicas, WriteTokens(r) PROVE ModelServerTypeOK'
  <2>1. PICK o \in Grants \cup {NoGrant}, n \in Numbers :
           o = flight[r].owner /\ n = flight[r].token
    BY <1>0 DEF ModelServerTypeOK
  <2>2. [connection EXCEPT !.owner = o, !.token = n, !.valid = TRUE] \in Connections
    BY DEF ModelServerTypeOK, Connections
  <2>3. connection' \in Connections
    BY <1>13, <2>1, <2>2 DEF ModelServerTypeOK, WriteTokens, UpdateTokens
  <2>4. flight' \in [Replicas -> Flights]
    BY <1>0, <1>13 DEF ModelServerTypeOK, WriteTokens
  <2>5. overtaken' \in BOOLEAN
    BY <1>13 DEF ModelServerTypeOK, WriteTokens
  <2> QED BY <1>13, <2>3, <2>4, <2>5 DEF ModelServerTypeOK, WriteTokens, danceVars
<1>14. ASSUME NEW r \in Replicas, LoseTokens(r) PROVE ModelServerTypeOK'
  BY <1>0, <1>14 DEF ModelServerTypeOK, LoseTokens, danceVars
<1>15. CASE UNCHANGED modelServerVars
  BY <1>15 DEF ModelServerTypeOK, modelServerVars, danceVars, refreshVars
<1> QED
  BY <1>1, <1>2, <1>3, <1>4, <1>5, <1>6, <1>7, <1>8, <1>9, <1>10, <1>11, <1>12,
     <1>13, <1>14, <1>15 DEF ModelServerNext

\* What a grant, the row and a refresh can be.
LEMMA Known ==
    ASSUME ModelServerTypeOK
    PROVE  /\ \A t \in Tabs : dance[t].grant \in Grants \cup {NoGrant}
           /\ connection.owner \in Grants \cup {NoGrant} /\ connection.token \in Nat
           /\ \A r \in Replicas : flight[r].owner \in Grants \cup {NoGrant}
                                  /\ flight[r].token \in Nat
           /\ \A g \in Grants : current[g] \in Nat
           /\ Given \subseteq Grants
           /\ NoGrant \notin Grants /\ NoConnection.owner = NoGrant
           /\ NoFlight.pc = "idle"
  BY ModelServerAssumption
     DEF ModelServerTypeOK, Dances, Connections, Flights, Numbers, Given, NoConnection,
         NoFlight

\* The steps of the dance before the row is written, and those of the workspace's own
\* configuration, change nothing that the invariant speaks of, and consent to nothing.
LEMMA DanceOnly ==
    ASSUME ModelServerInv,
           UNCHANGED <<connection, connected, overtaken, lostToken, current, rotates, flight>>,
           \A t \in Tabs : Consented(t)' => Consented(t) /\ dance'[t].grant = dance[t].grant
    PROVE  GrantIsNew' /\ TokensKnown' /\ AnswerIsFresh' /\ ConnectionUsable'
<1>1. GrantIsNew'
  BY DEF ModelServerInv, GrantIsNew, Given, Flying
<1>2. TokensKnown' /\ AnswerIsFresh' /\ ConnectionUsable'
  BY DEF ModelServerInv, TokensKnown, AnswerIsFresh, ConnectionUsable, Given, Flying,
         NoConnection
<1> QED BY <1>1, <1>2

\* A row that ends or expires.
LEMMA RowEnds ==
    ASSUME ModelServerInv, Disconnect \/ TokenExpires
    PROVE  GrantIsNew' /\ TokensKnown' /\ AnswerIsFresh' /\ ConnectionUsable'
<1>1. /\ UNCHANGED <<dance, current, rotates, flight, lostToken, overtaken>>
      /\ \/ connection' = NoConnection
         \/ /\ connection # NoConnection /\ connected' = connected
            /\ connection'.owner = connection.owner
            /\ connection'.token = connection.token
            /\ connection'.project = connection.project
  BY DEF ModelServerInv, ModelServerTypeOK, Connections, Disconnect, TokenExpires,
         NoConnection, danceVars, refreshVars
<1>2. GrantIsNew'
  BY <1>1, Known DEF ModelServerInv, GrantIsNew, Given, Flying, Consented
<1>3. TokensKnown'
  BY <1>1 DEF ModelServerInv, TokensKnown, Given, Flying, NoConnection
<1>4. AnswerIsFresh'
  BY <1>1 DEF ModelServerInv, AnswerIsFresh, Flying, NoConnection
<1>5. ConnectionUsable'
  BY <1>1 DEF ModelServerInv, ConnectionUsable, NoConnection
<1> QED BY <1>2, <1>3, <1>4, <1>5

\* A grant that was not given before is nobody's.
LEMMA ExchangeStep ==
    ASSUME ModelServerInv, NEW t \in Tabs, ExchangeCode(t)
    PROVE  GrantIsNew' /\ TokensKnown' /\ AnswerIsFresh' /\ ConnectionUsable'
<1>1. PICK g \in Grants \ Given :
         /\ current' = [current EXCEPT ![g] = 1]
         /\ dance' = [dance EXCEPT ![t] = [pc |-> "supersede", grant |-> g]]
  BY DEF ExchangeCode
<1>2. UNCHANGED <<connection, connected, overtaken, lostToken, rotates, flight>>
  BY DEF ExchangeCode
<1>3. /\ current'[g] = 1 /\ \A h \in Grants : h # g => current'[h] = current[h]
      /\ Given' = Given \cup {g}
  BY <1>1 DEF ModelServerInv, ModelServerTypeOK, Given
<1>4. /\ dance'[t].pc = "supersede" /\ dance'[t].grant = g
      /\ \A u \in Tabs : u # t => dance'[u] = dance[u]
  BY <1>1 DEF ModelServerInv, ModelServerTypeOK
<1>5. connection.owner # g /\ \A r \in Replicas : Flying(r) => flight[r].owner # g
  BY <1>1, Known DEF ModelServerInv, TokensKnown
<1>6. GrantIsNew'
  BY <1>1, <1>2, <1>3, <1>4, <1>5, Known DEF ModelServerInv, GrantIsNew, Flying, Consented
<1>7. TokensKnown'
  BY <1>1, <1>2, <1>3, <1>5, Known DEF ModelServerInv, TokensKnown, Flying, NoConnection
<1>8. AnswerIsFresh'
  BY <1>2, <1>3, <1>5, Known DEF ModelServerInv, AnswerIsFresh, TokensKnown, Flying, NoConnection
<1>9. ConnectionUsable'
  BY <1>2, <1>3, <1>5, Known
     DEF ModelServerInv, ConnectionUsable, TokensKnown, Flying, NoConnection
<1> QED BY <1>6, <1>7, <1>8, <1>9

\* The new row has the first token of a grant that nobody else holds.
LEMMA SaveStep ==
    ASSUME ModelServerInv, NEW t \in Tabs, SaveConnection(t)
    PROVE  GrantIsNew' /\ TokensKnown' /\ AnswerIsFresh' /\ ConnectionUsable'
<1>1. PICK g \in Given : g = dance[t].grant
  BY DEF ModelServerInv, GrantIsNew, Consented, SaveConnection
<1>2. UNCHANGED <<current, rotates, flight, lostToken, overtaken>>
  BY DEF SaveConnection, refreshVars
<1>3. \A u \in Tabs : Consented(u)' =>
         u # t /\ Consented(u) /\ dance'[u].grant = dance[u].grant
  BY DEF ModelServerInv, ModelServerTypeOK, SaveConnection, Consented, NewDance
<1>4. /\ Consented(t) /\ current[g] = 1 /\ connection.owner # g
      /\ \A r \in Replicas : Flying(r) => flight[r].owner # g
      /\ \A u \in Tabs : Consented(u) /\ dance[u].grant = g => u = t
  BY <1>1 DEF ModelServerInv, GrantIsNew, Consented, SaveConnection
<1>5. CASE UNCHANGED <<connection, connected>>
  BY <1>2, <1>3, <1>5, DanceOnly
<1>6. CASE /\ connection' = [project |-> g, owner |-> g, token |-> 1, valid |-> TRUE]
           /\ connected' = TRUE
  <2>1. /\ connection'.owner = g /\ connection'.project = g /\ connection'.token = 1
        /\ connected'
    BY <1>6
  <2>2. GrantIsNew'
    BY <1>1, <1>2, <1>3, <1>4, <2>1 DEF ModelServerInv, GrantIsNew, Given, Flying
  <2>3. TokensKnown'
    BY <1>1, <1>2, <1>4, <2>1 DEF ModelServerInv, TokensKnown, Given, Flying
  <2>4. AnswerIsFresh'
    BY <1>1, <1>2, <1>4, <2>1 DEF ModelServerInv, AnswerIsFresh, Flying
  <2>5. ConnectionUsable'
    BY <1>2, <1>4, <2>1 DEF ConnectionUsable
  <2> QED BY <2>2, <2>3, <2>4, <2>5
<1> QED BY <1>1, <1>5, <1>6 DEF SaveConnection

\* A refresh that begins, ends without an answer, or loses its answer.
LEMMA FlightOnly ==
    ASSUME ModelServerInv, NEW r \in Replicas,
           StartRefresh(r) \/ RefreshFails(r) \/ LoseTokens(r)
    PROVE  GrantIsNew' /\ TokensKnown' /\ AnswerIsFresh' /\ ConnectionUsable'
<1>1. /\ UNCHANGED <<dance, connection, connected, overtaken, current, rotates>>
      /\ \A q \in Replicas : q # r => flight'[q] = flight[q]
      /\ flight'[r].pc # "write"
      /\ flight'[r].pc # "idle" =>
            /\ connection # NoConnection
            /\ flight'[r].owner = connection.owner /\ flight'[r].token = connection.token
      /\ lostToken' \/ (flight[r].pc # "write" /\ lostToken' = lostToken)
  BY DEF ModelServerInv, ModelServerTypeOK, StartRefresh, RefreshFails, LoseTokens,
         NoFlight, danceVars
<1>2. GrantIsNew'
  BY <1>1 DEF ModelServerInv, GrantIsNew, Given, Flying, Consented
<1>3. TokensKnown'
  BY <1>1 DEF ModelServerInv, TokensKnown, Given, Flying, NoConnection
<1>4. AnswerIsFresh'
  BY <1>1 DEF ModelServerInv, AnswerIsFresh, Flying, NoConnection
<1>5. ConnectionUsable'
  BY <1>1 DEF ModelServerInv, ConnectionUsable, NoConnection
<1> QED BY <1>2, <1>3, <1>4, <1>5

\* Where tokens rotate, the answer makes every other token of the grant an old one.
LEMMA AskStep ==
    ASSUME ModelServerInv, NEW r \in Replicas, AskRefresh(r)
    PROVE  GrantIsNew' /\ TokensKnown' /\ AnswerIsFresh' /\ ConnectionUsable'
<1>1. /\ flight[r].pc = "ask" /\ flight[r].owner \in Given
      /\ flight[r].token = current[flight[r].owner]
  BY DEF ModelServerInv, AskRefresh, TokensKnown, Flying
<1>2. PICK o \in Grants : o = flight[r].owner
  BY <1>1, Known DEF ModelServerInv
<1>3. PICK n \in Nat :
         /\ n = IF rotates THEN current[o] + 1 ELSE current[o]
         /\ current' = [current EXCEPT ![o] = n]
         /\ flight' = [flight EXCEPT ![r] = [flight[r] EXCEPT !.pc = "write", !.token = n]]
  <2>1. current[o] \in Nat
    BY Known DEF ModelServerInv
  <2>2. CASE rotates
    <3>1. /\ current' = [current EXCEPT ![flight[r].owner] = flight[r].token + 1]
          /\ flight' = [flight EXCEPT ![r] = [flight[r] EXCEPT !.pc = "write",
                                                 !.token = flight[r].token + 1]]
      BY <2>2 DEF AskRefresh
    <3>2. flight[r].token + 1 \in Nat /\ flight[r].token + 1 = current[o] + 1
      BY <1>1, <1>2, <2>1
    <3> QED BY <1>2, <2>2, <3>1, <3>2
  <2>3. CASE ~rotates
    BY <1>1, <1>2, <2>1, <2>3 DEF AskRefresh
  <2> QED BY <2>2, <2>3
<1>4. UNCHANGED <<dance, connection, connected, overtaken, lostToken, rotates>>
  BY DEF AskRefresh, danceVars
<1>5. /\ flight'[r].pc = "write" /\ flight'[r].owner = o /\ flight'[r].token = n
      /\ \A q \in Replicas : q # r => flight'[q] = flight[q]
  BY <1>2, <1>3 DEF ModelServerInv, ModelServerTypeOK, Flights
<1>6. current'[o] = n /\ \A g \in Grants : g # o => current'[g] = current[g]
  BY <1>3 DEF ModelServerInv, ModelServerTypeOK
<1>7. /\ current[o] \in Nat /\ current[o] # 0 /\ current[o] <= n
      /\ rotates => current[o] < n
      /\ ~rotates => current[o] = n
  BY <1>1, <1>2, <1>3, Known DEF ModelServerInv, Given
<1>8. Given' = Given
  BY <1>2, <1>6, <1>7, <1>1 DEF Given
<1>9. GrantIsNew'
  BY <1>1, <1>2, <1>4, <1>5, <1>6, <1>8, Known
     DEF ModelServerInv, GrantIsNew, Flying, Consented
<1>10. TokensKnown'
  <2>1. connection # NoConnection => connection.token <= current'[connection.owner]
    BY <1>6, <1>7, Known DEF ModelServerInv, TokensKnown
  <2>2. \A q \in Replicas : q # r /\ Flying(q) =>
           flight[q].token <= current'[flight[q].owner]
    BY <1>6, <1>7, Known DEF ModelServerInv, TokensKnown
  <2> QED
    BY <1>1, <1>2, <1>3, <1>4, <1>5, <1>6, <1>8, <2>1, <2>2
       DEF ModelServerInv, TokensKnown, Flying, NoConnection
<1>11. AnswerIsFresh'
  <2>1. ASSUME NEW q \in Replicas, q # r, flight[q].pc = "write", rotates
        PROVE  flight[q].owner # o
    BY <1>1, <1>2, <2>1, Known DEF ModelServerInv, AnswerIsFresh, Flying
  <2>2. ASSUME NEW q \in Replicas, q # r, flight[q].pc = "write"
        PROVE  flight[q].token = current'[flight[q].owner]
    BY <1>6, <1>7, <2>1, <2>2, Known
       DEF ModelServerInv, AnswerIsFresh, TokensKnown, Flying
  <2>3. ASSUME rotates, NEW q \in Replicas, q # r, Flying(q), flight[q].owner = o
        PROVE  flight[q].token < n
    BY <1>7, <2>3, Known DEF ModelServerInv, TokensKnown
  <2>4. ASSUME rotates, connection # NoConnection, connection.owner = o
        PROVE  connection.token < n
    BY <1>7, <2>4, Known DEF ModelServerInv, TokensKnown
  <2>5. ASSUME NEW q \in Replicas, flight'[q].pc = "write"
        PROVE  flight'[q].token = current'[flight'[q].owner]
    BY <1>5, <1>6, <2>2, <2>5
  <2>6. ASSUME NEW q \in Replicas, flight'[q].pc = "write", rotates,
               connection # NoConnection, connection.owner = flight'[q].owner
        PROVE  connection.token < flight'[q].token
    BY <1>5, <2>4, <2>6 DEF ModelServerInv, AnswerIsFresh
  <2>7. ASSUME NEW q \in Replicas, flight'[q].pc = "write", rotates,
               NEW p \in Replicas, p # q, flight'[p].pc # "idle",
               flight'[p].owner = flight'[q].owner
        PROVE  flight'[p].token < flight'[q].token
    BY <1>5, <2>1, <2>3, <2>7 DEF ModelServerInv, AnswerIsFresh, Flying
  <2> QED BY <1>4, <2>5, <2>6, <2>7 DEF AnswerIsFresh, Flying, NoConnection
<1>12. ConnectionUsable'
  <2>1. CASE connection.owner = o
    BY <1>4, <1>5, <1>6, <2>1 DEF ModelServerInv, ConnectionUsable, NoConnection
  <2>2. CASE connection.owner # o
    BY <1>1, <1>4, <1>5, <1>6, <2>2, Known
       DEF ModelServerInv, ConnectionUsable, TokensKnown, NoConnection
  <2> QED BY <2>1, <2>2
<1> QED BY <1>9, <1>10, <1>11, <1>12

\* The tokens of the row are again those that ModelServer accepts, where the row is still
\* that of the refresh.
LEMMA WriteAnswerStep ==
    ASSUME ModelServerInv, NEW r \in Replicas, WriteTokens(r)
    PROVE  GrantIsNew' /\ TokensKnown' /\ AnswerIsFresh' /\ ConnectionUsable'
<1>1. /\ UNCHANGED <<dance, connected, current, rotates, lostToken>>
      /\ flight[r].pc = "write"
      /\ flight'[r].pc = "idle" /\ \A q \in Replicas : q # r => flight'[q] = flight[q]
  BY DEF ModelServerInv, ModelServerTypeOK, WriteTokens, NoFlight, danceVars
<1>2. /\ flight[r].owner \in Given /\ flight[r].token = current[flight[r].owner]
      /\ \A q \in Replicas : q # r /\ flight[q].pc = "write" /\ rotates
                             /\ flight[r].owner = flight[q].owner =>
            flight[r].token < flight[q].token
  BY <1>1 DEF ModelServerInv, TokensKnown, AnswerIsFresh, Flying
<1>3. CASE connection = NoConnection
  <2>1. connection' = connection
    BY <1>3 DEF WriteTokens
  <2>2. GrantIsNew'
    BY <1>1, <2>1 DEF ModelServerInv, GrantIsNew, Given, Flying, Consented
  <2>3. TokensKnown'
    BY <1>1, <2>1, <1>3 DEF ModelServerInv, TokensKnown, Given, Flying, NoConnection
  <2>4. AnswerIsFresh'
    BY <1>1, <2>1, <1>3 DEF ModelServerInv, AnswerIsFresh, Flying, NoConnection
  <2> QED BY <1>3, <2>1, <2>2, <2>3, <2>4 DEF ConnectionUsable, NoConnection
<1>4. CASE connection # NoConnection
  <2>1. /\ connection'.owner = flight[r].owner /\ connection'.token = flight[r].token
        /\ connection'.project = connection.project
    BY <1>4 DEF ModelServerInv, ModelServerTypeOK, Connections, WriteTokens, UpdateTokens
  <2>2. overtaken' \/ (connection.owner = flight[r].owner /\ overtaken' = overtaken)
    BY <1>4 DEF ModelServerInv, ModelServerTypeOK, WriteTokens
  <2>3. GrantIsNew'
    BY <1>1, <2>1 DEF ModelServerInv, GrantIsNew, Given, Flying, Consented
  <2>4. TokensKnown'
    BY <1>1, <1>2, <2>1, Known DEF ModelServerInv, TokensKnown, Given, Flying
  <2>5. AnswerIsFresh'
    BY <1>1, <1>2, <2>1 DEF ModelServerInv, AnswerIsFresh, Flying
  <2>6. ConnectionUsable'
    BY <1>1, <1>2, <1>4, <2>1, <2>2 DEF ModelServerInv, ConnectionUsable
  <2> QED BY <2>3, <2>4, <2>5, <2>6
<1> QED BY <1>3, <1>4

\* Every step keeps the invariant.
LEMMA ModelServerStep ==
    ASSUME ModelServerInv, [ModelServerNext]_modelServerVars
    PROVE  ModelServerInv'
<1>1. ModelServerTypeOK'
  BY ModelServerTypeStep DEF ModelServerInv
<1>2. ASSUME NEW t \in Tabs, BeginConnection(t) \/ Callback(t) \/ CallbackFails(t)
                             \/ SupersedeBYOK(t)
      PROVE  GrantIsNew' /\ TokensKnown' /\ AnswerIsFresh' /\ ConnectionUsable'
  <2>1. UNCHANGED <<connection, connected, overtaken, lostToken, current, rotates, flight>>
    BY <1>2 DEF BeginConnection, Callback, CallbackFails, SupersedeBYOK, refreshVars
  <2>2. \A u \in Tabs : Consented(u)' => Consented(u) /\ dance'[u].grant = dance[u].grant
    <3>1. CASE BeginConnection(t)
      BY <3>1 DEF ModelServerInv, ModelServerTypeOK, Dances, Consented, BeginConnection,
                  DanceStep
    <3>2. CASE Callback(t)
      BY <3>2 DEF ModelServerInv, ModelServerTypeOK, Dances, Consented, Callback, DanceStep
    <3>3. CASE CallbackFails(t)
      BY <3>3 DEF ModelServerInv, ModelServerTypeOK, Dances, Consented, CallbackFails, NewDance
    <3>4. CASE SupersedeBYOK(t)
      BY <3>4 DEF ModelServerInv, ModelServerTypeOK, Dances, Consented, SupersedeBYOK,
                  DanceStep
    <3> QED BY <1>2, <3>1, <3>2, <3>3, <3>4
  <2> QED BY <2>1, <2>2, DanceOnly
<1>3. CASE ConfigureBYOK \/ UNCHANGED modelServerVars
  <2>1. UNCHANGED <<connection, connected, overtaken, lostToken, current, rotates, flight>>
    BY <1>3 DEF ConfigureBYOK, modelServerVars, refreshVars
  <2>2. \A u \in Tabs : Consented(u)' => Consented(u) /\ dance'[u].grant = dance[u].grant
    BY <1>3 DEF Consented, ConfigureBYOK, modelServerVars, danceVars
  <2> QED BY <1>1, <2>1, <2>2, DanceOnly DEF ModelServerInv
<1> QED
  BY <1>1, <1>2, <1>3, RowEnds, ExchangeStep, SaveStep, FlightOnly, AskStep, WriteAnswerStep
     DEF ModelServerNext, ModelServerInv

\* The invariant holds at the start.
LEMMA ModelServerInitial == ASSUME ModelServerInit PROVE ModelServerInv
<1>1. /\ NewDance \in Dances /\ NoConnection \in Connections /\ NoFlight \in Flights
      /\ 0 \in Numbers
  BY ModelServerAssumption
     DEF NewDance, NoConnection, NoFlight, Dances, Connections, Flights, Numbers
<1>2. ModelServerTypeOK
  BY <1>1 DEF ModelServerInit, ModelServerTypeOK
<1>3. GrantIsNew /\ TokensKnown /\ AnswerIsFresh /\ ConnectionUsable
  BY DEF ModelServerInit, GrantIsNew, TokensKnown, AnswerIsFresh, ConnectionUsable,
         Consented, Flying, NewDance, NoFlight
<1> QED BY <1>2, <1>3 DEF ModelServerInv

\* The tokens, the row and the refreshes are always of their types.
THEOREM ModelServerAlwaysTyped == ModelServerSpec => []ModelServerTypeOK
  BY ModelServerInitial, ModelServerStep, PTL DEF ModelServerSpec, ModelServerInv

\* A connection can be refreshed as long as no answer was lost and no refresh wrote into
\* the row of another one: the concurrent refreshes of the replicas do no harm.
THEOREM ConnectionAlwaysUsable == ModelServerSpec => []ConnectionUsable
  BY ModelServerInitial, ModelServerStep, PTL DEF ModelServerSpec, ModelServerInv

-----------------------------------------------------------------------------
(* Sandboxes in Docker *)

Busy(w) == work[w].pc # "idle"

\* A goroutine at work has a sandbox, and only its kind's steps.
Employed ==
    \A w \in Works :
        /\ Busy(w) => work[w].of \in Boxes
        /\ ~Busy(w) => work[w].of = NoBox
        /\ work[w].pc = "admitted" => work[w].kind # "start"
        /\ work[w].pc \in {"missing", "made"} => work[w].kind # "pause"

\* Two goroutines have one sandbox only where requests crossed, and neither creates it.
Alone ==
    \A v, w \in Works : v # w /\ Busy(w) /\ work[v].of = work[w].of =>
        work[w].of \in crossed /\ work[w].kind # "start"

\* Where no requests crossed, the row has the status of its goroutine, or is deleted.
RowOfWork ==
    \A w \in Works : Busy(w) =>
        /\ work[w].kind = "start" => boxRow[work[w].of] \in {"none", "creating"}
        /\ work[w].kind # "start" /\ work[w].of \notin crossed =>
              boxRow[work[w].of] \in
                 {"none", IF work[w].pc = "admitted" THEN From(work[w].kind)
                                                     ELSE Via(work[w].kind)}

\* What a goroutine has found of its container still holds where no requests crossed.
FoundHolds ==
    \A w \in Works : Busy(w) /\ work[w].of \notin astray \cup crossed =>
        /\ \/ work[w].kind = "pause" /\ work[w].pc \in {"admitted", "going"}
           \/ work[w].kind # "pause" /\ work[w].pc = "up"
           => container[work[w].of].state = "running"
        /\ ~(work[w].kind = "pause" /\ work[w].pc = "failed")

\* A container between its creation and its start is its goroutine's.
MadeIsHere ==
    \A w \in Works : work[w].pc = "made" =>
        work[w].of \in Present /\ container[work[w].of].by = w

\* A sandbox that was up once has a container, or had one that a start-up removed.
WasMade ==
    /\ \A s \in Boxes : boxRow[s] \notin {"none", "creating"} => s \in Present \cup cleaned
    /\ \A w \in Works : Busy(w) =>
          /\ work[w].kind # "start" \/ work[w].pc = "up" => work[w].of \in Present \cup cleaned
          /\ work[w].kind = "resume" /\ work[w].pc \in {"missing", "made"} =>
                work[w].of \in cleaned

\* A row never comes back, and goroutines end at a start-up.
Leaving ==
    /\ \A s \in Boxes : /\ boxRow[s] # "none" => vanished[s] = 0
                        /\ boxRow[s] = "none" /\ vanished[s] = 0 => s \notin Present
    /\ \A w \in Works : Busy(w) /\ boxRow[work[w].of] = "none" =>
          vanished[work[w].of] = starts + 1

DockerInv ==
    /\ DockerTypeOK /\ Employed /\ Alone /\ RowOfWork /\ FoundHolds /\ MadeIsHere
    /\ WasMade /\ Leaving /\ DockerSound

\* Types are kept.
LEMMA DockerTypeStep ==
    ASSUME DockerTypeOK, [DockerNext]_dockerVars, Employed
    PROVE  DockerTypeOK'
<1> DEFINE Statuses == [Boxes -> BoxStatus]
           Boxed == [Boxes -> Containers]
           Jobbed == [Works -> Jobs]
<1>0. /\ Idle \in Jobs /\ \A w \in Works \cup {AnyWork} : Gone(w) \in Containers
      /\ \A s \in Boxes : container[s].by \in Works \cup {AnyWork}
      /\ \A w \in Works : work[w].kind \in {"start", "pause", "resume"}
      /\ \A n \in 0..MaxStarts : n + 1 \in 0..(MaxStarts + 1)
      /\ 0 \in 0..MaxStarts /\ 0 \in 0..(MaxStarts + 1)
  BY DockerAssumption DEF DockerTypeOK, Idle, Gone, Jobs, Containers
<1>1. ASSUME NEW s \in Boxes, NEW status \in BoxStatus
      PROVE  /\ UpdateStatus(s, status) => boxRow' \in Statuses
             /\ DropRow(s) => boxRow' \in Statuses /\ vanished' \in [Boxes -> 0..(MaxStarts + 1)]
             /\ [boxRow EXCEPT ![s] = status] \in Statuses
  <2>1. UpdateStatus(s, status) => boxRow' \in Statuses
    BY DEF DockerTypeOK, UpdateStatus
  <2>2. DropRow(s) => boxRow' \in Statuses
    BY DEF DockerTypeOK, DropRow, BoxStatus
  <2>3. DropRow(s) => vanished' \in [Boxes -> 0..(MaxStarts + 1)]
    <3>1. starts + 1 \in 0..(MaxStarts + 1)
      BY <1>0 DEF DockerTypeOK
    <3> QED BY <3>1 DEF DockerTypeOK, DropRow
  <2>4. [boxRow EXCEPT ![s] = status] \in Statuses
    BY DEF DockerTypeOK
  <2> QED BY <2>1, <2>2, <2>3, <2>4
<1>2. ASSUME NEW w \in Works, NEW pc \in {"admitted", "going", "missing", "made", "up", "failed"}
      PROVE  [work EXCEPT ![w].pc = pc] \in Jobbed
  BY DEF DockerTypeOK, Jobs
<1>3. ASSUME NEW w \in Works, NEW s \in Boxes, NEW kind \in {"start", "pause", "resume"},
             NEW pc \in {"admitted", "going"}
      PROVE  [work EXCEPT ![w] = [pc |-> pc, kind |-> kind, of |-> s]] \in Jobbed
  <2>1. [pc |-> pc, kind |-> kind, of |-> s] \in Jobs
    BY DEF Jobs
  <2> QED BY <2>1 DEF DockerTypeOK
<1>4. ASSUME NEW s \in Boxes, NEW state \in {"none", "created", "running", "exited"}
      PROVE  [container EXCEPT ![s].state = state] \in Boxed
  BY DEF DockerTypeOK, Containers
<1>5. ASSUME NEW s \in Boxes, NEW c \in Containers
      PROVE  [container EXCEPT ![s] = c] \in Boxed
  BY DEF DockerTypeOK
<1>6. \A s \in Boxes : container[s].state \in {"none", "created", "running", "exited"}
  BY DEF DockerTypeOK, Containers
<1>11. ASSUME NEW w \in Works, NEW s \in Boxes, CreateSandbox(w, s) PROVE DockerTypeOK'
  <2>1. boxRow' \in Statuses
    BY <1>1, <1>11 DEF CreateSandbox, BoxStatus
  <2>2. work' \in Jobbed
    BY <1>3, <1>11 DEF CreateSandbox
  <2> QED BY <1>11, <2>1, <2>2 DEF DockerTypeOK, CreateSandbox, boxHistory
<1>12. ASSUME NEW w \in Works, NEW s \in Boxes, NEW kind \in {"pause", "resume"},
              Admit(w, s, kind)
       PROVE  DockerTypeOK'
  <2>1. work' \in Jobbed
    BY <1>3, <1>12 DEF Admit
  <2>2. crossed' \subseteq Boxes
    BY <1>12 DEF DockerTypeOK, Admit
  <2> QED BY <1>12, <2>1, <2>2 DEF DockerTypeOK, Admit
<1>13. ASSUME NEW w \in Works, Transition(w) PROVE DockerTypeOK'
  <2>1. work' \in Jobbed
    BY <1>2, <1>13 DEF Transition
  <2>2. PICK s \in Boxes : s = work[w].of
    BY <1>13 DEF Employed, Busy, Transition
  <2>3. Via(work[w].kind) \in BoxStatus
    BY DEF Via, BoxStatus
  <2>4. boxRow' \in Statuses
    BY <1>1, <1>13, <2>2, <2>3 DEF Transition
  <2> QED BY <1>13, <2>1, <2>4 DEF DockerTypeOK, Transition, boxHistory
<1>14. ASSUME NEW s \in Boxes, HandleDelete(s) PROVE DockerTypeOK'
  <2>1. container' \in Boxed
    <3>1. ASSUME StopByContainerName(SandboxName(s)) PROVE container' \in Boxed
      BY <1>0, <3>1 DEF DockerTypeOK, StopByContainerName
    <3> QED BY <1>14, <3>1 DEF DockerTypeOK, HandleDelete
  <2>2. boxRow' \in Statuses /\ vanished' \in [Boxes -> 0..(MaxStarts + 1)]
    <3>1. "none" \in BoxStatus /\ DropRow(s)
      BY <1>14 DEF BoxStatus, HandleDelete
    <3> QED BY <1>1, <3>1
  <2> QED BY <1>14, <2>1, <2>2 DEF DockerTypeOK, HandleDelete
<1>15. ASSUME NEW w \in Works, EnsureContainer(w) PROVE DockerTypeOK'
  <2>1. PICK s \in Boxes : s = work[w].of
    BY <1>15 DEF Employed, Busy, EnsureContainer
  <2>2. PICK pc \in {"missing", "up", "failed"} : work' = [work EXCEPT ![w].pc = pc]
    BY <1>15 DEF EnsureContainer, Step
  <2>3. /\ container' = container \/ container' = [container EXCEPT ![s].state = "running"]
        /\ astray' \subseteq astray
    BY <1>15, <2>1 DEF EnsureContainer, Runs
  <2>4. work' \in Jobbed
    <3>1. [work EXCEPT ![w].pc = pc] \in Jobbed
      BY <1>2
    <3> QED BY <2>2, <3>1
  <2>5. container' \in Boxed
    BY <1>4, <2>3 DEF DockerTypeOK
  <2> QED BY <1>15, <2>3, <2>4, <2>5 DEF DockerTypeOK, EnsureContainer
<1>16. ASSUME NEW w \in Works, ContainerCreate(w) PROVE DockerTypeOK'
  <2>1. PICK s \in Boxes : s = work[w].of
    BY <1>16 DEF Employed, Busy, ContainerCreate
  <2>2. PICK pc \in {"made", "failed"} : work' = [work EXCEPT ![w].pc = pc]
    BY <1>16 DEF ContainerCreate, Step
  <2>3. [state |-> "created", options |-> work[w].kind = "start", by |-> w] \in Containers
    BY DEF Containers
  <2>4. work' \in Jobbed
    <3>1. [work EXCEPT ![w].pc = pc] \in Jobbed
      BY <1>2
    <3> QED BY <2>2, <3>1
  <2>5. container' \in Boxed
    BY <1>5, <1>16, <2>1, <2>3 DEF DockerTypeOK, ContainerCreate
  <2> QED BY <1>16, <2>4, <2>5 DEF DockerTypeOK, ContainerCreate, boxHistory
<1>17. ASSUME NEW w \in Works, ContainerStart(w) PROVE DockerTypeOK'
  <2>1. PICK s \in Boxes : s = work[w].of
    BY <1>17 DEF Employed, Busy, ContainerStart
  <2>2. PICK pc \in {"up", "failed"} : work' = [work EXCEPT ![w].pc = pc]
    BY <1>17 DEF ContainerStart, Step
  <2>3. /\ \/ container' = container \/ container' = [container EXCEPT ![s].state = "running"]
           \/ container' = [container EXCEPT ![s] = Gone(w)]
           \/ container' = [container EXCEPT ![s] = @]
        /\ astray' \subseteq astray /\ stuck' \subseteq stuck \cup {s}
    BY <1>17, <2>1 DEF ContainerStart, Runs
  <2>4. work' \in Jobbed
    <3>1. [work EXCEPT ![w].pc = pc] \in Jobbed
      BY <1>2
    <3> QED BY <2>2, <3>1
  <2>5. container' \in Boxed
    <3>1. [container EXCEPT ![s].state = "running"] \in Boxed
      BY <1>4
    <3>2. Gone(w) \in Containers
      BY <1>0
    <3>3. [container EXCEPT ![s] = Gone(w)] \in Boxed
      BY <1>5, <3>2
    <3>4. container \in Boxed /\ [container EXCEPT ![s] = @] \in Boxed
      BY DEF DockerTypeOK
    <3> QED BY <2>3, <3>1, <3>3, <3>4
  <2> QED BY <1>17, <2>3, <2>4, <2>5 DEF DockerTypeOK, ContainerStart
<1>18. ASSUME NEW w \in Works, Pause(w) PROVE DockerTypeOK'
  <2>1. PICK s \in Boxes : s = work[w].of
    BY <1>18 DEF Employed, Busy, Pause
  <2>2. PICK pc \in {"up", "failed"} : work' = [work EXCEPT ![w].pc = pc]
    BY <1>18 DEF Pause, Step
  <2>3. \/ container' = container \/ container' = [container EXCEPT ![s].state = "exited"]
        \/ container' = [container EXCEPT ![s].state = container[s].state]
    BY <1>18, <2>1 DEF Pause
  <2>4. work' \in Jobbed
    <3>1. [work EXCEPT ![w].pc = pc] \in Jobbed
      BY <1>2
    <3> QED BY <2>2, <3>1
  <2>5. container' \in Boxed
    <3>1. [container EXCEPT ![s].state = "exited"] \in Boxed
      BY <1>4
    <3>2. [container EXCEPT ![s].state = container[s].state] \in Boxed
      BY <1>4, <1>6
    <3> QED BY <2>3, <3>1, <3>2 DEF DockerTypeOK
  <2> QED BY <1>18, <2>4, <2>5 DEF DockerTypeOK, Pause, boxHistory
<1>19. ASSUME NEW w \in Works, FinishWork(w) PROVE DockerTypeOK'
  <2>1. PICK s \in Boxes : s = work[w].of
    BY <1>19 DEF Employed, Busy, FinishWork
  <2>2. work' \in Jobbed
    BY <1>0, <1>19 DEF DockerTypeOK, FinishWork
  <2>3. "paused" \in BoxStatus /\ "running" \in BoxStatus
    BY DEF BoxStatus
  <2>4. \/ DropRow(s)
        \/ (UpdateStatus(s, "paused") \/ UpdateStatus(s, "running")) /\ UNCHANGED vanished
    BY <1>19, <2>1 DEF FinishWork
  <2>5. boxRow' \in Statuses /\ vanished' \in [Boxes -> 0..(MaxStarts + 1)]
    BY <1>1, <2>3, <2>4 DEF DockerTypeOK
  <2> QED BY <1>19, <2>2, <2>5 DEF DockerTypeOK, FinishWork
<1>20. ASSUME NEW s \in Boxes, Exits(s) PROVE DockerTypeOK'
  <2>1. container' \in Boxed
    BY <1>4, <1>20 DEF Exits
  <2> QED BY <1>20, <2>1 DEF DockerTypeOK, Exits
<1>21. CASE Restart
  <2>1. PICK kept \in SUBSET Boxes : CleanOrphans(kept)
    BY <1>21 DEF Restart
  <2>2. work' \in Jobbed
    BY <1>0, <1>21 DEF Restart
  <2>3. container' \in Boxed
    BY <1>0, <2>1 DEF DockerTypeOK, CleanOrphans
  <2>4. stuck' \cup astray' \cup cleaned' \cup crossed' \subseteq Boxes
    BY <1>21, <2>1 DEF DockerTypeOK, CleanOrphans, Present, Restart
  <2>5. starts' \in 0..MaxStarts
    BY <1>21, DockerAssumption DEF DockerTypeOK, Restart
  <2> QED BY <1>21, <2>2, <2>3, <2>4, <2>5 DEF DockerTypeOK, Restart
<1>22. CASE UNCHANGED dockerVars
  BY <1>22 DEF DockerTypeOK, dockerVars
<1> QED
  BY <1>11, <1>12, <1>13, <1>14, <1>15, <1>16, <1>17, <1>18, <1>19, <1>20, <1>21, <1>22
     DEF DockerNext

\* What the step of a new sandbox leaves.
LEMMA CreateSandboxStep ==
    ASSUME DockerInv, NEW w \in Works, NEW s \in Boxes, CreateSandbox(w, s)
    PROVE  DockerInv'
<1>1. /\ work'[w].pc = "going" /\ work'[w].kind = "start" /\ work'[w].of = s
      /\ \A v \in Works : v # w => work'[v] = work[v]
      /\ \A v \in Works : work[v].of # s
      /\ work[w].pc = "idle"
  BY DEF DockerInv, DockerTypeOK, CreateSandbox, Unused, Idle
<1>2. /\ boxRow[s] = "none" /\ vanished[s] = 0 /\ boxRow'[s] = "creating"
      /\ \A t \in Boxes : t # s => boxRow'[t] = boxRow[t]
      /\ UNCHANGED <<container, starts, vanished, stuck, astray, cleaned, crossed>>
  BY DEF DockerInv, DockerTypeOK, CreateSandbox, Unused, boxHistory
<1>3. DockerTypeOK'
  BY DockerTypeStep DEF DockerInv, DockerNext
<1>4. Employed'
  BY <1>1, <1>2 DEF DockerInv, DockerSound, Employed, Busy
<1>5. Alone'
  BY <1>1, <1>2 DEF DockerInv, DockerSound, Alone, Employed, Busy
<1>6. RowOfWork'
  BY <1>1, <1>2 DEF DockerInv, DockerSound, RowOfWork, Alone, Employed, Busy, From, Via
<1>7. FoundHolds'
  BY <1>1, <1>2 DEF DockerInv, DockerSound, FoundHolds, Alone, RunningRuns, Employed,
     Busy
<1>8. MadeIsHere'
  BY <1>1, <1>2 DEF DockerInv, DockerSound, MadeIsHere, Employed, Busy, Present
<1>9. WasMade'
  BY <1>1, <1>2 DEF DockerInv, DockerSound, WasMade, Alone, RowOfWork, Employed, Busy,
     Present
<1>10. Leaving'
  BY <1>1, <1>2 DEF DockerInv, DockerSound, Leaving, Employed, Busy, Present
<1>11. RunningRuns'
  BY <1>1, <1>2 DEF DockerInv, DockerSound, RunningRuns, FoundHolds, RowOfWork,
     Employed, Busy, From, Via
<1>12. OptionsSurvive'
  BY <1>1, <1>2 DEF DockerInv, DockerSound, OptionsSurvive, WasMade, Employed, Busy,
     Present
<1>13. LeftoversGo'
  BY <1>1, <1>2 DEF DockerInv, DockerSound, LeftoversGo, Leaving, Busy, Present
<1>14. NoneHalfMade'
  BY <1>1, <1>2 DEF DockerInv, DockerSound, NoneHalfMade, MadeIsHere, Present
<1> QED
  BY <1>3, <1>4, <1>5, <1>6, <1>7, <1>8, <1>9, <1>10, <1>11, <1>12, <1>13, <1>14 DEF
     DockerInv, DockerSound

\* What the check of a request leaves.
LEMMA AdmitStep ==
    ASSUME DockerInv, NEW w \in Works, NEW s \in Boxes,
           NEW kind \in {"pause", "resume"}, Admit(w, s, kind)
    PROVE  DockerInv'
<1>1. /\ work'[w].pc = "admitted" /\ work'[w].kind = kind /\ work'[w].of = s
      /\ \A v \in Works : v # w => work'[v] = work[v]
      /\ work[w].pc = "idle"
  BY DEF DockerInv, DockerTypeOK, Admit, Idle
<1>2. /\ boxRow[s] = From(kind)
      /\ crossed \subseteq crossed' /\ crossed' \subseteq crossed \cup {s}
      /\ \A v \in Works : work[v].of = s => s \in crossed'
      /\ UNCHANGED <<boxRow, container, starts, vanished, stuck, astray, cleaned>>
  BY DEF Admit
<1>3. /\ \A v \in Works : Busy(v) /\ work[v].of = s => work[v].kind # "start"
      /\ boxRow[s] \in {"running", "paused"} /\ (kind = "pause" => boxRow[s] = "running")
  BY <1>2 DEF DockerInv, RowOfWork, From
<1>4. DockerTypeOK'
  BY DockerTypeStep DEF DockerInv, DockerNext
<1>5. Employed'
  BY <1>1, <1>2, <1>3 DEF DockerInv, DockerSound, Employed, Busy
<1>6. Alone'
  BY <1>1, <1>2, <1>3 DEF DockerInv, DockerSound, Alone, Employed, Busy
<1>7. RowOfWork'
  BY <1>1, <1>2, <1>3 DEF DockerInv, DockerSound, RowOfWork, Alone, Employed, Busy,
     From, Via
<1>8. FoundHolds'
  BY <1>1, <1>2, <1>3 DEF DockerInv, DockerSound, FoundHolds, Alone, RunningRuns,
     Employed, Busy
<1>9. MadeIsHere'
  BY <1>1, <1>2, <1>3 DEF DockerInv, DockerSound, MadeIsHere, Employed, Busy, Present
<1>10. WasMade'
  BY <1>1, <1>2, <1>3 DEF DockerInv, DockerSound, WasMade, Alone, RowOfWork, Employed,
     Busy, Present
<1>11. Leaving'
  BY <1>1, <1>2, <1>3 DEF DockerInv, DockerSound, Leaving, Employed, Busy, Present
<1>12. RunningRuns'
  BY <1>1, <1>2, <1>3 DEF DockerInv, DockerSound, RunningRuns, FoundHolds, RowOfWork,
     Employed, Busy, From, Via
<1>13. OptionsSurvive'
  BY <1>1, <1>2, <1>3 DEF DockerInv, DockerSound, OptionsSurvive, WasMade, Employed,
     Busy, Present
<1>14. LeftoversGo'
  BY <1>1, <1>2, <1>3 DEF DockerInv, DockerSound, LeftoversGo, Leaving, Busy, Present
<1>15. NoneHalfMade'
  BY <1>1, <1>2, <1>3 DEF DockerInv, DockerSound, NoneHalfMade, MadeIsHere, Present
<1> QED
  BY <1>4, <1>5, <1>6, <1>7, <1>8, <1>9, <1>10, <1>11, <1>12, <1>13, <1>14, <1>15 DEF
     DockerInv, DockerSound

\* What the write of an admitted request leaves.
LEMMA TransitionStep ==
    ASSUME DockerInv, NEW w \in Works, Transition(w)
    PROVE  DockerInv'
<1>1. PICK s \in Boxes : s = work[w].of
  BY DEF DockerInv, Employed, Busy, Transition
<1>2. /\ work[w].pc = "admitted" /\ work[w].kind \in {"pause", "resume"}
      /\ work'[w].pc = "going"
      /\ work'[w].kind = work[w].kind /\ work'[w].of = work[w].of
      /\ \A v \in Works : v # w => work'[v] = work[v]
  BY DEF DockerInv, DockerTypeOK, Jobs, Employed, Transition
<1>3. /\ boxRow[s] = "none" => boxRow'[s] = "none"
      /\ boxRow[s] # "none" => boxRow'[s] = Via(work[w].kind)
      /\ \A t \in Boxes : t # s => boxRow'[t] = boxRow[t]
      /\ UNCHANGED <<container, starts, vanished, stuck, astray, cleaned, crossed>>
  BY <1>1 DEF DockerInv, DockerTypeOK, Transition, UpdateStatus, boxHistory
<1>4. boxRow'[s] \notin {"running", "creating"} /\ (boxRow'[s] = "none" => boxRow[s] = "none")
  BY <1>2, <1>3 DEF DockerInv, DockerTypeOK, BoxStatus, Via
<1>5. DockerTypeOK'
  BY DockerTypeStep DEF DockerInv, DockerNext
<1>6. Employed'
  BY <1>1, <1>2, <1>3, <1>4 DEF DockerInv, DockerSound, Employed, Busy
<1>7. Alone'
  BY <1>1, <1>2, <1>3, <1>4 DEF DockerInv, DockerSound, Alone, Employed, Busy
<1>8. RowOfWork'
  BY <1>1, <1>2, <1>3, <1>4 DEF DockerInv, DockerSound, RowOfWork, Alone, Employed,
     Busy, From, Via
<1>9. FoundHolds'
  BY <1>1, <1>2, <1>3, <1>4 DEF DockerInv, DockerSound, FoundHolds, Alone, RunningRuns,
     Employed, Busy
<1>10. MadeIsHere'
  BY <1>1, <1>2, <1>3, <1>4 DEF DockerInv, DockerSound, MadeIsHere, Employed, Busy,
     Present
<1>11. WasMade'
  BY <1>1, <1>2, <1>3, <1>4 DEF DockerInv, DockerSound, WasMade, Alone, RowOfWork,
     Employed, Busy, Present
<1>12. Leaving'
  BY <1>1, <1>2, <1>3, <1>4 DEF DockerInv, DockerSound, Leaving, Employed, Busy, Present
<1>13. RunningRuns'
  BY <1>1, <1>2, <1>3, <1>4 DEF DockerInv, DockerSound, RunningRuns, FoundHolds,
     RowOfWork, Employed, Busy, From, Via
<1>14. OptionsSurvive'
  BY <1>1, <1>2, <1>3, <1>4 DEF DockerInv, DockerSound, OptionsSurvive, WasMade,
     Employed, Busy, Present
<1>15. LeftoversGo'
  BY <1>1, <1>2, <1>3, <1>4 DEF DockerInv, DockerSound, LeftoversGo, Leaving, Busy,
     Present
<1>16. NoneHalfMade'
  BY <1>1, <1>2, <1>3, <1>4 DEF DockerInv, DockerSound, NoneHalfMade, MadeIsHere,
     Present
<1> QED
  BY <1>5, <1>6, <1>7, <1>8, <1>9, <1>10, <1>11, <1>12, <1>13, <1>14, <1>15, <1>16 DEF
     DockerInv, DockerSound

\* What a deletion leaves: the container.
LEMMA DeleteStep ==
    ASSUME DockerInv, NEW s \in Boxes, HandleDelete(s)
    PROVE  DockerInv'
<1>1. container' = container
  BY DEF DockerInv, DockerTypeOK, HandleDelete, StopByContainerName, ContainerName,
     SandboxName
<1>2. /\ boxRow[s] # "none" /\ vanished[s] = 0
      /\ boxRow'[s] = "none" /\ vanished'[s] = starts + 1
      /\ \A t \in Boxes : t # s => boxRow'[t] = boxRow[t] /\ vanished'[t] = vanished[t]
      /\ starts \in Nat
      /\ UNCHANGED <<work, starts, stuck, astray, cleaned, crossed>>
  BY DEF DockerInv, DockerTypeOK, Leaving, HandleDelete, DropRow
<1>3. DockerTypeOK'
  BY DockerTypeStep DEF DockerInv, DockerNext
<1>4. Employed'
  BY <1>1, <1>2 DEF DockerInv, DockerSound, Employed, Busy
<1>5. Alone'
  BY <1>1, <1>2 DEF DockerInv, DockerSound, Alone, Employed, Busy
<1>6. RowOfWork'
  BY <1>1, <1>2 DEF DockerInv, DockerSound, RowOfWork, Alone, Employed, Busy, From, Via
<1>7. FoundHolds'
  BY <1>1, <1>2 DEF DockerInv, DockerSound, FoundHolds, Alone, RunningRuns, Employed,
     Busy
<1>8. MadeIsHere'
  BY <1>1, <1>2 DEF DockerInv, DockerSound, MadeIsHere, Employed, Busy, Present
<1>9. WasMade'
  BY <1>1, <1>2 DEF DockerInv, DockerSound, WasMade, Alone, RowOfWork, Employed, Busy,
     Present
<1>10. Leaving'
  BY <1>1, <1>2 DEF DockerInv, DockerSound, Leaving, Employed, Busy, Present
<1>11. RunningRuns'
  BY <1>1, <1>2 DEF DockerInv, DockerSound, RunningRuns, FoundHolds, RowOfWork,
     Employed, Busy, From, Via
<1>12. OptionsSurvive'
  BY <1>1, <1>2 DEF DockerInv, DockerSound, OptionsSurvive, WasMade, Employed, Busy,
     Present
<1>13. LeftoversGo'
  BY <1>1, <1>2 DEF DockerInv, DockerSound, LeftoversGo, Leaving, Busy, Present
<1>14. NoneHalfMade'
  BY <1>1, <1>2 DEF DockerInv, DockerSound, NoneHalfMade, MadeIsHere, Present
<1> QED
  BY <1>3, <1>4, <1>5, <1>6, <1>7, <1>8, <1>9, <1>10, <1>11, <1>12, <1>13, <1>14 DEF
     DockerInv, DockerSound

\* What the look for the container leaves.
LEMMA EnsureStep ==
    ASSUME DockerInv, NEW w \in Works, EnsureContainer(w)
    PROVE  DockerInv'
<1>1. PICK s \in Boxes : s = work[w].of
  BY DEF DockerInv, Employed, Busy, EnsureContainer
<1>2. PICK pc \in {"missing", "up", "failed"} :
         /\ work' = [work EXCEPT ![w].pc = pc]
         /\ \/ pc = "missing" /\ s \notin Present /\ UNCHANGED <<container, astray>>
            \/ pc = "failed" /\ UNCHANGED <<container, astray>>
            \/ /\ pc = "up" /\ s \in Present /\ container[s].state = "running"
               /\ UNCHANGED <<container, astray>>
            \/ pc = "up" /\ s \in Present /\ Runs(s)
  BY <1>1 DEF EnsureContainer, Step
<1>3. /\ work[w].pc = "going" /\ work[w].kind \in {"start", "resume"}
      /\ work'[w].pc = pc
      /\ work'[w].kind = work[w].kind /\ work'[w].of = work[w].of
      /\ \A v \in Works : v # w => work'[v] = work[v]
  BY <1>2 DEF DockerInv, DockerTypeOK, Jobs, EnsureContainer
<1>4. UNCHANGED <<boxRow, starts, vanished, stuck, cleaned, crossed>>
  BY DEF EnsureContainer
<1>5. /\ \A t \in Boxes : t # s => container'[t] = container[t]
      /\ container'[s].state = "none" <=> container[s].state = "none"
      /\ container'[s].state # container[s].state => container'[s].state = "running"
      /\ container'[s].by = container[s].by
  BY <1>2 DEF DockerInv, DockerTypeOK, Containers, Present, Runs
<1>6. container[s].options => container'[s].options
  BY <1>2 DEF DockerInv, DockerTypeOK, Containers, Runs
<1>7. /\ pc = "up" => container'[s].state = "running"
      /\ \A t \in Boxes : t # s => (t \in astray' <=> t \in astray)
      /\ s \notin astray' /\ s \in astray => container'[s].state = "running" /\ pc = "up"
      /\ s \in astray' => s \in astray
      /\ pc = "missing" => s \notin Present
  BY <1>2 DEF DockerInv, DockerTypeOK, Containers, Runs
<1>8. DockerTypeOK'
  BY DockerTypeStep DEF DockerInv, DockerNext
<1>9. Employed'
  BY <1>1, <1>2, <1>3, <1>4, <1>5, <1>6, <1>7 DEF DockerInv, DockerSound, Employed, Busy
<1>10. Alone'
  BY <1>1, <1>2, <1>3, <1>4, <1>5, <1>6, <1>7 DEF DockerInv, DockerSound, Alone,
     Employed, Busy
<1>11. RowOfWork'
  BY <1>1, <1>2, <1>3, <1>4, <1>5, <1>6, <1>7 DEF DockerInv, DockerSound, RowOfWork,
     Alone, Employed, Busy, From, Via
<1>12. FoundHolds'
  BY <1>1, <1>2, <1>3, <1>4, <1>5, <1>6, <1>7 DEF DockerInv, DockerSound, FoundHolds,
     Alone, RunningRuns, Employed, Busy
<1>13. MadeIsHere'
  BY <1>1, <1>2, <1>3, <1>4, <1>5, <1>6, <1>7 DEF DockerInv, DockerSound, MadeIsHere,
     Employed, Busy, Present
<1>14. WasMade'
  BY <1>1, <1>2, <1>3, <1>4, <1>5, <1>6, <1>7 DEF DockerInv, DockerSound, WasMade,
     Alone, RowOfWork, Employed, Busy, Present
<1>15. Leaving'
  BY <1>1, <1>2, <1>3, <1>4, <1>5, <1>6, <1>7 DEF DockerInv, DockerSound, Leaving,
     Employed, Busy, Present
<1>16. RunningRuns'
  BY <1>1, <1>2, <1>3, <1>4, <1>5, <1>6, <1>7 DEF DockerInv, DockerSound, RunningRuns,
     FoundHolds, RowOfWork, Employed, Busy, From, Via
<1>17. OptionsSurvive'
  BY <1>1, <1>2, <1>3, <1>4, <1>5, <1>6, <1>7 DEF DockerInv, DockerSound,
     OptionsSurvive, WasMade, Employed, Busy, Present
<1>18. LeftoversGo'
  BY <1>1, <1>2, <1>3, <1>4, <1>5, <1>6, <1>7 DEF DockerInv, DockerSound, LeftoversGo,
     Leaving, Busy, Present
<1>19. NoneHalfMade'
  BY <1>1, <1>2, <1>3, <1>4, <1>5, <1>6, <1>7 DEF DockerInv, DockerSound, NoneHalfMade,
     MadeIsHere, Present
<1> QED
  BY <1>8, <1>9, <1>10, <1>11, <1>12, <1>13, <1>14, <1>15, <1>16, <1>17, <1>18, <1>19
     DEF DockerInv, DockerSound

\* What the creation of the container leaves.
LEMMA CreateContainerStep ==
    ASSUME DockerInv, NEW w \in Works, ContainerCreate(w)
    PROVE  DockerInv'
<1>1. PICK s \in Boxes : s = work[w].of
  BY DEF DockerInv, Employed, Busy, ContainerCreate
<1>2. PICK pc \in {"made", "failed"} :
         /\ work' = [work EXCEPT ![w].pc = pc]
         /\ \/ /\ pc = "made" /\ s \notin Present
               /\ container' = [container EXCEPT ![s] =
                     [state |-> "created", options |-> work[w].kind = "start", by |-> w]]
            \/ pc = "failed" /\ UNCHANGED container
  BY <1>1 DEF ContainerCreate, Step
<1>3. /\ work[w].pc = "missing" /\ work[w].kind \in {"start", "resume"}
      /\ work'[w].pc = pc
      /\ work'[w].kind = work[w].kind /\ work'[w].of = work[w].of
      /\ \A v \in Works : v # w => work'[v] = work[v]
  BY <1>2 DEF DockerInv, DockerTypeOK, Jobs, Employed, ContainerCreate
<1>4. UNCHANGED <<boxRow, starts, vanished, stuck, astray, cleaned, crossed>> /\ starts \in Nat
  BY DEF DockerInv, DockerTypeOK, ContainerCreate, boxHistory
<1>5. /\ \A t \in Boxes : t # s => container'[t] = container[t]
      /\ pc = "made" => /\ container[s].state = "none" /\ container'[s].state = "created"
                        /\ container'[s].by = w
      /\ pc = "failed" => container' = container
  BY <1>2 DEF DockerInv, DockerTypeOK, Present
<1>6. pc = "made" /\ work[w].kind = "start" => container'[s].options
  <2> SUFFICES ASSUME pc = "made", work[w].kind = "start"
               PROVE  container'[s].options
    OBVIOUS
  <2>1. (work[w].kind = "start") = TRUE
    OBVIOUS
  <2>2. container'[s] = [state |-> "created", options |-> TRUE, by |-> w]
    BY <1>2, <2>1, Zenon DEF DockerInv, DockerTypeOK
  <2> QED BY <2>2
<1>7. DockerTypeOK'
  BY DockerTypeStep DEF DockerInv, DockerNext
<1>8. Employed'
  BY <1>1, <1>2, <1>3, <1>4, <1>5, <1>6 DEF DockerInv, DockerSound, Employed, Busy
<1>9. Alone'
  BY <1>1, <1>2, <1>3, <1>4, <1>5, <1>6 DEF DockerInv, DockerSound, Alone, Employed,
     Busy
<1>10. RowOfWork'
  BY <1>1, <1>2, <1>3, <1>4, <1>5, <1>6 DEF DockerInv, DockerSound, RowOfWork, Alone,
     Employed, Busy, From, Via
<1>11. FoundHolds'
  BY <1>1, <1>2, <1>3, <1>4, <1>5, <1>6 DEF DockerInv, DockerSound, FoundHolds, Alone,
     RunningRuns, Employed, Busy
<1>12. MadeIsHere'
  BY <1>1, <1>2, <1>3, <1>4, <1>5, <1>6 DEF DockerInv, DockerSound, MadeIsHere,
     Employed, Busy, Present
<1>13. WasMade'
  BY <1>1, <1>2, <1>3, <1>4, <1>5, <1>6 DEF DockerInv, DockerSound, WasMade, Alone,
     RowOfWork, Employed, Busy, Present
<1>14. Leaving'
  BY <1>1, <1>2, <1>3, <1>4, <1>5, <1>6 DEF DockerInv, DockerSound, Leaving, Employed,
     Busy, Present
<1>15. RunningRuns'
  BY <1>1, <1>2, <1>3, <1>4, <1>5, <1>6 DEF DockerInv, DockerSound, RunningRuns,
     FoundHolds, RowOfWork, Employed, Busy, From, Via
<1>16. OptionsSurvive'
  BY <1>1, <1>2, <1>3, <1>4, <1>5, <1>6 DEF DockerInv, DockerSound, OptionsSurvive,
     WasMade, Employed, Busy, Present
<1>17. LeftoversGo'
  BY <1>1, <1>2, <1>3, <1>4, <1>5, <1>6 DEF DockerInv, DockerSound, LeftoversGo,
     Leaving, Busy, Present
<1>18. NoneHalfMade'
  BY <1>1, <1>2, <1>3, <1>4, <1>5, <1>6 DEF DockerInv, DockerSound, NoneHalfMade,
     MadeIsHere, Present
<1> QED
  BY <1>7, <1>8, <1>9, <1>10, <1>11, <1>12, <1>13, <1>14, <1>15, <1>16, <1>17, <1>18 DEF
     DockerInv, DockerSound

\* What the start of the container leaves.
LEMMA StartStep ==
    ASSUME DockerInv, NEW w \in Works, ContainerStart(w)
    PROVE  DockerInv'
<1>1. PICK s \in Boxes : s = work[w].of
  BY DEF DockerInv, Employed, Busy, ContainerStart
<1>2. s \in Present /\ container[s].by = w /\ work[w].pc = "made"
  BY <1>1 DEF DockerInv, MadeIsHere, ContainerStart
<1>3. PICK pc \in {"up", "failed"} :
         /\ work' = [work EXCEPT ![w].pc = pc]
         /\ \/ pc = "up" /\ Runs(s) /\ UNCHANGED stuck
            \/ /\ pc = "failed" /\ container' = [container EXCEPT ![s] = Gone(w)]
               /\ UNCHANGED <<stuck, astray>>
            \/ pc = "failed" /\ stuck' = stuck \cup {s} /\ UNCHANGED <<container, astray>>
  BY <1>1, <1>2 DEF ContainerStart, Step
<1>4. /\ work[w].kind \in {"start", "resume"}
      /\ work'[w].pc = pc
      /\ work'[w].kind = work[w].kind /\ work'[w].of = work[w].of
      /\ \A v \in Works : v # w => work'[v] = work[v]
  BY <1>2, <1>3 DEF DockerInv, DockerTypeOK, Jobs, Employed
<1>5. UNCHANGED <<boxRow, starts, vanished, cleaned, crossed>>
  BY DEF ContainerStart
<1>6. /\ \A t \in Boxes : t # s => container'[t] = container[t]
      /\ \/ /\ container'[s].state = "running" /\ pc = "up" /\ s \notin astray'
            /\ stuck' = stuck
         \/ container'[s].state = "none" /\ pc = "failed" /\ astray' = astray /\ stuck' = stuck
         \/ /\ container' = container /\ pc = "failed" /\ astray' = astray
            /\ stuck' = stuck \cup {s}
      /\ \A t \in Boxes : t # s => (t \in astray' <=> t \in astray)
      /\ container'[s].by = w
  BY <1>2, <1>3 DEF DockerInv, DockerTypeOK, Containers, Runs, Gone
<1>7. container'[s].state = "none" \/ (container[s].options => container'[s].options)
  BY <1>3 DEF DockerInv, DockerTypeOK, Containers, Runs, Gone
<1>8. DockerTypeOK'
  BY DockerTypeStep DEF DockerInv, DockerNext
<1>9. Employed'
  BY <1>1, <1>2, <1>3, <1>4, <1>5, <1>6, <1>7 DEF DockerInv, DockerSound, Employed, Busy
<1>10. Alone'
  BY <1>1, <1>2, <1>3, <1>4, <1>5, <1>6, <1>7 DEF DockerInv, DockerSound, Alone,
     Employed, Busy
<1>11. RowOfWork'
  BY <1>1, <1>2, <1>3, <1>4, <1>5, <1>6, <1>7 DEF DockerInv, DockerSound, RowOfWork,
     Alone, Employed, Busy, From, Via
<1>12. FoundHolds'
  BY <1>1, <1>2, <1>3, <1>4, <1>5, <1>6, <1>7 DEF DockerInv, DockerSound, FoundHolds,
     Alone, RunningRuns, Employed, Busy
<1>13. MadeIsHere'
  BY <1>1, <1>2, <1>3, <1>4, <1>5, <1>6, <1>7 DEF DockerInv, DockerSound, MadeIsHere,
     Employed, Busy, Present
<1>14. WasMade'
  BY <1>1, <1>2, <1>3, <1>4, <1>5, <1>6, <1>7 DEF DockerInv, DockerSound, WasMade,
     Alone, RowOfWork, Employed, Busy, Present
<1>15. Leaving'
  BY <1>1, <1>2, <1>3, <1>4, <1>5, <1>6, <1>7 DEF DockerInv, DockerSound, Leaving,
     Employed, Busy, Present
<1>16. RunningRuns'
  BY <1>1, <1>2, <1>3, <1>4, <1>5, <1>6, <1>7 DEF DockerInv, DockerSound, RunningRuns,
     FoundHolds, RowOfWork, Employed, Busy, From, Via
<1>17. OptionsSurvive'
  BY <1>1, <1>2, <1>3, <1>4, <1>5, <1>6, <1>7 DEF DockerInv, DockerSound,
     OptionsSurvive, WasMade, Employed, Busy, Present
<1>18. LeftoversGo'
  BY <1>1, <1>2, <1>3, <1>4, <1>5, <1>6, <1>7 DEF DockerInv, DockerSound, LeftoversGo,
     Leaving, Busy, Present
<1>19. NoneHalfMade'
  BY <1>1, <1>2, <1>3, <1>4, <1>5, <1>6, <1>7 DEF DockerInv, DockerSound, NoneHalfMade,
     MadeIsHere, Present
<1> QED
  BY <1>8, <1>9, <1>10, <1>11, <1>12, <1>13, <1>14, <1>15, <1>16, <1>17, <1>18, <1>19
     DEF DockerInv, DockerSound

\* What the stop of the container leaves.
LEMMA PauseStep ==
    ASSUME DockerInv, NEW w \in Works, Pause(w)
    PROVE  DockerInv'
<1>1. PICK s \in Boxes : s = work[w].of
  BY DEF DockerInv, Employed, Busy, Pause
<1>2. PICK pc \in {"up", "failed"}, state \in {"exited", container[s].state} :
         /\ work' = [work EXCEPT ![w].pc = pc]
         /\ \/ /\ pc = "up" /\ s \in Present
               /\ container' = [container EXCEPT ![s].state = state]
            \/ pc = "failed" /\ s \notin Present /\ UNCHANGED container
  BY <1>1 DEF Pause, Step
<1>3. /\ work[w].pc = "going" /\ work[w].kind = "pause"
      /\ work'[w].pc = pc
      /\ work'[w].kind = work[w].kind /\ work'[w].of = work[w].of
      /\ \A v \in Works : v # w => work'[v] = work[v]
  BY <1>2 DEF DockerInv, DockerTypeOK, Jobs, Pause
<1>4. UNCHANGED <<boxRow, starts, vanished, stuck, astray, cleaned, crossed>>
  BY DEF Pause, boxHistory
<1>5. /\ \A t \in Boxes : t # s => container'[t] = container[t]
      /\ container'[s].state = "none" <=> container[s].state = "none"
      /\ container'[s].state # container[s].state => container'[s].state = "exited"
      /\ container'[s].by = container[s].by
      /\ pc = "failed" => container[s].state = "none"
  BY <1>2 DEF DockerInv, DockerTypeOK, Containers, Present
<1>6. container[s].options => container'[s].options
  BY <1>2 DEF DockerInv, DockerTypeOK, Containers
<1>7. DockerTypeOK'
  BY DockerTypeStep DEF DockerInv, DockerNext
<1>8. Employed'
  BY <1>1, <1>2, <1>3, <1>4, <1>5, <1>6 DEF DockerInv, DockerSound, Employed, Busy
<1>9. Alone'
  BY <1>1, <1>2, <1>3, <1>4, <1>5, <1>6 DEF DockerInv, DockerSound, Alone, Employed,
     Busy
<1>10. RowOfWork'
  BY <1>1, <1>2, <1>3, <1>4, <1>5, <1>6 DEF DockerInv, DockerSound, RowOfWork, Alone,
     Employed, Busy, From, Via
<1>11. FoundHolds'
  BY <1>1, <1>2, <1>3, <1>4, <1>5, <1>6 DEF DockerInv, DockerSound, FoundHolds, Alone,
     RunningRuns, Employed, Busy
<1>12. MadeIsHere'
  BY <1>1, <1>2, <1>3, <1>4, <1>5, <1>6 DEF DockerInv, DockerSound, MadeIsHere,
     Employed, Busy, Present
<1>13. WasMade'
  BY <1>1, <1>2, <1>3, <1>4, <1>5, <1>6 DEF DockerInv, DockerSound, WasMade, Alone,
     RowOfWork, Employed, Busy, Present
<1>14. Leaving'
  BY <1>1, <1>2, <1>3, <1>4, <1>5, <1>6 DEF DockerInv, DockerSound, Leaving, Employed,
     Busy, Present
<1>15. RunningRuns'
  BY <1>1, <1>2, <1>3, <1>4, <1>5, <1>6 DEF DockerInv, DockerSound, RunningRuns,
     FoundHolds, RowOfWork, Employed, Busy, From, Via
<1>16. OptionsSurvive'
  BY <1>1, <1>2, <1>3, <1>4, <1>5, <1>6 DEF DockerInv, DockerSound, OptionsSurvive,
     WasMade, Employed, Busy, Present
<1>17. LeftoversGo'
  BY <1>1, <1>2, <1>3, <1>4, <1>5, <1>6 DEF DockerInv, DockerSound, LeftoversGo,
     Leaving, Busy, Present
<1>18. NoneHalfMade'
  BY <1>1, <1>2, <1>3, <1>4, <1>5, <1>6 DEF DockerInv, DockerSound, NoneHalfMade,
     MadeIsHere, Present
<1> QED
  BY <1>7, <1>8, <1>9, <1>10, <1>11, <1>12, <1>13, <1>14, <1>15, <1>16, <1>17, <1>18 DEF
     DockerInv, DockerSound

\* What the end of a goroutine leaves.
LEMMA FinishStep ==
    ASSUME DockerInv, NEW w \in Works, FinishWork(w)
    PROVE  DockerInv'
<1>1. PICK s \in Boxes : s = work[w].of
  BY DEF DockerInv, Employed, Busy, FinishWork
<1>2. /\ work[w].pc \in {"up", "failed"}
      /\ work'[w].pc = "idle" /\ work'[w].of = NoBox /\ work'[w].kind = "start"
      /\ \A v \in Works : v # w => work'[v] = work[v]
  BY DEF DockerInv, DockerTypeOK, Idle, FinishWork
<1>3. UNCHANGED <<container, starts, stuck, astray, cleaned, crossed>> /\ starts \in Nat
  BY DEF DockerInv, DockerTypeOK, FinishWork
<1>4. /\ \A t \in Boxes : t # s => boxRow'[t] = boxRow[t] /\ vanished'[t] = vanished[t]
      /\ boxRow[s] = "none" => boxRow'[s] = "none" /\ vanished'[s] = vanished[s]
      /\ boxRow[s] # "none" =>
            \/ /\ work[w].kind = "start" /\ work[w].pc = "failed"
               /\ boxRow'[s] = "none" /\ vanished'[s] = starts + 1
            \/ /\ vanished'[s] = vanished[s]
               /\ \/ work[w].kind # "pause" /\ work[w].pc = "up" /\ boxRow'[s] = "running"
                  \/ work[w].kind = "pause" /\ work[w].pc = "failed" /\ boxRow'[s] = "running"
                  \/ work[w].kind # "start" /\ boxRow'[s] = "paused"
  BY <1>1, <1>2 DEF DockerInv, DockerTypeOK, Leaving, Busy, FinishWork, DropRow,
     UpdateStatus
<1>5. DockerTypeOK'
  BY DockerTypeStep DEF DockerInv, DockerNext
<1>6. Employed'
  BY <1>1, <1>2, <1>3, <1>4 DEF DockerInv, DockerSound, Employed, Busy
<1>7. Alone'
  BY <1>1, <1>2, <1>3, <1>4, DockerAssumption DEF DockerInv, Alone, Employed, Busy
<1>8. RowOfWork'
  BY <1>1, <1>2, <1>3, <1>4 DEF DockerInv, DockerSound, RowOfWork, Alone, Employed,
     Busy, From, Via
<1>9. FoundHolds'
  BY <1>1, <1>2, <1>3, <1>4 DEF DockerInv, DockerSound, FoundHolds, Alone, RunningRuns,
     Employed, Busy
<1>10. MadeIsHere'
  BY <1>1, <1>2, <1>3, <1>4 DEF DockerInv, DockerSound, MadeIsHere, Employed, Busy,
     Present
<1>11. WasMade'
  BY <1>1, <1>2, <1>3, <1>4 DEF DockerInv, DockerSound, WasMade, Alone, RowOfWork,
     Employed, Busy, Present
<1>12. Leaving'
  BY <1>1, <1>2, <1>3, <1>4 DEF DockerInv, DockerSound, Leaving, Employed, Busy, Present
<1>13. RunningRuns'
  BY <1>1, <1>2, <1>3, <1>4 DEF DockerInv, DockerSound, RunningRuns, FoundHolds,
     RowOfWork, Employed, Busy, From, Via
<1>14. OptionsSurvive'
  BY <1>1, <1>2, <1>3, <1>4 DEF DockerInv, DockerSound, OptionsSurvive, WasMade,
     Employed, Busy, Present
<1>15. LeftoversGo'
  BY <1>1, <1>2, <1>3, <1>4 DEF DockerInv, DockerSound, LeftoversGo, Leaving, Busy,
     Present
<1>16. NoneHalfMade'
  BY <1>1, <1>2, <1>3, <1>4 DEF DockerInv, DockerSound, NoneHalfMade, MadeIsHere,
     Present
<1> QED
  BY <1>5, <1>6, <1>7, <1>8, <1>9, <1>10, <1>11, <1>12, <1>13, <1>14, <1>15, <1>16 DEF
     DockerInv, DockerSound

\* What the end of a container leaves.
LEMMA ExitStep ==
    ASSUME DockerInv, NEW s \in Boxes, Exits(s)
    PROVE  DockerInv'
<1>1. /\ \A t \in Boxes : t # s => container'[t] = container[t]
      /\ container[s].state = "running" /\ container'[s].state = "exited"
      /\ container'[s].by = container[s].by
  BY DEF DockerInv, DockerTypeOK, Containers, Exits
<1>2. container[s].options => container'[s].options
  BY DEF DockerInv, DockerTypeOK, Containers, Exits
<1>3. /\ astray' = astray \cup {s}
      /\ UNCHANGED <<boxRow, work, starts, vanished, stuck, cleaned, crossed>>
  BY DEF Exits
<1>4. DockerTypeOK'
  BY DockerTypeStep DEF DockerInv, DockerNext
<1>5. Employed'
  BY <1>1, <1>2, <1>3 DEF DockerInv, DockerSound, Employed, Busy
<1>6. Alone'
  BY <1>1, <1>2, <1>3 DEF DockerInv, DockerSound, Alone, Employed, Busy
<1>7. RowOfWork'
  BY <1>1, <1>2, <1>3 DEF DockerInv, DockerSound, RowOfWork, Alone, Employed, Busy,
     From, Via
<1>8. FoundHolds'
  BY <1>1, <1>2, <1>3 DEF DockerInv, DockerSound, FoundHolds, Alone, RunningRuns,
     Employed, Busy
<1>9. MadeIsHere'
  BY <1>1, <1>2, <1>3 DEF DockerInv, DockerSound, MadeIsHere, Employed, Busy, Present
<1>10. WasMade'
  BY <1>1, <1>2, <1>3 DEF DockerInv, DockerSound, WasMade, Alone, RowOfWork, Employed,
     Busy, Present
<1>11. Leaving'
  BY <1>1, <1>2, <1>3 DEF DockerInv, DockerSound, Leaving, Employed, Busy, Present
<1>12. RunningRuns'
  BY <1>1, <1>2, <1>3 DEF DockerInv, DockerSound, RunningRuns, FoundHolds, RowOfWork,
     Employed, Busy, From, Via
<1>13. OptionsSurvive'
  BY <1>1, <1>2, <1>3 DEF DockerInv, DockerSound, OptionsSurvive, WasMade, Employed,
     Busy, Present
<1>14. LeftoversGo'
  BY <1>1, <1>2, <1>3 DEF DockerInv, DockerSound, LeftoversGo, Leaving, Busy, Present
<1>15. NoneHalfMade'
  BY <1>1, <1>2, <1>3 DEF DockerInv, DockerSound, NoneHalfMade, MadeIsHere, Present
<1> QED
  BY <1>4, <1>5, <1>6, <1>7, <1>8, <1>9, <1>10, <1>11, <1>12, <1>13, <1>14, <1>15 DEF
     DockerInv, DockerSound

\* What a start-up leaves: the containers that Docker did not remove.
LEMMA RestartStep ==
    ASSUME DockerInv, Restart
    PROVE  DockerInv'
<1>1. PICK kept \in SUBSET Boxes : CleanOrphans(kept)
  BY DEF Restart
<1>2. \A s \in Boxes : ContainerName(s) \notin KnownNames
  BY DEF ContainerName, SandboxName, KnownNames
<1>3. /\ kept \subseteq Present /\ stuck' = stuck \cup kept
      /\ cleaned' = cleaned \cup (Present \ kept)
      /\ \A s \in Boxes : IF s \in Present \ kept THEN container'[s].state = "none"
                          ELSE container'[s] = container[s]
  BY <1>1, <1>2 DEF DockerInv, DockerTypeOK, CleanOrphans, Gone, Present
<1>4. \A s \in Boxes : container'[s].state # "none" => s \in kept /\ container'[s] = container[s]
  BY <1>3 DEF Present
<1>5. /\ \A w \in Works : /\ work'[w].pc = "idle" /\ work'[w].of = NoBox
                          /\ work'[w].kind = "start"
      /\ astray' = astray \cup Present
      /\ UNCHANGED <<boxRow, vanished, crossed>>
  BY DEF Restart, Idle
<1>6. DockerTypeOK'
  BY DockerTypeStep DEF DockerInv, DockerNext
<1>7. Employed'
  BY <1>1, <1>2, <1>3, <1>4, <1>5 DEF DockerInv, DockerSound, Employed, Busy
<1>8. Alone'
  BY <1>1, <1>2, <1>3, <1>4, <1>5 DEF DockerInv, DockerSound, Alone, Employed, Busy
<1>9. RowOfWork'
  BY <1>1, <1>2, <1>3, <1>4, <1>5 DEF DockerInv, DockerSound, RowOfWork, Alone,
     Employed, Busy, From, Via
<1>10. FoundHolds'
  BY <1>1, <1>2, <1>3, <1>4, <1>5 DEF DockerInv, DockerSound, FoundHolds, Alone,
     RunningRuns, Employed, Busy
<1>11. MadeIsHere'
  BY <1>1, <1>2, <1>3, <1>4, <1>5 DEF DockerInv, DockerSound, MadeIsHere, Employed,
     Busy, Present
<1>12. WasMade'
  BY <1>1, <1>2, <1>3, <1>4, <1>5 DEF DockerInv, DockerSound, WasMade, Alone, RowOfWork,
     Employed, Busy, Present
<1>13. Leaving'
  BY <1>1, <1>2, <1>3, <1>4, <1>5 DEF DockerInv, DockerSound, Leaving, Employed, Busy,
     Present
<1>14. RunningRuns'
  BY <1>1, <1>2, <1>3, <1>4, <1>5 DEF DockerInv, DockerSound, RunningRuns, FoundHolds,
     RowOfWork, Employed, Busy, From, Via
<1>15. OptionsSurvive'
  BY <1>1, <1>2, <1>3, <1>4, <1>5 DEF DockerInv, DockerSound, OptionsSurvive, WasMade,
     Employed, Busy, Present
<1>16. LeftoversGo'
  BY <1>1, <1>2, <1>3, <1>4, <1>5 DEF DockerInv, DockerSound, LeftoversGo, Leaving,
     Busy, Present
<1>17. NoneHalfMade'
  BY <1>1, <1>2, <1>3, <1>4, <1>5 DEF DockerInv, DockerSound, NoneHalfMade, MadeIsHere,
     Present
<1> QED
  BY <1>6, <1>7, <1>8, <1>9, <1>10, <1>11, <1>12, <1>13, <1>14, <1>15, <1>16, <1>17 DEF
     DockerInv, DockerSound

\* Every step keeps the invariant.
LEMMA DockerStep == ASSUME DockerInv, [DockerNext]_dockerVars PROVE DockerInv'
<1>1. CASE UNCHANGED dockerVars
  BY <1>1 DEF dockerVars, DockerInv, DockerTypeOK, Employed, Alone, RowOfWork, FoundHolds,
     MadeIsHere, WasMade, Leaving, DockerSound, RunningRuns, OptionsSurvive, LeftoversGo,
     NoneHalfMade, Busy, Present
<1> QED
  BY <1>1, CreateSandboxStep, AdmitStep, TransitionStep, DeleteStep, EnsureStep,
     CreateContainerStep, StartStep, PauseStep, FinishStep, ExitStep, RestartStep
     DEF DockerNext

\* The invariant holds at the start.
LEMMA DockerInitial == ASSUME DockerInit PROVE DockerInv
<1>1. Idle \in Jobs /\ Gone(AnyWork) \in Containers /\ "none" \in BoxStatus
  BY DEF Idle, Gone, Jobs, Containers, BoxStatus
<1>2. DockerTypeOK
  BY <1>1, DockerAssumption DEF DockerInit, DockerTypeOK
<1>3. Employed /\ Alone /\ RowOfWork /\ FoundHolds /\ MadeIsHere /\ WasMade /\ Leaving
  BY DockerAssumption DEF DockerInit, Employed, Alone, RowOfWork, FoundHolds, MadeIsHere,
     WasMade, Leaving, Idle, Gone, Busy, Present
<1>4. DockerSound
  BY DEF DockerInit, DockerSound, RunningRuns, OptionsSurvive, LeftoversGo, NoneHalfMade,
     Gone, Present
<1> QED BY <1>2, <1>3, <1>4 DEF DockerInv

\* Rows, containers and goroutines are always of their types.
THEOREM DockerAlwaysTyped == DockerSpec => []DockerTypeOK
  BY DockerInitial, DockerStep, PTL DEF DockerSpec, DockerInv

\* A row that says running has a container that runs, no sandbox loses its options but to a
\* start-up, and what deletion leaves goes at the next one, with the exceptions they name.
THEOREM DockerAlwaysSound == DockerSpec => []DockerSound
  BY DockerInitial, DockerStep, PTL DEF DockerSpec, DockerInv

=============================================================================
