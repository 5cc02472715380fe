------------------------------- MODULE Relay -------------------------------
(***************************************************************************)
(* The byte relay of codex-exec-gateway: Registry.Create mints a ticket    *)
(* and starts the pairing goroutine Relay.run, the HTTP handlers of the    *)
(* two executors find the ticket, claim their side of it, hand themselves  *)
(* over through an unbuffered channel and wait to be answered.             *)
(*                                                                         *)
(* A step is what happens under one mutex, one channel operation or one    *)
(* close; run owns a ticket between them.                                  *)
(***************************************************************************)
EXTENDS Naturals, FiniteSets

CONSTANTS
    Tickets,            \* tickets that mintTicket may draw
    Workspaces,
    Handlers,           \* HTTP requests to /relay/{ticket}
    NoHandler, NoTicket,
    MaxPerWorkspace     \* Registry.maxPerWorkspace

ASSUME RelayAssumption ==
    /\ IsFiniteSet(Tickets)
    /\ NoHandler \notin Handlers
    /\ NoTicket \notin Tickets
    /\ MaxPerWorkspace \in Nat \ {0}

VARIABLES
    run,        \* where the pairing goroutine of the ticket is
    owner,      \* Relay.WorkspaceID
    tickets,    \* the keys of Registry.tickets
    count,      \* Registry.workspaceCount
    claims,     \* the sides claimed: putClaim, getClaim
    held,       \* the putReq and the getReq that run has received
    err,        \* Relay.err: "none", "timeout" or "copy"
    req         \* per handler: its side, its ticket, where it is, its answer

vars == <<run, owner, tickets, count, claims, held, err, req>>
registry == <<owner, tickets, count>>
pairing == <<claims, held, err>>

-----------------------------------------------------------------------------
Sides == {"PUT", "GET"}
RunSteps == {"unborn", "pairing", "copying", "answerPut", "cleanup", "close",
             "done"}
HandlerSteps == {"new", "claim", "check", "offer", "wait", "returned"}
Answers == {"none", "gone", "locked", "timeout", "streamed", "ok", "failed"}

Requests == [side : Sides, ticket : Tickets \cup {NoTicket},
             pc : HandlerSteps, answer : Answers]
NewRequest == [side |-> "PUT", ticket |-> NoTicket, pc |-> "new",
               answer |-> "none"]

Goto(h, pc) == req' = [req EXCEPT ![h].pc = pc]
Return(h, answer) ==
    req' = [req EXCEPT ![h].pc = "returned", ![h].answer = answer]

\* run closes the done channel of the requests in H.
Answer(H, answer) ==
    req' = [h \in Handlers |->
              IF h \in H THEN [req[h] EXCEPT !.pc = "returned",
                                             !.answer = answer]
              ELSE req[h]]

Held(t) == {held[t][s] : s \in Sides} \ {NoHandler}

-----------------------------------------------------------------------------
(* Registry *)

\* Mutants: the cap is not looked at; the slot is not taken.
CreateUncapped(t, w) ==
    /\ run[t] = "unborn"
    /\ tickets' = tickets \cup {t}
    /\ count' = [count EXCEPT ![w] = @ + 1]
    /\ owner' = [owner EXCEPT ![t] = w]
    /\ run' = [run EXCEPT ![t] = "pairing"]
    /\ UNCHANGED <<pairing, req>>

CreateUncounted(t, w) ==
    /\ run[t] = "unborn"
    /\ count[w] < MaxPerWorkspace
    /\ tickets' = tickets \cup {t}
    /\ owner' = [owner EXCEPT ![t] = w]
    /\ run' = [run EXCEPT ![t] = "pairing"]
    /\ UNCHANGED <<count, pairing, req>>

\* Create: the cap, the map and the count are one critical section.
Create(t, w) ==
    /\ run[t] = "unborn"
    /\ count[w] < MaxPerWorkspace
    /\ tickets' = tickets \cup {t}
    /\ count' = [count EXCEPT ![w] = @ + 1]
    /\ owner' = [owner EXCEPT ![t] = w]
    /\ run' = [run EXCEPT ![t] = "pairing"]
    /\ UNCHANGED <<pairing, req>>

\* A handler looks up a ticket that was minted; a client knows no other.
Lookup(h, s, t) ==
    /\ req[h].pc = "new"
    /\ run[t] # "unborn"
    /\ req' = [req EXCEPT ![h] =
                 [side |-> s, ticket |-> t,
                  pc |-> IF t \in tickets THEN "claim" ELSE "returned",
                  answer |-> IF t \in tickets THEN "none" ELSE "gone"]]
    /\ UNCHANGED <<run, registry, pairing>>

\* Mutant: the slot of the workspace is not given back.
CleanupKeepsCount(t) ==
    /\ run[t] = "cleanup"
    /\ tickets' = tickets \ {t}
    /\ run' = [run EXCEPT ![t] = "close"]
    /\ UNCHANGED <<owner, count, pairing, req>>

\* cleanup, deferred by run to before it closes done.
Cleanup(t) ==
    /\ run[t] = "cleanup"
    /\ tickets' = tickets \ {t}
    /\ count' = IF t \in tickets THEN [count EXCEPT ![owner[t]] = @ - 1]
                ELSE count
    /\ run' = [run EXCEPT ![t] = "close"]
    /\ UNCHANGED <<owner, pairing, req>>

CloseDone(t) ==
    /\ run[t] = "close"
    /\ run' = [run EXCEPT ![t] = "done"]
    /\ UNCHANGED <<registry, pairing, req>>

-----------------------------------------------------------------------------
(* AcceptPut, AcceptGet *)

\* The first request of a side has it for good; another is answered 423.
Claim(h) ==
    /\ req[h].pc = "claim"
    /\ IF req[h].side \in claims[req[h].ticket]
       THEN Return(h, "locked") /\ UNCHANGED claims
       ELSE /\ claims' = [claims EXCEPT ![req[h].ticket] =
                                            @ \cup {req[h].side}]
            /\ Goto(h, "check")
    /\ UNCHANGED <<run, registry, held, err>>

\* Mutant: a buffered channel, which takes the request while run is busy or
\* has returned.
CheckDoneBuffered(h) ==
    /\ req[h].pc = "check"
    /\ IF run[req[h].ticket] = "done" THEN Return(h, "gone")
       ELSE Goto(h, "wait")
    /\ UNCHANGED <<run, registry, pairing>>

\* The fast-fail select.
CheckDone(h) ==
    /\ req[h].pc = "check"
    /\ IF run[req[h].ticket] = "done" THEN Return(h, "gone")
       ELSE Goto(h, "offer")
    /\ UNCHANGED <<run, registry, pairing>>

\* The second select: the send, which is a rendezvous with run, ...
HandOver(h) ==
    LET t == req[h].ticket
        s == req[h].side
    IN  /\ req[h].pc = "offer"
        /\ run[t] = "pairing"
        /\ held' = [held EXCEPT ![t][s] = h]
        /\ run' = [run EXCEPT ![t] =
                     IF \E o \in Sides \ {s} : held[t][o] # NoHandler
                     THEN "copying" ELSE "pairing"]
        /\ Goto(h, "wait")
        /\ UNCHANGED <<registry, claims, err>>

\* ... or done.
OfferGone(h) ==
    /\ req[h].pc = "offer"
    /\ run[req[h].ticket] = "done"
    /\ Return(h, "gone")
    /\ UNCHANGED <<run, registry, pairing>>

-----------------------------------------------------------------------------
(* Relay.run *)

\* Mutant: only the upload is told.
ExpirePutOnly(t) ==
    /\ run[t] = "pairing"
    /\ Answer({held[t]["PUT"]}, "timeout")
    /\ err' = [err EXCEPT ![t] = "timeout"]
    /\ run' = [run EXCEPT ![t] = "cleanup"]
    /\ UNCHANGED <<registry, claims, held>>

\* The deadline fires: the side that showed up is answered 408.
Expire(t) ==
    /\ run[t] = "pairing"
    /\ Answer(Held(t), "timeout")
    /\ err' = [err EXCEPT ![t] = "timeout"]
    /\ run' = [run EXCEPT ![t] = "cleanup"]
    /\ UNCHANGED <<registry, claims, held>>

\* io.Copy returns, in the end: all bytes, or an error of either side, or more
\* than MaxBytes. The download is released first, without a status.
AnswerGet(t) ==
    /\ run[t] = "copying"
    /\ \E e \in {"none", "copy"} : err' = [err EXCEPT ![t] = e]
    /\ Answer({held[t]["GET"]}, "streamed")
    /\ run' = [run EXCEPT ![t] = "answerPut"]
    /\ UNCHANGED <<registry, claims, held>>

AnswerPut(t) ==
    /\ run[t] = "answerPut"
    /\ Answer({held[t]["PUT"]}, IF err[t] = "none" THEN "ok" ELSE "failed")
    /\ run' = [run EXCEPT ![t] = "cleanup"]
    /\ UNCHANGED <<registry, pairing>>

-----------------------------------------------------------------------------
Init ==
    /\ run = [t \in Tickets |-> "unborn"]
    /\ owner \in [Tickets -> Workspaces]
    /\ tickets = {}
    /\ count = [w \in Workspaces |-> 0]
    /\ claims = [t \in Tickets |-> {}]
    /\ held = [t \in Tickets |-> [s \in Sides |-> NoHandler]]
    /\ err = [t \in Tickets |-> "none"]
    /\ req = [h \in Handlers |-> NewRequest]

Accept(h) == Claim(h) \/ CheckDone(h) \/ HandOver(h) \/ OfferGone(h)

\* What run does, but for the copying.
Run(t) == Expire(t) \/ AnswerPut(t) \/ Cleanup(t) \/ CloseDone(t)

Next ==
    \/ \E t \in Tickets, w \in Workspaces : Create(t, w)
    \/ \E h \in Handlers, s \in Sides, t \in Tickets : Lookup(h, s, t)
    \/ \E h \in Handlers : Accept(h)
    \/ \E t \in Tickets : Run(t) \/ AnswerGet(t)

Spec == Init /\ [][Next]_vars

\* Goroutines are scheduled and the deadline fires. Nothing bounds io.Copy: it
\* has neither a deadline nor a context, and two idle peers block it.
Fairness ==
    /\ \A h \in Handlers : WF_vars(Claim(h) \/ CheckDone(h) \/ OfferGone(h))
    /\ \A t \in Tickets : WF_vars(Run(t))

FairSpec == Spec /\ Fairness

-----------------------------------------------------------------------------
(* Properties *)

TypeOK ==
    /\ run \in [Tickets -> RunSteps]
    /\ owner \in [Tickets -> Workspaces]
    /\ tickets \subseteq Tickets
    /\ count \in [Workspaces -> Nat]
    /\ claims \in [Tickets -> SUBSET Sides]
    /\ held \in [Tickets -> [Sides -> Handlers \cup {NoHandler}]]
    /\ err \in [Tickets -> {"none", "timeout", "copy"}]
    /\ req \in [Handlers -> Requests]

\* A handler that waits for its answer is one that run will still answer: it
\* cannot have slipped into the channel of a run that has given up, however
\* the deadline, the claims and the fast-fail interleave. This is what the
\* comment in Create wants of the unbuffered channels.
WaitingIsHeld ==
    \A h \in Handlers :
        req[h].pc = "wait" =>
            LET t == req[h].ticket
            IN  /\ held[t][req[h].side] = h
                /\ \/ run[t] \in {"pairing", "copying"}
                   \/ run[t] = "answerPut" /\ req[h].side = "PUT"

Minted(w) == {t \in tickets : owner[t] = w}

\* The count of a workspace is that of its tickets in the map, so that no
\* sequence of expiries and transfers leaks or gains a slot of the cap.
CapExact ==
    \A w \in Workspaces :
        /\ count[w] = Cardinality(Minted(w))
        /\ count[w] <= MaxPerWorkspace

\* The transfer that a request waits for is not stuck behind another one: a
\* handler is answered, unless it is a side of a copy that goes on.
Answered ==
    \A h \in Handlers :
        (req[h].pc \notin {"new", "returned"}) ~>
            \/ req[h].pc = "returned"
            \/ \E t \in Tickets : run[t] = "copying" /\ h \in Held(t)

\* The relay implements the session it promises. A ticket is over once it has
\* left the map; until then an expired one is still open.
Phase(t) ==
    CASE run[t] = "unborn" -> "unborn"
      [] run[t] \in {"close", "done"} -> "over"
      [] run[t] = "pairing" -> "open"
      [] run[t] = "cleanup" /\ err[t] = "timeout" -> "open"
      [] OTHER -> "paired"

Pair(t) ==
    IF held[t]["PUT"] = NoHandler \/ held[t]["GET"] = NoHandler
    THEN <<NoHandler, NoHandler>>
    ELSE <<held[t]["PUT"], held[t]["GET"]>>

Session == INSTANCE RelaySession WITH
    phase <- [t \in Tickets |-> Phase(t)],
    pair <- [t \in Tickets |-> Pair(t)]

ImplementsSession == Session!SessionSpec

-----------------------------------------------------------------------------
(* What a comment says, and the code does not do *)

\* AcceptGet: "statusOut=0 means run() streamed bytes successfully".
StreamedIsComplete ==
    \A h \in Handlers :
        req[h].answer = "streamed" => err[req[h].ticket] = "none"
=============================================================================
