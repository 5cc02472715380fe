------------------------------- MODULE Broker -------------------------------
(***************************************************************************)
(* The broker of codex-app-gateway for one workspace: POST /api/turns runs *)
(* a turn over a pooled WebSocket to the workspace's codex subprocess.     *)
(* Pool.Get hands the calls one connection, dialled under the lock of the  *)
(* pool's entry; Conn multiplexes them: a registration per RPC and per     *)
(* turn, which the one reader goroutine serves or, when it ends, closes.   *)
(*                                                                         *)
(* Each call has a thread of its own. Codex acknowledges turn/start before *)
(* it reports turn/completed, and reports it only to a connection that     *)
(* listens to the thread. A frame is sent and dispatched in one step; what *)
(* a goroutine does between two frames interleaves with the dispatching.   *)
(***************************************************************************)
EXTENDS Naturals

CONSTANTS
    Calls,      \* requests to POST /api/turns
    MaxDials    \* bound: connections that are ever dialled

VARIABLES
    entries,    \* the pool's entry before Close, and the one made after it
    closing,    \* Pool.Close: "no", "waiting" for the entry's lock, "done"
    dialled,    \* connections dialled so far
    conns,      \* per connection: its reader, its maps, its attached threads
    call,       \* per call: where it is, and the channels it waits on
    codex       \* per call: the RPC codex works on, who hears of its turn

brokerVars == <<entries, closing, dialled, conns, call, codex>>

Conns == 1 .. MaxDials
NoConn == 0
Generations == {"open", "closed"}
Nobody == "nobody"

ASSUME BrokerAssumption == MaxDials \in Nat /\ Nobody \notin Calls

NewConn == [reader |-> "reading", shut |-> FALSE, pendingResp |-> {},
            pendingTurns |-> {}, completedTurns |-> {}, attached |-> {}]
NewCall == [pc |-> "rest", entry |-> "open", conn |-> NoConn,
            resp |-> "empty", turn |-> "empty"]

EndedConn == [NewConn EXCEPT !.reader = "ended", !.shut = TRUE]
NoTurn == [rpc |-> "none", running |-> FALSE, hears |-> NoConn, reported |-> FALSE]

\* The RPC that a call waits for at each place.
Rpcs == {"thread", "resume", "turn"}

BrokerInit ==
    /\ entries = [g \in Generations |-> [conn |-> NoConn, lock |-> Nobody]]
    /\ closing = "no"
    /\ dialled = 0
    /\ conns = [c \in Conns |-> [NewConn EXCEPT !.reader = "none"]]
    /\ call = [t \in Calls |-> NewCall]
    /\ codex = [t \in Calls |-> NoTurn]

\* Reads and writes succeed: the reader has seen no error, nobody called Close.
OpenConn(c) == conns[c].reader = "reading" /\ ~conns[c].shut

Step(t, pc) == call' = [call EXCEPT ![t].pc = pc]
\* The handler returns a turn or a transport error; what its channels held is
\* gone with it.
Reply(t) == call' = [call EXCEPT ![t] = [NewCall EXCEPT !.pc = "answered",
                                                        !.conn = call[t].conn]]

ShutConn(c) == conns' = [conns EXCEPT ![c].shut = TRUE]

\* The entry that the pool's map leads to.
MapEntry == IF closing = "done" THEN "closed" ELSE "open"

-----------------------------------------------------------------------------
(* Pool.Get: the handler calls it for the thread and again for the turn *)

Locking == {"lockForThread", "lockForTurn"}
Dialling == {"dialForThread", "dialForTurn"}
DialPc(pc) == IF pc = "lockForThread" THEN "dialForThread" ELSE "dialForTurn"

\* The first Get's look at the map. A request with a thread id skips
\* thread/start. The pool closes only when the server accepts no more.
Arrive(t) ==
    /\ call[t].pc = "rest"
    /\ closing = "no"
    /\ \E pc \in Locking : Step(t, pc)
    /\ UNCHANGED <<entries, closing, dialled, conns, codex>>

\* The second Get reads the map under p.mu, which Close holds until it is done.
FindEntry(t) ==
    /\ call[t].pc = "getForTurn"
    /\ closing # "waiting"
    /\ call' = [call EXCEPT ![t].pc = "lockForTurn", ![t].entry = MapEntry]
    /\ UNCHANGED <<entries, closing, dialled, conns, codex>>

\* Turn issues thread/resume unless the thread is attached to the connection.
UseConn(t, c) ==
    [call EXCEPT ![t].conn = c,
                 ![t].pc = IF @ \in {"lockForThread", "dialForThread"}
                           THEN "sendThread"
                           ELSE IF t \in conns[c].attached
                           THEN "sendTurn" ELSE "sendResume"]

\* A connection whose reader has failed is dead; one that was only shut is not
\* yet known to be.
Alive(c) == c # NoConn /\ conns[c].reader = "reading"

ReuseConn(t) ==
    LET e == call[t].entry IN
    /\ call[t].pc \in Locking
    /\ entries[e].lock = Nobody
    /\ Alive(entries[e].conn)
    /\ call' = UseConn(t, entries[e].conn)
    /\ UNCHANGED <<entries, closing, dialled, conns, codex>>

\* Mutant: the dial is not guarded by the lock of the entry.
UnlockedDial(t) ==
    /\ call[t].pc \in Locking
    /\ ~Alive(entries[call[t].entry].conn)
    /\ Step(t, DialPc(call[t].pc))
    /\ UNCHANGED <<entries, closing, dialled, conns, codex>>

\* The lock is kept while the resolver finds the subprocess and Dial connects.
StartDial(t) ==
    LET e == call[t].entry IN
    /\ call[t].pc \in Locking
    /\ entries[e].lock = Nobody
    /\ ~Alive(entries[e].conn)
    /\ entries' = [entries EXCEPT ![e].lock = t]
    /\ Step(t, DialPc(call[t].pc))
    /\ UNCHANGED <<closing, dialled, conns, codex>>

Dialled(t) ==
    LET c == dialled + 1 IN
    /\ call[t].pc \in Dialling
    /\ c \in Conns
    /\ dialled' = c
    /\ conns' = [conns EXCEPT ![c] = NewConn]
    /\ entries' = [entries EXCEPT ![call[t].entry] =
                                     [conn |-> c, lock |-> Nobody]]
    /\ call' = UseConn(t, c)
    /\ UNCHANGED <<closing, codex>>

\* Mutant: an error returns without the unlock.
FailLocked(t) ==
    /\ call[t].pc \in Dialling
    /\ Reply(t)
    /\ UNCHANGED <<entries, closing, dialled, conns, codex>>

\* The resolver, the dial or initialize failed, or the client went away.
DialFails(t) ==
    /\ call[t].pc \in Dialling
    /\ entries' = [entries EXCEPT ![call[t].entry].lock = Nobody]
    /\ Reply(t)
    /\ UNCHANGED <<closing, dialled, conns, codex>>

-----------------------------------------------------------------------------
(* Conn.StartThread, Conn.ensureListener, Conn.Turn *)

SendPc(r) == CASE r = "thread" -> "sendThread" [] r = "resume" -> "sendResume"
               [] r = "turn" -> "sendTurn"
WaitPc(r) == CASE r = "thread" -> "waitThread" [] r = "resume" -> "waitResume"
               [] r = "turn" -> "waitTurn"

\* The response channel is registered, then the request written.
Send(t, r) ==
    LET c == call[t].conn IN
    /\ call[t].pc = SendPc(r)
    /\ OpenConn(c)
    /\ conns' = [conns EXCEPT ![c].pendingResp = @ \cup {t}]
    /\ call' = [call EXCEPT ![t].pc = WaitPc(r), ![t].resp = "empty"]
    /\ codex' = [codex EXCEPT ![t].rpc = r]
    /\ UNCHANGED <<entries, closing, dialled>>

\* The write fails; the registration is taken back.
SendFails(t) ==
    /\ call[t].pc \in {SendPc(r) : r \in Rpcs}
    /\ ~OpenConn(call[t].conn)
    /\ Reply(t)
    /\ UNCHANGED <<entries, closing, dialled, conns, codex>>

\* thread/start and thread/resume attach the thread; then the handler gets a
\* connection for the turn, or the turn is sent.
TakeResponse(t, r) ==
    /\ call[t].pc = WaitPc(r)
    /\ call[t].resp = "value"
    /\ Step(t, CASE r = "thread" -> "getForTurn" [] r = "resume" -> "sendTurn"
                 [] r = "turn" -> "register")
    /\ conns' = IF r = "turn" THEN conns
                ELSE [conns EXCEPT ![call[t].conn].attached = @ \cup {t}]
    /\ UNCHANGED <<entries, closing, dialled, codex>>

TakeError(t, r) ==
    /\ call[t].pc = WaitPc(r)
    /\ call[t].resp = "error"
    /\ Reply(t)
    /\ UNCHANGED <<entries, closing, dialled, conns, codex>>

\* waitResp found its channel closed by the reader.
TakeClosed(t, r) ==
    /\ call[t].pc = WaitPc(r)
    /\ call[t].resp = "closed"
    /\ Reply(t)
    /\ conns' = [conns EXCEPT ![call[t].conn].pendingResp = @ \ {t}]
    /\ UNCHANGED <<entries, closing, dialled, codex>>

\* waitResp has no deadline: only the client's going away ends it early.
CancelWait(t, r) ==
    /\ call[t].pc = WaitPc(r)
    /\ Reply(t)
    /\ conns' = [conns EXCEPT ![call[t].conn].pendingResp = @ \ {t}]
    /\ UNCHANGED <<entries, closing, dialled, codex>>

\* After the acknowledgement: a completion that came first is taken from the
\* buffer, otherwise the turn's channel is registered, whatever has become of
\* the reader.
RegisterTurn(t) ==
    LET c == call[t].conn IN
    /\ call[t].pc = "register"
    /\ IF t \in conns[c].completedTurns
       THEN /\ conns' = [conns EXCEPT ![c].completedTurns = @ \ {t}]
            /\ Reply(t)
       ELSE /\ conns' = [conns EXCEPT ![c].pendingTurns = @ \cup {t}]
            /\ Step(t, "waitDone")
    /\ UNCHANGED <<entries, closing, dialled, codex>>

TakeTurn(t) ==
    /\ call[t].pc = "waitDone"
    /\ call[t].turn # "empty"
    /\ Reply(t)
    /\ UNCHANGED <<entries, closing, dialled, conns, codex>>

\* Mutant: a turn waits without a deadline.
NeverTimeOut(t) ==
    /\ call[t].pc = "waitDone"
    /\ t \in {}
    /\ UNCHANGED brokerVars

\* The deadline, or the client's context: the turn is interrupted and the
\* connection, taken to be poisoned, is shut for every call that shares it.
TimeOut(t) ==
    LET c == call[t].conn IN
    /\ call[t].pc = "waitDone"
    /\ Reply(t)
    /\ conns' = [conns EXCEPT ![c].pendingTurns = @ \ {t}, ![c].shut = TRUE]
    /\ UNCHANGED <<entries, closing, dialled, codex>>

-----------------------------------------------------------------------------
(* Codex and Conn.readLoop *)

\* An RPC's response. thread/start and thread/resume make codex report the
\* thread's turns to the connection that asked.
Respond(t, result) ==
    LET c == call[t].conn
        heard == result = "value" /\ codex[t].rpc # "turn" IN
    /\ codex[t].rpc # "none"
    /\ c \in Conns /\ OpenConn(c)
    /\ codex' = [codex EXCEPT
         ![t].rpc = "none",
         ![t].running = @ \/ (codex[t].rpc = "turn" /\ result = "value"),
         ![t].hears = IF heard THEN c ELSE @]
    /\ conns' = [conns EXCEPT ![c].pendingResp = @ \ {t}]
    /\ call' = IF t \in conns[c].pendingResp
               THEN [call EXCEPT ![t].resp = result] ELSE call
    /\ UNCHANGED <<entries, closing, dialled>>

\* Mutant: a completion nobody waits for yet is dropped.
DropEarly(t) ==
    LET c == call[t].conn IN
    /\ codex[t].running /\ codex[t].hears = c
    /\ OpenConn(c)
    /\ codex' = [codex EXCEPT ![t].running = FALSE, ![t].reported = TRUE]
    /\ conns' = [conns EXCEPT ![c].pendingTurns = @ \ {t}]
    /\ call' = IF t \in conns[c].pendingTurns
               THEN [call EXCEPT ![t].turn = "value"] ELSE call
    /\ UNCHANGED <<entries, closing, dialled>>

\* deliverTurn: to the turn's channel, or buffered until the turn registers.
DeliverTurn(t) ==
    LET c == call[t].conn IN
    /\ codex[t].running /\ codex[t].hears = c
    /\ OpenConn(c)
    /\ codex' = [codex EXCEPT ![t].running = FALSE, ![t].reported = TRUE]
    /\ IF t \in conns[c].pendingTurns
       THEN /\ conns' = [conns EXCEPT ![c].pendingTurns = @ \ {t}]
            /\ call' = [call EXCEPT ![t].turn = "value"]
       ELSE /\ conns' = [conns EXCEPT ![c].completedTurns = @ \cup {t}]
            /\ UNCHANGED call
    /\ UNCHANGED <<entries, closing, dialled>>

\* The subprocess or the connection dies, or Close has shut it: closeErr is
\* set, and only then are the registrations closed.
ReaderFails(c) ==
    /\ conns[c].reader = "reading"
    /\ conns' = [conns EXCEPT ![c].reader = "failed"]
    /\ UNCHANGED <<entries, closing, dialled, call, codex>>

\* What codex still does for a lost connection is heard by nobody.
FailAllPending(c) ==
    /\ conns[c].reader = "failed"
    /\ call' = [t \in Calls |->
         [call[t] EXCEPT
            !.resp = IF t \in conns[c].pendingResp THEN "closed" ELSE @,
            !.turn = IF t \in conns[c].pendingTurns THEN "closed" ELSE @]]
    /\ conns' = [conns EXCEPT ![c] = EndedConn]
    /\ codex' = [t \in Calls |-> IF call[t].conn = c THEN NoTurn ELSE codex[t]]
    /\ UNCHANGED <<entries, closing, dialled>>

-----------------------------------------------------------------------------
(* Pool.reapOnce and Pool.Close *)

\* A silent connection is shut; the model lets any be silent at any time.
Reap ==
    LET e == entries["open"] IN
    /\ closing = "no"
    /\ e.lock = Nobody /\ e.conn # NoConn
    /\ ShutConn(e.conn)
    /\ entries' = [entries EXCEPT !["open"].conn = NoConn]
    /\ UNCHANGED <<closing, dialled, call, codex>>

\* Close stops the reaper, takes p.mu and then the lock of the entry, which a
\* dialling Get holds.
ClosePool ==
    /\ closing = "no"
    /\ closing' = "waiting"
    /\ UNCHANGED <<entries, dialled, conns, call, codex>>

CloseEntry ==
    LET e == entries["open"] IN
    /\ closing = "waiting"
    /\ e.lock = Nobody
    /\ closing' = "done"
    /\ IF e.conn = NoConn THEN UNCHANGED conns ELSE ShutConn(e.conn)
    /\ entries' = [entries EXCEPT !["open"].conn = NoConn]
    /\ UNCHANGED <<dialled, call, codex>>

-----------------------------------------------------------------------------
CallStep(t) ==
    \/ FindEntry(t) \/ ReuseConn(t) \/ StartDial(t) \/ Dialled(t) \/ DialFails(t)
    \/ SendFails(t) \/ RegisterTurn(t) \/ TakeTurn(t)
    \/ \E r \in Rpcs : \/ Send(t, r) \/ TakeResponse(t, r)
                        \/ TakeError(t, r) \/ TakeClosed(t, r)
    \/ TimeOut(t)

\* An RPC is answered unless the connection breaks.
CodexStep(t) == \/ \E result \in {"value", "error"} : Respond(t, result)
                \/ DeliverTurn(t)

PoolStep == Reap \/ ClosePool \/ CloseEntry

BrokerNext ==
    \/ \E t \in Calls : \/ Arrive(t) \/ CallStep(t) \/ CodexStep(t)
                       \/ \E r \in Rpcs : CancelWait(t, r)
    \/ \E c \in Conns : ReaderFails(c) \/ FailAllPending(c)
    \/ PoolStep

BrokerSpec == BrokerInit /\ [][BrokerNext]_brokerVars

\* Goroutines run on, the deadline of a turn passes, a connection that is shut
\* fails its reader, codex answers an RPC unless the connection breaks, and
\* Close gets the lock it waits for. Nobody has to arrive, cancel or close.
BrokerFair(t) == CallStep(t) \/ (\E result \in {"value", "error"} : Respond(t, result))
ReaderFair(c) == FailAllPending(c) \/ (conns[c].shut /\ ReaderFails(c))
BrokerFairness ==
    /\ \A t \in Calls : WF_brokerVars(BrokerFair(t))
    /\ \A c \in Conns : WF_brokerVars(ReaderFair(c))
    /\ WF_brokerVars(CloseEntry)

FairBrokerSpec == BrokerSpec /\ BrokerFairness

-----------------------------------------------------------------------------
CallPcs == {"rest", "answered", "getForTurn", "register", "waitDone"}
           \cup Locking \cup Dialling
           \cup {SendPc(r) : r \in Rpcs} \cup {WaitPc(r) : r \in Rpcs}

Entries == [conn : Conns \cup {NoConn}, lock : Calls \cup {Nobody}]
ConnStates == [reader : {"none", "reading", "failed", "ended"}, shut : BOOLEAN,
               pendingResp : SUBSET Calls, pendingTurns : SUBSET Calls,
               completedTurns : SUBSET Calls, attached : SUBSET Calls]
CallStates == [pc : CallPcs, entry : Generations, conn : Conns \cup {NoConn},
               resp : {"empty", "value", "error", "closed"},
               turn : {"empty", "value", "closed"}]
CodexStates == [rpc : Rpcs \cup {"none"}, running : BOOLEAN, hears : Conns \cup {NoConn},
                reported : BOOLEAN]

BrokerTypeOK ==
    /\ entries \in [Generations -> Entries]
    /\ \A g \in Generations : entries[g].lock # Nobody =>
          LET holder == call[entries[g].lock] IN
          holder.pc \in Dialling /\ holder.entry = g
    /\ closing \in {"no", "waiting", "done"}
    /\ dialled \in 0 .. MaxDials
    /\ conns \in [Conns -> ConnStates]
    /\ call \in [Calls -> CallStates]
    /\ codex \in [Calls -> CodexStates]

\* Until the pool is closed, every connection that works is the one in the
\* entry: no race of Gets, redials, timeouts and reaping leaves a connection
\* that neither the reaper nor Close will ever find (Pool.Get).
OneConn ==
    closing # "done" =>
        \A c \in Conns : OpenConn(c) => entries["open"].conn = c

\* A turn that codex has reported as completed on the connection of a call that
\* still waits is there to be taken, in the buffer or in the channel, as long as
\* the reader lives: whichever of acknowledgement, completion and registration
\* the goroutines see first (Conn.deliverTurn, Conn.Turn).
CompletionKept ==
    \A t \in Calls : LET c == call[t].conn IN
        /\ codex[t].reported /\ c \in Conns /\ OpenConn(c)
        /\ call[t].pc \in {"waitTurn", "register", "waitDone"}
        => t \in conns[c].completedTurns \/ call[t].turn = "value"

\* A turn is only run where it will be heard of: when codex works on it, it
\* reports to the connection on which the call waits (Conn.Turn's attachment,
\* kept over redials between StartThread and Turn).
TurnHeard ==
    \A t \in Calls :
        call[t].pc \in {"register", "waitDone"} /\ OpenConn(call[t].conn)
            => codex[t].hears = call[t].conn

\* No registration outlives its call: a channel that nobody reads is in no map
\* of a connection, where it would stay until the connection goes (the deletes
\* on every exit of Conn.Turn, ensureListener and StartThread).
NoGhosts ==
    \A t \in Calls : call[t].pc = "answered" =>
        \A c \in Conns : t \notin conns[c].pendingResp \cup conns[c].pendingTurns

\* Connections are shared, a turn is heard of as long as its call waits, and a
\* call that is over has
\* left nothing behind.
CallsSound == OneConn /\ CompletionKept /\ TurnHeard /\ NoGhosts

\* Every call is answered, whatever fails: the completion that was dispatched
\* before its turn registered, the reader that ended in between, the entry
\* whose lock a dialling call holds while the pool closes.
CallsAnswered ==
    \A t \in Calls : call[t].pc # "rest" ~> call[t].pc = "answered"
=============================================================================
