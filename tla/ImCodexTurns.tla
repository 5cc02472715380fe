---------------------------- MODULE ImCodexTurns ----------------------------
(***************************************************************************)
(* The turns of one chat user with Codex (codex_im_inbound.go): messages   *)
(* enter a bounded queue that gives up its oldest entry, one worker takes  *)
(* them out, and an automation may run a turn for the same user at the     *)
(* same time. A turn resolves the user's session, runs in the session's    *)
(* Codex thread or begins one, and starts over once if Codex has lost it.  *)
(* A thread is named after the turn that began it.                         *)
(***************************************************************************)
EXTENDS Naturals, SequencesExt

CONSTANTS
    Messages,   \* messages of the user
    Runs,       \* turns run by automations
    QueueCap,   \* 5 in newCodexInboundHandler
    NoThread, NoSession

ImTurns == Messages \cup Runs

ASSUME ImCodexAssumption ==
    /\ QueueCap \in Nat \ {0}
    /\ Messages \cap Runs = {} /\ {NoThread, NoSession} \cap ImTurns = {}

VARIABLES
    slot,       \* dispatcher.workers has the user's slot, and its worker runs
    queue,      \* the slot's channel
    message,    \* per message: where it is on its way to the worker
    turn,       \* per turn: the step of runTurnSync, and its view of the thread
    session,    \* the agent_sessions row of the user: the turn that created it
    thread,     \* codex_thread_id of that row
    live,       \* threads that Codex knows
    spent,      \* threads whose context window is full
    overlapped, \* two turns have run at the same time
    unwritten   \* an update of codex_thread_id has failed

imVars == <<slot, queue, message, turn, session, thread, live, spent, overlapped,
            unwritten>>
rowVars == <<session, thread, unwritten>>
dispatcherVars == <<slot, queue, message>>

ImInit ==
    /\ slot = FALSE /\ queue = << >>
    /\ message = [m \in Messages |-> "none"]
    /\ turn = [t \in ImTurns |-> [pc |-> "none", view |-> NoThread, used |-> NoThread]]
    /\ session = NoSession /\ thread = NoThread
    /\ live = {} /\ spent = {}
    /\ overlapped = FALSE /\ unwritten = FALSE

InTurn(t) == turn[t].pc \notin {"none", "done"}
WorkerBusy == \E m \in Messages : InTurn(m)

-----------------------------------------------------------------------------
(* codexDispatcher *)

\* Mutant: a worker for every message.
SpawnAlways(m) ==
    /\ message[m] = "none"
    /\ slot' = TRUE
    /\ message' = [message EXCEPT ![m] = "turn"]
    /\ turn' = [turn EXCEPT ![m].pc = "resolve"]
    /\ overlapped' = (overlapped \/ \E u \in ImTurns : InTurn(u))
    /\ UNCHANGED <<queue, session, thread, live, spent, unwritten>>

\* The first message makes the slot and its worker under the lock; a later one
\* finds the slot, and is sent without the lock.
Enqueue(m) ==
    /\ message[m] = "none"
    /\ slot' = TRUE
    /\ IF slot THEN /\ message' = [message EXCEPT ![m] = "sending"]
                    /\ UNCHANGED queue
       ELSE /\ message' = [message EXCEPT ![m] = "queued"]
            /\ queue' = <<m>>
    /\ UNCHANGED <<turn, rowVars, live, spent, overlapped>>

SendToSlot(m) ==
    /\ message[m] = "sending" /\ Len(queue) < QueueCap
    /\ queue' = Append(queue, m)
    /\ message' = [message EXCEPT ![m] = "queued"]
    /\ UNCHANGED <<slot, turn, rowVars, live, spent, overlapped>>

\* The sender found the channel full; by the time it receives, it may not be.
DropOldest(m) ==
    /\ message[m] = "sending" /\ Len(queue) = QueueCap
    /\ queue' = Tail(queue)
    /\ message' = [message EXCEPT ![Head(queue)] = "dropped"]
    /\ UNCHANGED <<slot, turn, rowVars, live, spent, overlapped>>

Begin(t) ==
    /\ turn' = [turn EXCEPT ![t].pc = "resolve"]
    /\ overlapped' = (overlapped \/ \E u \in ImTurns : InTurn(u))

\* runWorker
Dequeue ==
    /\ queue # << >> /\ ~WorkerBusy
    /\ queue' = Tail(queue)
    /\ message' = [message EXCEPT ![Head(queue)] = "turn"]
    /\ Begin(Head(queue))
    /\ UNCHANGED <<slot, rowVars, live, spent>>

\* fireAutomation calls runTurnSync itself.
AutomationTurn(t) ==
    /\ turn[t].pc = "none"
    /\ Begin(t)
    /\ UNCHANGED <<dispatcherVars, rowVars, live, spent>>

-----------------------------------------------------------------------------
(* runTurnSync *)

Goto(t, pc) == turn' = [turn EXCEPT ![t].pc = pc]

\* GetSessionByExternalID; an error is told to the user.
ResolveSession(t) ==
    /\ turn[t].pc = "resolve"
    /\ \/ session = NoSession /\ Goto(t, "create")
       \/ /\ session # NoSession
          /\ turn' = [turn EXCEPT ![t].pc = "run", ![t].view = thread]
       \/ Goto(t, "reply")
    /\ UNCHANGED <<dispatcherVars, rowVars, live, spent, overlapped>>

\* The external id is unique: of two that create a session, one gets an error.
CreateSession(t) ==
    /\ turn[t].pc = "create"
    /\ \/ session = NoSession /\ session' = t /\ Goto(t, "run")
       \/ Goto(t, "reply") /\ UNCHANGED session
    /\ UNCHANGED <<dispatcherVars, thread, unwritten, live, spent, overlapped>>

\* SetSessionCodexThreadID; what it returns is logged at most.
SetThread(id) ==
    \/ thread' = id /\ UNCHANGED unwritten
    \/ UNCHANGED thread /\ unwritten' = TRUE

\* RunTurn in a thread that Codex knows, or in a new one.
RunTurn(t) ==
    LET used == IF turn[t].view = NoThread THEN t ELSE turn[t].view IN
    /\ turn[t].pc \in {"run", "retry"}
    /\ turn[t].view \in live \cup {NoThread}
    /\ live' = live \cup {used}
    /\ turn' = [turn EXCEPT ![t].pc = "persist", ![t].used = used]
    /\ UNCHANGED <<dispatcherVars, rowVars, spent, overlapped>>

\* Mutant: whatever the error, the thread is cleared.
ClearOnError(t) ==
    /\ turn[t].pc \in {"run", "retry"}
    /\ SetThread(NoThread)
    /\ Goto(t, "reply")
    /\ UNCHANGED <<dispatcherVars, session, live, spent, overlapped>>

\* An error of the call, or one of the transport that is not about the thread.
RunTurnFails(t) ==
    /\ turn[t].pc \in {"run", "retry"}
    /\ Goto(t, "reply")
    /\ UNCHANGED <<dispatcherVars, rowVars, live, spent, overlapped>>

\* The thread is gone: it is cleared, and the turn is run once more without.
ThreadNotFound(t) ==
    /\ turn[t].pc = "run" /\ turn[t].view \notin live \cup {NoThread}
    /\ SetThread(NoThread)
    /\ turn' = [turn EXCEPT ![t].pc = "retry", ![t].view = NoThread]
    /\ UNCHANGED <<dispatcherVars, session, live, spent, overlapped>>

PersistThread(t) ==
    /\ turn[t].pc = "persist"
    /\ IF turn[t].used # turn[t].view THEN SetThread(turn[t].used)
       ELSE UNCHANGED <<thread, unwritten>>
    /\ Goto(t, "status")
    /\ UNCHANGED <<dispatcherVars, session, live, spent, overlapped>>

\* Completed, interrupted, or failed in a way that leaves the thread.
ReadStatus(t) ==
    /\ turn[t].pc = "status"
    /\ Goto(t, "reply")
    /\ UNCHANGED <<dispatcherVars, rowVars, live, spent, overlapped>>

\* contextWindowExceeded: the next message opens a fresh thread.
ContextExceeded(t) ==
    /\ turn[t].pc = "status"
    /\ spent' = spent \cup {turn[t].used}
    /\ SetThread(NoThread)
    /\ Goto(t, "reply")
    /\ UNCHANGED <<dispatcherVars, session, live, overlapped>>

\* A failed turn may say itself that its thread is not found.
NotFoundInTurn(t) ==
    /\ turn[t].pc = "status" /\ turn[t].used \notin live
    /\ SetThread(NoThread)
    /\ Goto(t, "reply")
    /\ UNCHANGED <<dispatcherVars, session, live, spent, overlapped>>

\* sendText or sendError; an error of the post is logged.
ReplyToUser(t) ==
    /\ turn[t].pc = "reply"
    /\ turn' = [turn EXCEPT ![t] = [pc |-> "done", view |-> NoThread,
                                    used |-> NoThread]]
    /\ message' = [m \in Messages |-> IF m = t THEN "answered" ELSE message[m]]
    /\ UNCHANGED <<slot, queue, rowVars, live, spent, overlapped>>

\* A restart of codex-app-gateway that finds no upload of CODEX_HOME.
ThreadsLost ==
    /\ live # {}
    /\ live' = {}
    /\ UNCHANGED <<dispatcherVars, turn, rowVars, spent, overlapped>>

-----------------------------------------------------------------------------
TurnStep(t) ==
    \/ ResolveSession(t) \/ CreateSession(t) \/ RunTurn(t) \/ RunTurnFails(t)
    \/ ThreadNotFound(t) \/ PersistThread(t) \/ ReadStatus(t)
    \/ ContextExceeded(t) \/ NotFoundInTurn(t) \/ ReplyToUser(t)

ImNext ==
    \/ \E m \in Messages : Enqueue(m) \/ SendToSlot(m) \/ DropOldest(m)
    \/ Dequeue \/ ThreadsLost
    \/ \E t \in Runs : AutomationTurn(t)
    \/ \E t \in ImTurns : TurnStep(t)

ImSpec == ImInit /\ [][ImNext]_imVars

-----------------------------------------------------------------------------
(* Properties *)

ImTypeOK ==
    /\ slot \in BOOLEAN /\ queue \in Seq(Messages) /\ Len(queue) <= QueueCap
    /\ message \in [Messages -> {"none", "sending", "queued", "dropped", "turn",
                                 "answered"}]
    /\ turn \in [ImTurns -> [pc : {"none", "resolve", "create", "run", "retry",
                                 "persist", "status", "reply", "done"},
                           view : ImTurns \cup {NoThread},
                           used : ImTurns \cup {NoThread}]]
    /\ session \in ImTurns \cup {NoSession} /\ thread \in ImTurns \cup {NoThread}
    /\ live \subseteq ImTurns /\ spent \subseteq ImTurns
    /\ overlapped \in BOOLEAN /\ unwritten \in BOOLEAN

\* Two messages of a user are never worked on at the same time (the worker of
\* the per-user dispatcher).
OneTurnPerUser == \A m, n \in Messages : InTurn(m) /\ InTurn(n) => m = n

\* The conversation is not cut: as long as turns do not overlap, the session
\* leaves a thread only when Codex has lost it or its context is full.
ThreadKept ==
    [][thread' # thread /\ thread # NoThread
         => thread \notin live \/ thread \in spent' \/ overlapped]_imVars

\* The user is not stuck: when a turn ends, the session does not name a thread
\* the turn found lost or full, unless an update of the row failed or a turn
\* overlapped (the retry and contextWindowExceeded paths of runTurnSync).
SpentIsLeft ==
    \A t \in ImTurns : turn[t].pc = "reply" /\ turn[t].used \in spent
        => thread # turn[t].used \/ overlapped \/ unwritten

\* A user's turns come one by one, and each starts where the last one left the
\* conversation.
TurnsSound == OneTurnPerUser /\ SpentIsLeft
=============================================================================
