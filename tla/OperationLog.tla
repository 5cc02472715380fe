---------------------------- MODULE OperationLog ----------------------------
(***************************************************************************)
(* The log of operations. An interceptor on a connection of codex's        *)
(* app-server pairs the calls of tools with their answers by the id of the *)
(* JSON-RPC request, and hands each pair to a client with a bounded queue, *)
(* which posts them to agentserver one at a time. agentserver inserts them *)
(* as rows, shows them to the members of a workspace, and prunes old ones. *)
(* The gateway starts the client but does not yet put the interceptor on   *)
(* its connections: this is how they work together.                        *)
(***************************************************************************)
EXTENDS FiniteSets, Naturals, Sequences

CONSTANTS
    ToolCalls,      \* calls of tools, each made once
    OpIds,          \* ids of JSON-RPC requests
    Workplaces,     \* workspaces
    LogCapacity,    \* of the client's queue
    OpTTL,          \* ticks a row is kept; 0 disables the pruning
    MaxList,        \* rows a list may have
    MaxTicks,       \* bound
    NoOp

ASSUME OperationLogAssumption ==
    /\ NoOp \notin ToolCalls
    /\ LogCapacity \in Nat \ {0} /\ MaxList \in Nat \ {0}
    /\ OpTTL \in Nat /\ MaxTicks \in Nat

VARIABLES
    tool,       \* per call: its step, id, workspace, environment, time and answer
    pairing,    \* Interceptor.pending: per workspace and id, the call
    opQueue,    \* Client.ch
    posting,    \* what the drainer posts
    draining,   \* whether the drainer runs
    dropped,    \* Client.dropped
    operations, \* rows of operations
    pruned,     \* history: rows that were pruned, and when
    unlogged,   \* history: calls whose post failed or was abandoned
    mistaken,   \* history: calls that were paired with a request of the server
    page,       \* the last list a member of a workspace was shown
    ticks

opVars == <<tool, pairing, opQueue, posting, draining, dropped, operations,
            pruned, unlogged, mistaken, page, ticks>>
clientVars == <<opQueue, posting, draining, dropped>>
tableVars == <<operations, pruned, page>>

NoTool(w) == [pc |-> "none", id |-> NoOp, at |-> w, env |-> TRUE, since |-> 0, failed |-> FALSE]

OpsInit ==
    /\ tool \in [ToolCalls -> {NoTool(w) : w \in Workplaces}]
    /\ pairing = [w \in Workplaces |-> [n \in OpIds |-> NoOp]]
    /\ opQueue = <<>> /\ posting = {} /\ draining = TRUE /\ dropped = 0
    /\ operations = {} /\ pruned = {} /\ unlogged = {} /\ mistaken = {}
    /\ page = [for |-> CHOOSE w \in Workplaces : TRUE, rows |-> {}]
    /\ ticks = 0

-----------------------------------------------------------------------------
(* The interceptor *)

\* A client does not use an id again before it has its answer.
FreeId(w, n) ==
    \A t \in ToolCalls : ~(tool[t].pc = "called" /\ tool[t].at = w /\ tool[t].id = n)

OnClientFrame(t, n, env) ==
    LET w == tool[t].at IN
    /\ tool[t].pc = "none" /\ FreeId(w, n)
    /\ tool' = [tool EXCEPT ![t] =
         [@ EXCEPT !.pc = "called", !.id = n, !.env = env, !.since = ticks]]
    /\ pairing' = [pairing EXCEPT ![w][n] = t]
    /\ UNCHANGED <<clientVars, tableVars, unlogged, mistaken, ticks>>

\* Mutant: a full queue loses its oldest operation.
SubmitEvicting(op) ==
    /\ opQueue' = IF Len(opQueue) < LogCapacity THEN Append(opQueue, op)
                  ELSE Append(Tail(opQueue), op)
    /\ UNCHANGED dropped

\* Submit never waits.
Submit(op) ==
    IF Len(opQueue) < LogCapacity
    THEN opQueue' = Append(opQueue, op) /\ UNCHANGED dropped
    ELSE dropped' = dropped + 1 /\ UNCHANGED opQueue

\* A frame of the server is paired with the call that waits for its id, if one
\* does; without an error in it, it is a success.
Paired(w, n, failed) ==
    IF pairing[w][n] = NoOp THEN UNCHANGED <<pairing, opQueue, dropped>>
    ELSE /\ pairing' = [pairing EXCEPT ![w][n] = NoOp]
         /\ Submit([of |-> pairing[w][n], failed |-> failed])

\* The answer of a call.
OnServerFrame(t, failed) ==
    /\ tool[t].pc = "called"
    /\ tool' = [tool EXCEPT ![t].pc = "answered", ![t].failed = failed]
    /\ Paired(tool[t].at, tool[t].id, failed)
    /\ UNCHANGED <<posting, draining, tableVars, unlogged, mistaken, ticks>>

\* Requests of the server, for approvals, have ids of their own, which may be the
\* same.
ServerRequests(w, n) ==
    /\ pairing[w][n] # NoOp
    /\ Paired(w, n, FALSE)
    /\ mistaken' = mistaken \cup {pairing[w][n]}
    /\ UNCHANGED <<tool, posting, draining, tableVars, unlogged, ticks>>

-----------------------------------------------------------------------------
(* The client *)

Drain ==
    /\ draining /\ posting = {} /\ opQueue # <<>>
    /\ posting' = {Head(opQueue)} /\ opQueue' = Tail(opQueue)
    /\ UNCHANGED <<tool, pairing, draining, dropped, tableVars, unlogged, mistaken, ticks>>

\* agentserver inserts what it is sent, unless it has no environment; whether the
\* answer arrives makes no difference.
PostInternalOperations ==
    \E op \in posting :
      /\ tool[op.of].env
      /\ operations' = operations \cup {op}
      /\ posting' = {}
      /\ UNCHANGED <<tool, pairing, opQueue, draining, dropped, pruned, page,
                     unlogged, mistaken, ticks>>

\* The post is refused, fails or takes too long; nobody tries again.
PostFails ==
    \E op \in posting :
      /\ posting' = {}
      /\ unlogged' = unlogged \cup {op.of}
      /\ UNCHANGED <<tool, pairing, opQueue, draining, dropped, tableVars, mistaken, ticks>>

\* Close waits for the drainer, which gives up its post (done or not) and the queue.
CloseLog ==
    /\ draining
    /\ draining' = FALSE
    /\ posting' = {} /\ opQueue' = <<>>
    /\ \E done \in SUBSET posting :
         /\ \A op \in done : tool[op.of].env
         /\ operations' = operations \cup done
         /\ unlogged' = unlogged \cup {op.of : op \in posting \ done}
                                 \cup {opQueue[i].of : i \in DOMAIN opQueue}
    /\ UNCHANGED <<tool, pairing, dropped, pruned, page, mistaken, ticks>>

-----------------------------------------------------------------------------
(* agentserver *)

\* Mutant: rows that have the age of the limit go as well.
PruneEarly ==
    LET old == {op \in operations : tool[op.of].since + OpTTL <= ticks} IN
    /\ OpTTL > 0
    /\ operations' = operations \ old
    /\ pruned' = pruned \cup {[op |-> op, at |-> ticks] : op \in old}
    /\ UNCHANGED <<tool, pairing, clientVars, unlogged, mistaken, page, ticks>>

\* runRetentionOnce: rows of calls that began strictly before the cutoff.
PruneOperationsOlderThan ==
    LET old == {op \in operations : tool[op.of].since + OpTTL < ticks} IN
    /\ OpTTL > 0
    /\ operations' = operations \ old
    /\ pruned' = pruned \cup {[op |-> op, at |-> ticks] : op \in old}
    /\ UNCHANGED <<tool, pairing, clientVars, unlogged, mistaken, page, ticks>>

\* ListOperations: of one workspace, the newest first, as many as a list may have.
Newest(w, rows) ==
    LET own == {op \in operations : tool[op.of].at = w} IN
    /\ rows \subseteq own
    /\ Cardinality(rows) =
         IF Cardinality(own) < MaxList THEN Cardinality(own) ELSE MaxList
    /\ \A op \in rows, other \in own \ rows : tool[other.of].since <= tool[op.of].since

GetInternalOperations(w, named) ==
    /\ \E rows \in SUBSET operations :
         Newest(named, rows) /\ page' = [for |-> w, rows |-> rows]
    /\ UNCHANGED <<tool, pairing, clientVars, operations, pruned, unlogged, mistaken, ticks>>

\* Mutant: the workspace the query asks for.
ListAsked(w, asked) == GetInternalOperations(w, asked)

\* A member of w lists its operations; whatever workspace the query asks for, it is
\* that of the path.
GetWorkspaceOperations(w, asked) == GetInternalOperations(w, w)

\* A client of codex asks on its connection; the gateway answers itself, for the
\* workspace of the connection.
TryHandleOperationsList(w) == GetInternalOperations(w, w)

OpTick ==
    /\ ticks < MaxTicks
    /\ ticks' = ticks + 1
    /\ UNCHANGED <<tool, pairing, clientVars, tableVars, unlogged, mistaken>>

OpsNext ==
    \/ \E t \in ToolCalls :
         \/ \E n \in OpIds, env \in BOOLEAN : OnClientFrame(t, n, env)
         \/ \E failed \in BOOLEAN : OnServerFrame(t, failed)
    \/ \E w \in Workplaces, n \in OpIds : ServerRequests(w, n)
    \/ Drain \/ PostInternalOperations \/ PostFails \/ CloseLog
    \/ PruneOperationsOlderThan \/ OpTick
    \/ \E w \in Workplaces :
         \/ TryHandleOperationsList(w)
         \/ \E asked \in Workplaces : GetWorkspaceOperations(w, asked)

OpsSpec == OpsInit /\ [][OpsNext]_opVars

-----------------------------------------------------------------------------
(* Properties *)

OpsTypeOK ==
    /\ \A t \in ToolCalls : tool[t].pc \in {"none", "called", "answered"}
    /\ \A w \in Workplaces, n \in OpIds : pairing[w][n] \in ToolCalls \cup {NoOp}
    /\ Len(opQueue) <= LogCapacity /\ Cardinality(posting) <= 1
    /\ {op.of : op \in operations} \subseteq ToolCalls
    /\ unlogged \cup mistaken \subseteq ToolCalls /\ ticks \in 0..MaxTicks

Queued == {opQueue[i] : i \in DOMAIN opQueue}
Rowed == operations \cup {r.op : r \in pruned}

\* What the log says of a call is what the call was answered, however calls that
\* share ids follow each other; only a request of the server with the same id can
\* pass for an answer.
LoggedIsTrue ==
    \A op \in Queued \cup posting \cup Rowed : op.of \in mistaken \/
        (tool[op.of].pc = "answered" /\ op.failed = tool[op.of].failed)

\* Every pair is in one place: in the queue, posted, in the table, pruned, or lost
\* and known to be; the counter counts those the queue had no room for.
NothingUnaccounted ==
    LET paired == {t \in ToolCalls : tool[t].pc = "answered"} \cup mistaken
        kept == {op.of : op \in Queued \cup posting \cup Rowed} \cup unlogged IN
    /\ kept \subseteq paired
    /\ dropped = Cardinality(paired \ kept)
    /\ Cardinality({op.of : op \in Rowed}) = Cardinality(Rowed)

\* A member is shown operations of the workspace he was admitted to, and rows go
\* only when their time is over.
ShownAndKept ==
    /\ \A op \in page.rows : tool[op.of].at = page.for
    /\ \A r \in pruned : r.at - tool[r.op.of].since > OpTTL

OpsSound == LoggedIsTrue /\ NothingUnaccounted /\ ShownAndKept
=============================================================================
