----------------------------- MODULE CodexFront -----------------------------
(***************************************************************************)
(* The front of codex-app-gateway: a codex --remote client dials in with a *)
(* token, agentserver keeps a row for the session, the gateway has the     *)
(* subprocess of the workspace started and passes frames between the two   *)
(* until either side goes. Some requests of the client are refused at the  *)
(* gateway and the approvals that the subprocess asks for are given there. *)
(* The row is closed in the background. The subprocess is Supervisor's.    *)
(***************************************************************************)
EXTENDS FiniteSets, Naturals

CONSTANTS
    Fronts,         \* connections of clients at once
    RemoteTokens,   \* tokens of codex --remote
    SessionRows,    \* ids for rows of codex_browser_sessions
    NoRowId,        \* the session of a connection that is not tracked
    NoToken         \* the token of a row that is not there

ASSUME CodexFrontAssumption == NoRowId \notin SessionRows /\ NoToken \notin RemoteTokens

VARIABLES
    remoteToken,    \* per token: its row
    sessionRow,     \* per id: its row
    front,          \* per connection: the step of its handler and the frames
    closing,        \* sessions that a goroutine is about to close
    unclosed        \* history: sessions whose close, or whose id, was lost

frontVars == <<remoteToken, sessionRow, front, closing, unclosed>>

NoFrame == [kind |-> "none", at |-> "nowhere", answers |-> 0]
Closed == [pc |-> "idle", token |-> NoToken, session |-> NoRowId,
           ask |-> NoFrame, prompt |-> NoFrame]

FrontInit ==
    /\ remoteToken = [t \in RemoteTokens |-> "none"]
    /\ sessionRow = [s \in SessionRows |-> [state |-> "none", token |-> NoToken, meta |-> FALSE]]
    /\ front = [f \in Fronts |-> Closed]
    /\ closing = {}
    /\ unclosed = {}

FrontAt(f, pc) == front[f].pc = pc
FrontStep(f, pc) == front' = [front EXCEPT ![f].pc = pc]

-----------------------------------------------------------------------------
(* Tokens *)

\* By a member who is not a guest.
MintCodexToken(t) ==
    /\ remoteToken[t] = "none"
    /\ remoteToken' = [remoteToken EXCEPT ![t] = "live"]
    /\ UNCHANGED <<sessionRow, front, closing, unclosed>>

\* Sessions of the token that are open are left alone.
RevokeCodexToken(t) ==
    /\ remoteToken[t] \in {"live", "expired"}
    /\ remoteToken' = [remoteToken EXCEPT ![t] = "revoked"]
    /\ UNCHANGED <<sessionRow, front, closing, unclosed>>

RemoteTokenExpires(t) ==
    /\ remoteToken[t] = "live"
    /\ remoteToken' = [remoteToken EXCEPT ![t] = "expired"]
    /\ UNCHANGED <<sessionRow, front, closing, unclosed>>

-----------------------------------------------------------------------------
(* A connection up to the proxy *)

DialIn(f, t) ==
    /\ FrontAt(f, "idle")
    /\ front' = [front EXCEPT ![f] = [Closed EXCEPT !.pc = "verify", !.token = t]]
    /\ UNCHANGED <<remoteToken, sessionRow, closing, unclosed>>

\* agentserver reads the row of the token; what it refuses ends with a 401.
VerifyToken(f) ==
    /\ FrontAt(f, "verify")
    /\ IF remoteToken[front[f].token] = "live"
       THEN FrontStep(f, "open")
       ELSE front' = [front EXCEPT ![f] = Closed]
    /\ UNCHANGED <<remoteToken, sessionRow, closing, unclosed>>

\* The row is inserted, and the answer may get lost: the client is sent away
\* and nobody knows the id.
OpenSession(f, s) ==
    /\ FrontAt(f, "open")
    /\ sessionRow[s].state = "none"
    /\ sessionRow' = [sessionRow EXCEPT
          ![s] = [state |-> "open", token |-> front[f].token, meta |-> FALSE]]
    /\ \/ /\ front' = [front EXCEPT ![f].pc = "accept", ![f].session = s]
          /\ UNCHANGED unclosed
       \/ /\ front' = [front EXCEPT ![f] = Closed]
          /\ unclosed' = unclosed \cup {s}
    /\ UNCHANGED <<remoteToken, closing>>

\* An agentserver that has no such endpoint yet verifies the token only.
OpenUntracked(f) ==
    /\ FrontAt(f, "open")
    /\ FrontStep(f, "accept")
    /\ UNCHANGED <<remoteToken, sessionRow, closing, unclosed>>

\* Mutant: the close is registered once the subprocess has been dialled.
EndHandlerLate(f) ==
    /\ front' = [front EXCEPT ![f] = Closed]
    /\ closing' = IF FrontAt(f, "proxy") THEN closing \cup ({front[f].session} \ {NoRowId})
                                    ELSE closing
    /\ UNCHANGED <<remoteToken, sessionRow, unclosed>>

\* Whatever ends the handler, from then on a goroutine closes the session.
EndHandler(f) ==
    /\ front' = [front EXCEPT ![f] = Closed]
    /\ closing' = closing \cup ({front[f].session} \ {NoRowId})
    /\ UNCHANGED <<remoteToken, sessionRow, unclosed>>

Following == [accept |-> "ensure", ensure |-> "dial", dial |-> "proxy"]

\* websocket.Accept, EnsureSubprocess and the dial of the child, each of which
\* may fail.
HandleCodexAppWS(f) ==
    /\ front[f].pc \in DOMAIN Following
    /\ \/ FrontStep(f, Following[front[f].pc]) /\ UNCHANGED <<remoteToken, sessionRow, closing, unclosed>>
       \/ EndHandler(f)

\* A pump reads the end of its side, and cancels the other one.
RunProxyEnds(f) == FrontAt(f, "proxy") /\ EndHandler(f)

-----------------------------------------------------------------------------
(* Frames: one request of each side *)

Proxying(f, frame, at) == FrontAt(f, "proxy") /\ front[f][frame].at = at
FrameMoves(f, frame, at) ==
    /\ front' = [front EXCEPT ![f][frame].at = at]
    /\ UNCHANGED <<remoteToken, sessionRow, closing, unclosed>>
Answers(f, frame, at) ==
    /\ front' = [front EXCEPT ![f][frame].at = at, ![f][frame].answers = @ + 1]
    /\ UNCHANGED <<remoteToken, sessionRow, closing, unclosed>>

\* Nothing comes before the first frame, which is the initialize of a client
\* that says who it is.
ClientAsks(f) ==
    /\ Proxying(f, "ask", "nowhere")
    /\ \E kind \in {"initialize", "local io", "other"} :
          front' = [front EXCEPT ![f].ask = [kind |-> kind, at |-> "client pump", answers |-> 0]]
    /\ UNCHANGED <<remoteToken, sessionRow, closing, unclosed>>

\* The update of the row may fail; the frame goes on all the same.
UpdateSessionMeta(f) ==
    /\ Proxying(f, "ask", "client pump")
    /\ front[f].ask.kind = "initialize" /\ front[f].session # NoRowId
    /\ ~sessionRow[front[f].session].meta
    /\ sessionRow' = [sessionRow EXCEPT ![front[f].session].meta = TRUE]
    /\ front' = [front EXCEPT ![f].ask.at = "server"]
    /\ UNCHANGED <<remoteToken, closing, unclosed>>

\* tryBlockLocalIORPC: answered here and dropped.
PumpClientFrame(f) ==
    /\ Proxying(f, "ask", "client pump")
    /\ IF front[f].ask.kind = "local io"
       THEN Answers(f, "ask", "dropped")
       ELSE FrameMoves(f, "ask", "server")

ServerAnswers(f) == Proxying(f, "ask", "server") /\ FrameMoves(f, "ask", "server pump")
PumpAnswer(f) == Proxying(f, "ask", "server pump") /\ Answers(f, "ask", "client")

ServerPrompts(f) ==
    /\ Proxying(f, "prompt", "nowhere")
    /\ \E kind \in {"approval", "other"} :
          front' = [front EXCEPT ![f].prompt =
                      [kind |-> kind, at |-> "server pump", answers |-> 0]]
    /\ UNCHANGED <<remoteToken, sessionRow, closing, unclosed>>

\* Mutant: the approval is answered and passed on.
PumpAndReply(f) ==
    /\ Proxying(f, "prompt", "server pump")
    /\ IF front[f].prompt.kind = "approval"
       THEN Answers(f, "prompt", "client")
       ELSE FrameMoves(f, "prompt", "client")

\* approvalfilter.TryReply: answered here and dropped.
PumpServerFrame(f) ==
    /\ Proxying(f, "prompt", "server pump")
    /\ IF front[f].prompt.kind = "approval"
       THEN Answers(f, "prompt", "dropped")
       ELSE FrameMoves(f, "prompt", "client")

ClientReplies(f) == Proxying(f, "prompt", "client") /\ FrameMoves(f, "prompt", "client pump")
PumpReply(f) == Proxying(f, "prompt", "client pump") /\ Answers(f, "prompt", "server")

-----------------------------------------------------------------------------
(* The end of a session *)

\* Closed, or given up after five seconds.
CloseSession(s) ==
    /\ s \in closing
    /\ closing' = closing \ {s}
    /\ \/ /\ sessionRow' = [sessionRow EXCEPT ![s].state = "closed"]
          /\ UNCHANGED unclosed
       \/ unclosed' = unclosed \cup {s} /\ UNCHANGED sessionRow
    /\ UNCHANGED <<remoteToken, front>>

Connected == {front[f].session : f \in Fronts} \ {NoRowId}

\* The gateway stops. Nothing closes its rows: SweepStaleCodexBrowserSessions
\* has no caller.
GatewayCrashes ==
    /\ Connected \cup closing # {}
    /\ unclosed' = unclosed \cup Connected \cup closing
    /\ closing' = {}
    /\ front' = [f \in Fronts |-> Closed]
    /\ UNCHANGED <<remoteToken, sessionRow>>

FrontNext ==
    \/ \E t \in RemoteTokens : MintCodexToken(t) \/ RevokeCodexToken(t) \/ RemoteTokenExpires(t)
    \/ \E f \in Fronts :
          \/ \E t \in RemoteTokens : DialIn(f, t)
          \/ \E s \in SessionRows : OpenSession(f, s)
          \/ VerifyToken(f) \/ OpenUntracked(f) \/ HandleCodexAppWS(f) \/ RunProxyEnds(f)
          \/ ClientAsks(f) \/ UpdateSessionMeta(f) \/ PumpClientFrame(f)
          \/ ServerAnswers(f) \/ PumpAnswer(f)
          \/ ServerPrompts(f) \/ PumpServerFrame(f) \/ ClientReplies(f) \/ PumpReply(f)
    \/ \E s \in SessionRows : CloseSession(s)
    \/ GatewayCrashes

FrontSpec == FrontInit /\ [][FrontNext]_frontVars

-----------------------------------------------------------------------------

Places == {"nowhere", "client pump", "server pump", "client", "server", "dropped"}

Frames == [kind : {"none", "initialize", "local io", "approval", "other"}, at : Places,
           answers : Nat]

FrontStates == [pc : {"idle", "verify", "open"} \cup DOMAIN Following \cup {"proxy"},
                token : RemoteTokens \cup {NoToken}, session : SessionRows \cup {NoRowId},
                ask : Frames, prompt : Frames]

FrontTypeOK ==
    /\ remoteToken \in [RemoteTokens -> {"none", "live", "expired", "revoked"}]
    /\ sessionRow \in [SessionRows -> [state : {"none", "open", "closed"},
                                       token : RemoteTokens \cup {NoToken}, meta : BOOLEAN]]
    /\ front \in [Fronts -> FrontStates]
    /\ closing \subseteq SessionRows /\ unclosed \subseteq SessionRows

\* The list of the browsers says "online" only of a token with a connection, or
\* with one that is being closed; the others are those whose close, or whose id,
\* was lost. No way out of handleCodexAppWS leaves a session open.
OnlineIsAccounted ==
    \A s \in SessionRows :
        sessionRow[s].state = "open" => s \in Connected \cup closing \cup unclosed

\* A session is not shown as gone while its client is connected, and no two
\* connections share one.
ConnectedIsOnline ==
    /\ \A s \in Connected : sessionRow[s].state = "open"
    /\ \A f, g \in Fronts :
          (front[f].session = front[g].session /\ front[f].session # NoRowId) => f = g

\* Each request is answered once: what the gateway answers reaches nobody who
\* would answer it again.
AnsweredOnce ==
    \A f \in Fronts : front[f].ask.answers <= 1 /\ front[f].prompt.answers <= 1

FrontSound == OnlineIsAccounted /\ ConnectedIsOnline /\ AnsweredOnce
=============================================================================
