---------------------------- MODULE ExecGateway ----------------------------
(***************************************************************************)
(* The connections of codex-exec-gateway for one executor id: executors    *)
(* connect to /codex-exec/{id} (an inbound connection, of which the        *)
(* registry keeps the newest), clients to /bridge/{id} (a session), and    *)
(* every session that resumes a stream gets the frames of that stream      *)
(* through the routes of the inbound connection it was paired with.        *)
(*                                                                         *)
(* A reconnecting executor evicts its predecessor, whose handler goroutine *)
(* still runs; a reconnecting client resumes its stream while the handler  *)
(* of its old session still runs. Frames are not modelled, only what they  *)
(* do to the routes: a failed write or a Reset drops one.                  *)
(***************************************************************************)
EXTENDS Naturals

CONSTANTS
    Inbounds,   \* connections the executor makes
    Bridges,    \* sessions that clients open
    Streams,    \* stream ids
    NoInbound,
    NoBridge

ASSUME ExecGatewayAssumption ==
    NoInbound \notin Inbounds /\ NoBridge \notin Bridges

VARIABLES
    registered, \* ConnRegistry: the inbound connection of the executor
    inbound,    \* per inbound connection: its handler, ws, close and routes
    bridge,     \* per session: its handler, ws, stream and inbound
    online      \* the row in executors: connected, and not disconnected since

execVars == <<registered, inbound, bridge, online>>

NewInbound == [pc |-> "none", ws |-> "open", evicts |-> NoInbound,
               close |-> "no", routes |-> [s \in Streams |-> NoBridge],
               fanout |-> {}, drop |-> NoBridge]
NewBridges == [pc : {"none"}, ws : {"open"}, reset : {FALSE}, in : {NoInbound},
               stream : Streams]

ExecInit ==
    /\ registered = NoInbound
    /\ inbound = [i \in Inbounds |-> NewInbound]
    /\ bridge \in [Bridges -> NewBridges]
    /\ online = FALSE

InGoto(i, pc) == inbound' = [inbound EXCEPT ![i].pc = pc]
BrGoto(b, pc) == bridge' = [bridge EXCEPT ![b].pc = pc]

Route(i, s) == inbound[i].routes[s]
Routed(i) == {Route(i, s) : s \in Streams} \ {NoBridge}

-----------------------------------------------------------------------------
(* inboundConn.close: once; a second caller waits for the first to be done *)

CallClose(i) == [inbound EXCEPT ![i].close = IF @ = "no" THEN "signalled" ELSE @]

\* The routes are replaced by an empty map, and what they held is closed.
SwapRoutes(i) ==
    /\ inbound[i].close = "signalled"
    /\ inbound' = [inbound EXCEPT ![i].close = "swapped",
                                  ![i].fanout = Routed(i),
                                  ![i].routes = NewInbound.routes]
    /\ UNCHANGED <<registered, bridge, online>>

CloseRouted(i, b) ==
    /\ inbound[i].close = "swapped" /\ b \in inbound[i].fanout
    /\ inbound' = [inbound EXCEPT ![i].fanout = @ \ {b}]
    /\ bridge' = [bridge EXCEPT ![b].ws = "closed"]
    /\ UNCHANGED <<registered, online>>

CloseInboundWs(i) ==
    /\ inbound[i].close = "swapped" /\ inbound[i].fanout = {}
    /\ inbound' = [inbound EXCEPT ![i].close = "closed", ![i].ws = "closed"]
    /\ UNCHANGED <<registered, bridge, online>>

-----------------------------------------------------------------------------
(* Server.handleInbound *)

\* The ticket is verified, the ws accepted and registered; Register returns the
\* connection it replaced.
Connect(i) ==
    /\ inbound[i].pc = "none"
    /\ registered' = i
    /\ inbound' = [inbound EXCEPT ![i].pc = "evict", ![i].evicts = registered]
    /\ UNCHANGED <<bridge, online>>

Evict(i) ==
    /\ inbound[i].pc = "evict"
    /\ IF inbound[i].evicts = NoInbound
       THEN InGoto(i, "mark")
       ELSE inbound' = [CallClose(inbound[i].evicts) EXCEPT ![i].pc = "evicting"]
    /\ UNCHANGED <<registered, bridge, online>>

Evicted(i) ==
    /\ inbound[i].pc = "evicting"
    /\ inbound[inbound[i].evicts].close = "closed"
    /\ inbound' = [inbound EXCEPT ![i].pc = "mark", ![i].evicts = NoInbound]
    /\ UNCHANGED <<registered, bridge, online>>

\* A failed update is logged.
MarkConnected(i) ==
    /\ inbound[i].pc = "mark"
    /\ online' = TRUE \/ UNCHANGED online
    /\ InGoto(i, "reading")
    /\ UNCHANGED <<registered, bridge>>

\* The executor or the network is gone.
InboundBreaks(i) ==
    /\ inbound[i].pc # "none" /\ inbound[i].ws = "open"
    /\ inbound' = [inbound EXCEPT ![i].ws = "closed"]
    /\ UNCHANGED <<registered, bridge, online>>

\* runInboundReader: a frame for a routed session is forwarded. If that fails
\* the session is closed; if the frame is a Reset the stream is over. Either
\* way the route is to be dropped.
RouteFrame(i, s) ==
    LET b == Route(i, s) IN
    /\ inbound[i].pc = "reading" /\ inbound[i].ws = "open"
    /\ inbound[i].drop = NoBridge
    /\ b # NoBridge
    /\ \/ bridge' = [bridge EXCEPT ![b].ws = "closed"]
       \/ /\ bridge[b].ws = "open"
          /\ bridge' = [bridge EXCEPT ![b].reset = TRUE]
    /\ inbound' = [inbound EXCEPT ![i].drop = b]
    /\ UNCHANGED <<registered, online>>

\* removeRoute: another session may have resumed the stream since.
RemoveRoute(i, b) ==
    [inbound[i].routes EXCEPT ![bridge[b].stream] =
                                IF @ = b THEN NoBridge ELSE @]

DropRoute(i) ==
    LET b == inbound[i].drop IN
    /\ inbound[i].pc = "reading"
    /\ b # NoBridge
    /\ inbound' = [inbound EXCEPT ![i].drop = NoBridge,
                                  ![i].routes = RemoveRoute(i, b)]
    /\ UNCHANGED <<registered, bridge, online>>

\* The reader has ended: Unregister, unless a newer connection took the entry,
\* then close.
Unregister(i) ==
    /\ inbound[i].pc = "reading" /\ inbound[i].ws = "closed"
    /\ inbound[i].drop = NoBridge
    /\ registered' = IF registered = i THEN NoInbound ELSE registered
    /\ inbound' = [CallClose(i) EXCEPT ![i].pc = "closing"]
    /\ UNCHANGED <<bridge, online>>

\* MarkDisconnected knows the executor, not the connection.
MarkDisconnected(i) ==
    /\ inbound[i].pc = "closing" /\ inbound[i].close = "closed"
    /\ online' = FALSE \/ UNCHANGED online
    /\ InGoto(i, "gone")
    /\ UNCHANGED <<registered, bridge>>

-----------------------------------------------------------------------------
(* Server.handleBridge and Server.runBridgePump *)

\* Token, revocation and ownership are checked, the inbound connection looked
\* up; a session that fails a check never starts.
OpenBridge(b) ==
    /\ bridge[b].pc = "none"
    /\ registered # NoInbound
    /\ bridge' = [bridge EXCEPT ![b].pc = "resuming", ![b].in = registered]
    /\ UNCHANGED <<registered, inbound, online>>

BridgeBreaks(b) ==
    /\ bridge[b].pc # "none" /\ bridge[b].ws = "open"
    /\ bridge' = [bridge EXCEPT ![b].ws = "closed"]
    /\ UNCHANGED <<registered, inbound, online>>

\* No first frame, or not a Resume.
NoResume(b) ==
    /\ bridge[b].pc = "resuming"
    /\ bridge' = [bridge EXCEPT ![b].pc = "done", ![b].ws = "closed",
                                ![b].in = NoInbound]
    /\ UNCHANGED <<registered, inbound, online>>

\* The first frame names the stream; a session that had it is closed. The
\* inbound connection may have closed since it was looked up.
AddRoute(b) ==
    LET i == bridge[b].in
        old == Route(i, bridge[b].stream) IN
    /\ bridge[b].pc = "resuming" /\ bridge[b].ws = "open"
    /\ inbound' = [inbound EXCEPT ![i].routes[bridge[b].stream] = b]
    /\ bridge' = [c \in Bridges |->
                    CASE c = b -> [bridge[b] EXCEPT !.pc = "paired"]
                      [] c = old -> [bridge[c] EXCEPT !.ws = "closed"]
                      [] OTHER -> bridge[c]]
    /\ UNCHANGED <<registered, online>>

\* A write to the inbound connection: the Resume frame, later the client's.
Forward(b, from) ==
    /\ bridge[b].pc = from
    /\ BrGoto(b, IF inbound[bridge[b].in].ws = "open" THEN "pump" ELSE "leave")
    /\ UNCHANGED <<registered, inbound, online>>

\* Mutant: the pump does not look before it reads.
ReadBlindly(b) ==
    /\ bridge[b].pc = "pump"
    /\ BrGoto(b, "read")
    /\ UNCHANGED <<registered, inbound, online>>

\* The pump looks whether either side was closed, and then blocks in Read.
CheckClosed(b) ==
    /\ bridge[b].pc = "pump"
    /\ BrGoto(b, IF \/ bridge[b].ws = "closed"
                    \/ inbound[bridge[b].in].close # "no"
                 THEN "leave" ELSE "read")
    /\ UNCHANGED <<registered, inbound, online>>

ReadFails(b) ==
    /\ bridge[b].pc = "read" /\ bridge[b].ws = "closed"
    /\ BrGoto(b, "leave")
    /\ UNCHANGED <<registered, inbound, online>>

ReadFrame(b) ==
    /\ bridge[b].pc = "read" /\ bridge[b].ws = "open"
    /\ BrGoto(b, "write")
    /\ UNCHANGED <<registered, inbound, online>>

Ended(b) == [bridge[b] EXCEPT !.pc = "done", !.ws = "closed", !.reset = FALSE,
                              !.in = NoInbound]

\* The deferred clean-up.
Leave(b) ==
    /\ bridge[b].pc = "leave"
    /\ inbound' = [inbound EXCEPT ![bridge[b].in].routes =
                                    RemoveRoute(bridge[b].in, b)]
    /\ bridge' = [bridge EXCEPT ![b] = Ended(b)]
    /\ UNCHANGED <<registered, online>>

-----------------------------------------------------------------------------
InboundStep(i) ==
    \/ SwapRoutes(i) \/ CloseInboundWs(i) \/ \E b \in Bridges : CloseRouted(i, b)
    \/ Evict(i) \/ Evicted(i) \/ MarkConnected(i) \/ DropRoute(i)
    \/ Unregister(i) \/ MarkDisconnected(i)

BridgeStep(b) ==
    \/ CheckClosed(b) \/ ReadFails(b) \/ Leave(b)
    \/ \E from \in {"paired", "write"} : Forward(b, from)

ExecNext ==
    \/ \E i \in Inbounds : \/ Connect(i) \/ InboundBreaks(i) \/ InboundStep(i)
                           \/ \E s \in Streams : RouteFrame(i, s)
    \/ \E b \in Bridges : \/ OpenBridge(b) \/ BridgeBreaks(b) \/ NoResume(b)
                          \/ AddRoute(b) \/ ReadFrame(b) \/ BridgeStep(b)

ExecSpec == ExecInit /\ [][ExecNext]_execVars

-----------------------------------------------------------------------------
(* Properties *)

InboundStates ==
    [pc : {"none", "evict", "evicting", "mark", "reading", "closing", "gone"},
     ws : {"open", "closed"}, evicts : Inbounds \cup {NoInbound},
     close : {"no", "signalled", "swapped", "closed"},
     routes : [Streams -> Bridges \cup {NoBridge}],
     fanout : SUBSET Bridges, drop : Bridges \cup {NoBridge}]

BridgeStates ==
    [pc : {"none", "resuming", "paired", "pump", "read", "write", "leave", "done"},
     ws : {"open", "closed"}, reset : BOOLEAN,
     in : Inbounds \cup {NoInbound}, stream : Streams]

ExecTypeOK ==
    /\ registered \in Inbounds \cup {NoInbound}
    /\ inbound \in [Inbounds -> InboundStates]
    /\ bridge \in [Bridges -> BridgeStates]
    /\ online \in BOOLEAN

\* A connection whose handler reads it and which nobody is closing is the one
\* that bridges find, or was replaced a moment ago by one that is about to close
\* it: no late handler of an evicted connection takes the entry of its successor
\* away, and no evicted connection stays open (ConnRegistry.Unregister).
LiveIsRegistered ==
    \A i \in Inbounds :
        inbound[i].pc = "reading" /\ inbound[i].close = "no"
            => \/ registered = i
               \/ \E j \in Inbounds : inbound[j].pc = "evict" /\ inbound[j].evicts = i

\* A session that blocks in Read will be woken when its executor goes: it has
\* its route in an inbound connection that is not closed, or its turn in the
\* closing is to come, unless codex has reset its stream, after which the client
\* hangs up (inboundConn.close against addRoute and runBridgePump's check).
NoStrandedBridge ==
    \A b \in Bridges : LET in == inbound[bridge[b].in] IN
        bridge[b].pc = "read" /\ bridge[b].ws = "open" /\ ~bridge[b].reset
            => \/ in.close \in {"no", "signalled"}
                  /\ in.routes[bridge[b].stream] = b
               \/ b \in in.fanout

\* No route of a connection in use leads to a session whose handler has
\* returned: frames of a stream reach the session that resumed it last or none.
RoutesAreLive ==
    \A i \in Inbounds : \A b \in Routed(i) :
        bridge[b].pc # "done" /\ bridge[b].in = i

\* Entries, routes and sessions agree: bridges find the live connection, a
\* session that reads is woken, a route leads to a session that is there.
RoutesSound == LiveIsRegistered /\ NoStrandedBridge /\ RoutesAreLive
=============================================================================
