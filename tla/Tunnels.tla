------------------------------ MODULE Tunnels ------------------------------
(***************************************************************************)
(* The tunnels of one local sandbox in sandbox-proxy: an agent connects,   *)
(* the registry keeps the newest tunnel and closes the one before, and the *)
(* handler of each tunnel writes the status of the sandbox's row when it   *)
(* begins and when it ends. Also what hangs on the tunnel: proxied         *)
(* requests, heartbeats, and the agent's card, which a sweep of            *)
(* agentserver marks offline when the heartbeat is stale.                  *)
(***************************************************************************)
EXTENDS Naturals

CONSTANTS
    Handlers,   \* connections of the agent, each with its handler
    Proxied,    \* requests that are proxied to the agent
    NoTunnel

ASSUME TunnelsAssumption == NoTunnel \notin Handlers

VARIABLES
    tunnels,    \* Registry.tunnels: the tunnel of the sandbox
    handler,    \* per connection: the handler
    tunnelOpen, \* the connections whose tunnel is not closed
    proxied,    \* per request: the tunnel it waits on, or what came of it
    sandboxRow, \* the sandbox: running, offline, or deleted
    fresh,      \* last_heartbeat_at is younger than a minute
    card        \* the agent's card: none, available, or offline

tunnelVars == <<tunnels, handler, tunnelOpen, proxied, sandboxRow, fresh, card>>

\* CreateLocalSandbox: a new local sandbox is running before any tunnel is.
TunnelInit ==
    /\ tunnels = NoTunnel
    /\ handler = [h \in Handlers |-> "none"]
    /\ tunnelOpen = {}
    /\ proxied = [q \in Proxied |-> NoTunnel]
    /\ sandboxRow = "running"
    /\ fresh = TRUE
    /\ card = "none"

\* UpdateSandboxStatus: no row, no update; an error is ignored.
SetRow(status) ==
    sandboxRow' = IF sandboxRow = "deleted" THEN sandboxRow ELSE status

Handle(h, pc) == handler' = [handler EXCEPT ![h] = pc]

-----------------------------------------------------------------------------
(* Server.handleTunnel *)

\* The token is looked up in the row, the connection accepted, yamux started.
NewTunnel(h) ==
    /\ handler[h] = "none" /\ sandboxRow # "deleted"
    /\ Handle(h, "accepted")
    /\ tunnelOpen' = tunnelOpen \cup {h}
    /\ UNCHANGED <<tunnels, proxied, sandboxRow, fresh, card>>

\* Registry.Register, under its lock.
RegisterTunnel(h) ==
    /\ handler[h] = "accepted"
    /\ tunnels' = h
    /\ tunnelOpen' = tunnelOpen \ {tunnels}
    /\ Handle(h, "registered")
    /\ UNCHANGED <<proxied, sandboxRow, fresh, card>>

MarkRunning(h) ==
    /\ handler[h] = "registered"
    /\ SetRow("running") \/ UNCHANGED sandboxRow
    /\ Handle(h, "serving")
    /\ UNCHANGED <<tunnels, tunnelOpen, proxied, fresh, card>>

\* At once and every 20 seconds. Nothing is learnt from the update of a row that
\* is gone.
Heartbeat(h) ==
    /\ handler[h] = "serving"
    /\ fresh' = (fresh \/ sandboxRow # "deleted")
    /\ UNCHANGED <<tunnels, handler, tunnelOpen, proxied, sandboxRow, card>>

\* The agent or the network is gone, or a ping was not answered.
TunnelBreaks(h) ==
    /\ h \in tunnelOpen
    /\ tunnelOpen' = tunnelOpen \ {h}
    /\ UNCHANGED <<tunnels, handler, proxied, sandboxRow, fresh, card>>

\* OnAgentInfo, of a message with capabilities: a new card is available, the
\* status of an old one stays. Before the callback is set a message is dropped.
AgentInfo(h) ==
    /\ h \in tunnelOpen /\ handler[h] \in {"registered", "serving"}
    /\ sandboxRow # "deleted"
    /\ card' = IF card = "none" THEN "available" ELSE card
    /\ UNCHANGED <<tunnels, handler, tunnelOpen, proxied, sandboxRow, fresh>>

\* Mutant: Unregister does not look whose entry it is.
UnregisterWhoever(h) ==
    /\ handler[h] = "serving" /\ h \notin tunnelOpen
    /\ tunnels' = NoTunnel
    /\ Handle(h, "offlining")
    /\ UNCHANGED <<tunnelOpen, proxied, sandboxRow, fresh, card>>

\* Registry.Unregister: whether this tunnel was still the active one.
UnregisterTunnel(h) ==
    /\ handler[h] = "serving" /\ h \notin tunnelOpen
    /\ IF tunnels = h THEN tunnels' = NoTunnel /\ Handle(h, "offlining")
       ELSE Handle(h, "done") /\ UNCHANGED tunnels
    /\ UNCHANGED <<tunnelOpen, proxied, sandboxRow, fresh, card>>

MarkOffline(h) ==
    /\ handler[h] = "offlining"
    /\ SetRow("offline") \/ UNCHANGED sandboxRow
    /\ Handle(h, "done")
    /\ UNCHANGED <<tunnels, tunnelOpen, proxied, fresh, card>>

-----------------------------------------------------------------------------
(* proxyViaTunnel *)

OpenStream(q) ==
    /\ proxied[q] = NoTunnel /\ tunnels # NoTunnel
    /\ proxied' = [proxied EXCEPT ![q] =
                     IF tunnels \in tunnelOpen THEN tunnels ELSE "failed"]
    /\ UNCHANGED <<tunnels, handler, tunnelOpen, sandboxRow, fresh, card>>

\* The agent answers. The 120 seconds of the handler's context bound nothing:
\* OpenHTTPStream does not look at it.
AgentResponds(q) ==
    /\ proxied[q] \in tunnelOpen
    /\ proxied' = [proxied EXCEPT ![q] = "answered"]
    /\ UNCHANGED <<tunnels, handler, tunnelOpen, sandboxRow, fresh, card>>

\* The streams of a closed tunnel end.
StreamEnds(q) ==
    /\ proxied[q] \in Handlers \ tunnelOpen
    /\ proxied' = [proxied EXCEPT ![q] = "failed"]
    /\ UNCHANGED <<tunnels, handler, tunnelOpen, sandboxRow, fresh, card>>

-----------------------------------------------------------------------------
(* agentserver *)

\* A minute without a heartbeat: no handler with an open tunnel is serving.
GoStale ==
    /\ fresh
    /\ \A h \in tunnelOpen : handler[h] # "serving"
    /\ fresh' = FALSE
    /\ UNCHANGED <<tunnels, handler, tunnelOpen, proxied, sandboxRow, card>>

\* AgentHealthMonitor.Run
MarkStale ==
    /\ card = "available" /\ ~fresh
    /\ card' = "offline"
    /\ UNCHANGED <<tunnels, handler, tunnelOpen, proxied, sandboxRow, fresh>>

\* handleRegisterAgentCard, with the proxy token of the sandbox.
RegisterCard ==
    /\ sandboxRow # "deleted"
    /\ card' = "available"
    /\ UNCHANGED <<tunnels, handler, tunnelOpen, proxied, sandboxRow, fresh>>

\* handleDeleteSandbox: the registry it closes a tunnel in is that of its own
\* process, which has none.
DeleteLocalSandbox ==
    /\ sandboxRow # "deleted"
    /\ sandboxRow' = "deleted" /\ card' = "none" /\ fresh' = FALSE
    /\ UNCHANGED <<tunnels, handler, tunnelOpen, proxied>>

\* A restart of sandbox-proxy: what the row says stays.
ProxyRestart ==
    /\ tunnelOpen # {}
    /\ tunnels' = NoTunnel /\ tunnelOpen' = {}
    /\ handler' = [h \in Handlers |-> IF handler[h] = "none" THEN "none" ELSE "done"]
    /\ proxied' = [q \in Proxied |-> IF proxied[q] \in Handlers THEN "failed"
                                     ELSE proxied[q]]
    /\ UNCHANGED <<sandboxRow, fresh, card>>

-----------------------------------------------------------------------------
HandlerStep(h) ==
    \/ RegisterTunnel(h) \/ MarkRunning(h) \/ UnregisterTunnel(h) \/ MarkOffline(h)

TunnelNext ==
    \/ \E h \in Handlers : \/ NewTunnel(h) \/ Heartbeat(h) \/ TunnelBreaks(h)
                           \/ AgentInfo(h) \/ HandlerStep(h)
    \/ \E q \in Proxied : OpenStream(q) \/ AgentResponds(q) \/ StreamEnds(q)
    \/ GoStale \/ MarkStale \/ RegisterCard \/ DeleteLocalSandbox \/ ProxyRestart

TunnelSpec == TunnelInit /\ [][TunnelNext]_tunnelVars

-----------------------------------------------------------------------------
(* Properties *)

TunnelTypeOK ==
    /\ tunnels \in Handlers \cup {NoTunnel}
    /\ handler \in [Handlers -> {"none", "accepted", "registered", "serving",
                                 "offlining", "done"}]
    /\ tunnelOpen \subseteq Handlers
    /\ proxied \in [Proxied -> Handlers \cup {NoTunnel, "answered", "failed"}]
    /\ sandboxRow \in {"running", "offline", "deleted"}
    /\ fresh \in BOOLEAN /\ card \in {"none", "available", "offline"}

\* An open tunnel that was registered is the one requests are proxied to: a
\* reconnecting agent leaves no second tunnel, whose requests would wait for an
\* agent that answers elsewhere, and a late handler of the old one does not take
\* the new one away (Registry.Register, Registry.Unregister).
OpenIsActive ==
    \A h \in tunnelOpen :
        handler[h] \in {"registered", "serving"} => tunnels = h

=============================================================================
