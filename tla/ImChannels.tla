------------------------------ MODULE ImChannels ------------------------------
(***************************************************************************)
(* The IM channels of workspaces: the rows, their bindings to sandboxes,   *)
(* the routing mode the bridge holds in memory, the requests that          *)
(* configure, bind, update, restore and delete channels, and the sandbox   *)
(* or workspace a message reaches. A bot may be configured in several      *)
(* workspaces. A row keeps its id until it is deleted; configured again,   *)
(* it gets another. Poll loops, cursors and the text of messages are left  *)
(* to ImBridge; sandboxes stay, and run.                                   *)
(***************************************************************************)
EXTENDS Naturals

CONSTANTS
    Tenants, Boxes,     \* workspaces; sandboxes
    OpenclawBoxes,      \* the sandboxes of type openclaw
    Bots, PushBots,     \* accounts at a provider; those whose messages come by webhook
    Channels,           \* ids of rows
    ImRequests,         \* requests under way at once
    NoBox,
    MaxAsked,           \* bound: requests
    MaxBoots            \* bound: restarts of the service

ASSUME ChannelsAssumption ==
    /\ OpenclawBoxes \subseteq Boxes /\ PushBots \subseteq Bots
    /\ NoBox \notin Boxes
    /\ MaxAsked \in Nat /\ MaxBoots \in Nat

VARIABLES
    home,        \* the workspace of a sandbox
    imRow,       \* workspace_im_channels: here, tenant, bot, token, mode, bound
    bindings,    \* sandbox_channel_bindings: for each pair, those bound before it
    routing,     \* b.channelRouting
    polled,      \* channels with a poller
    imRequest,   \* per request: step, box, channels, mode, pairs its DELETE saw
    asked, boots,
    stray,       \* history: channels whose modes in row and memory may differ
    crossed      \* history: a message went to a workspace it was not sent to

channelVars == <<home, imRow, bindings, routing, polled, imRequest, asked,
                 boots, stray, crossed>>

Modes == {"codex", "openclaw"}

NoRow == [here |-> "unborn", tenant |-> "", bot |-> "", token |-> FALSE,
          mode |-> "codex", bound |-> 0]

NoImRequest == [pc |-> "idle", box |-> NoBox, chans |-> {}, mode |-> "", seen |-> {}]

ChannelsInit ==
    /\ home \in [Boxes -> Tenants]
    /\ imRow = [c \in Channels |-> NoRow]
    /\ bindings = [p \in {} |-> {}]
    /\ routing = [c \in Channels |-> ""]
    /\ polled = {}
    /\ imRequest = [x \in ImRequests |-> NoImRequest]
    /\ asked = 0 /\ boots = 0
    /\ stray = {}
    /\ crossed = FALSE

-----------------------------------------------------------------------------
(* Rows and bindings *)

Here(c) == imRow[c].here = "yes"

Bound == DOMAIN bindings

PairsOfBox(b) == {p \in Bound : p[1] = b}
PairsOfChannel(c) == {p \in Bound : p[2] = c}

\* GetIMChannelForSandbox, GetSandboxForChannel: ORDER BY bound_at DESC LIMIT 1.
\* Pairs with the same time may each come out.
Latest(pairs) == {p \in pairs : \A q \in pairs : p \notin bindings[q]}

WithoutPairs(pairs) == [p \in Bound \ pairs |-> bindings[p] \ pairs]

\* ON CONFLICT DO NOTHING: a pair that is there keeps its time.
WithPairs(rows, new, before) ==
    [p \in DOMAIN rows \cup new |-> IF p \in DOMAIN rows THEN rows[p] ELSE before]

-----------------------------------------------------------------------------
(* Requests *)

Takes(x, r) == imRequest' = [imRequest EXCEPT ![x] = r]

Moves(x, pc) == Takes(x, [imRequest[x] EXCEPT !.pc = pc])

Ends(x) == Takes(x, NoImRequest)

Asks(x) == imRequest[x].pc = "idle" /\ asked < MaxAsked /\ asked' = asked + 1

Of(x) == CHOOSE c \in imRequest[x].chans : TRUE

\* The row of the bot in the workspace, or a row with a new id (which one is all
\* the same).
RowFor(t, bot, c) ==
    \/ Here(c) /\ imRow[c].tenant = t /\ imRow[c].bot = bot
    \/ /\ imRow[c].here = "unborn"
       /\ c = CHOOSE d \in Channels : imRow[d].here = "unborn"
       /\ \A d \in Channels : Here(d) => imRow[d].tenant # t \/ imRow[d].bot # bot

\* CreateIMChannel: the upsert moves bound_at of a row that is there, and nothing
\* else. The request goes on to save the credentials.
Upsert(x, t, bot, b) ==
    \E c \in Channels :
       /\ RowFor(t, bot, c)
       /\ imRow' = [imRow EXCEPT ![c].here = "yes", ![c].tenant = t, ![c].bot = bot,
                                 ![c].bound = asked + 1]
       /\ Takes(x, [NoImRequest EXCEPT !.pc = "save", !.box = b, !.chans = {c}])

\* A bot of Telegram or Matrix, for a sandbox that is bound to it at once.
ConfigureForSandbox(x) ==
    /\ Asks(x)
    /\ \E b \in Boxes, bot \in Bots \ PushBots : Upsert(x, home[b], bot, b)
    /\ UNCHANGED <<home, bindings, routing, polled, boots, stray, crossed>>

\* The same for a workspace.
ConfigureForWorkspace(x) ==
    /\ Asks(x)
    /\ \E t \in Tenants, bot \in Bots \ PushBots : Upsert(x, t, bot, NoBox)
    /\ UNCHANGED <<home, bindings, routing, polled, boots, stray, crossed>>

\* A number of WhatsApp, whose messages come through webhooks.
ConfigureWebhook(x) ==
    /\ Asks(x)
    /\ \E t \in Tenants, bot \in PushBots : Upsert(x, t, bot, NoBox)
    /\ UNCHANGED <<home, bindings, routing, polled, boots, stray, crossed>>

\* SaveIMChannelCredentials, or its failure.
SaveToken(x) ==
    /\ imRequest[x].pc = "save"
    /\ \/ /\ imRow' = [imRow EXCEPT ![Of(x)].token = Here(Of(x))]
          /\ IF imRow[Of(x)].bot \in PushBots THEN Ends(x)
             ELSE Moves(x, IF imRequest[x].box = NoBox THEN "start" ELSE "clear")
       \/ UNCHANGED imRow /\ Ends(x)
    /\ UNCHANGED <<home, bindings, routing, polled, asked, boots, stray, crossed>>

\* BindSandboxToChannel in one transaction: the rows its DELETE saw go, and its
\* own comes, with the time it began. A row that another transaction adds in
\* between stays, and was bound earlier or later.
ClearBindings(x) ==
    /\ imRequest[x].pc \in {"clear", "displace"}
    /\ Takes(x, [imRequest[x] EXCEPT
                   !.pc = IF @ = "clear" THEN "bind" ELSE "rebind",
                   !.seen = Bound])
    /\ UNCHANGED <<home, imRow, bindings, routing, polled, asked, boots,
                   stray, crossed>>

\* The foreign key refuses a channel that is gone.
CommitBinding(x) ==
    LET r == imRequest[x] IN
    /\ r.pc \in {"bind", "rebind"}
    /\ \/ /\ Here(Of(x))
          /\ bindings' = LET kept == WithoutPairs(r.seen \cap PairsOfChannel(Of(x)))
                         IN WithPairs(kept, {<<r.box, Of(x)>>}, DOMAIN kept \cap r.seen)
          /\ CASE r.pc = "bind" -> Takes(x, [r EXCEPT !.pc = "start", !.seen = {}])
               [] r.pc = "rebind" /\ r.box \in OpenclawBoxes ->
                     Takes(x, [r EXCEPT !.pc = "mode", !.mode = "openclaw", !.seen = {}])
               [] OTHER -> Ends(x)
       \/ UNCHANGED bindings /\ Ends(x)
    /\ UNCHANGED <<home, imRow, routing, polled, asked, boots, stray, crossed>>

\* StartPoller seeds the mode in memory: "" after a configure, the mode that was
\* read before a restore.
Start(x) ==
    LET c == Of(x) IN
    /\ imRequest[x].pc = "start"
    /\ polled' = polled \cup {c}
    /\ routing' = [routing EXCEPT ![c] = imRequest[x].mode]
    /\ stray' = stray \cup {c}
    /\ Ends(x)
    /\ UNCHANGED <<home, imRow, bindings, asked, boots, crossed>>

\* handleBindSandboxToChannel, after its checks.
BindRequest(x) ==
    /\ Asks(x)
    /\ \E b \in Boxes, c \in Channels :
          /\ Here(c) /\ imRow[c].tenant = home[b]
          /\ Takes(x, [NoImRequest EXCEPT !.pc = "displace", !.box = b, !.chans = {c}])
    /\ UNCHANGED <<home, imRow, bindings, routing, polled, boots, stray, crossed>>

\* Every channel of the list is looked up before any is bound.
BindMulti(x) ==
    /\ Asks(x)
    /\ \E b \in Boxes, cs \in SUBSET Channels \ {{}} :
          /\ \A c \in cs : Here(c) /\ imRow[c].tenant = home[b]
          /\ Takes(x, [NoImRequest EXCEPT !.pc = "insert", !.box = b, !.chans = cs])
    /\ UNCHANGED <<home, imRow, bindings, routing, polled, boots, stray, crossed>>

\* BindSandboxChannels: all of them or, when one is gone, none.
InsertBindings(x) ==
    LET r == imRequest[x] IN
    /\ r.pc = "insert"
    /\ \/ /\ \A c \in r.chans : Here(c)
          /\ bindings' = WithPairs(bindings, {<<r.box, c>> : c \in r.chans}, Bound)
       \/ UNCHANGED bindings
    /\ Ends(x)
    /\ UNCHANGED <<home, imRow, routing, polled, asked, boots, stray, crossed>>

\* Every binding of the sandbox goes.
UnbindRequest(x) ==
    /\ Asks(x)
    /\ \E b \in Boxes : bindings' = WithoutPairs(PairsOfBox(b))
    /\ UNCHANGED <<home, imRow, routing, polled, imRequest, boots, stray, crossed>>

-----------------------------------------------------------------------------
(* The routing mode *)

\* PATCH of a channel that was there when it was looked up.
UpdateRequest(x) ==
    /\ Asks(x)
    /\ \E c \in Channels, m \in Modes :
          /\ Here(c)
          /\ Takes(x, [NoImRequest EXCEPT !.pc = "update", !.chans = {c}, !.mode = m])
    /\ UNCHANGED <<home, imRow, bindings, routing, polled, boots, stray, crossed>>

Overlapped(x) == \E y \in ImRequests \ {x} : imRequest[y].pc = "apply" /\ Of(y) = Of(x)

\* The row comes first. A PATCH whose UPDATE fails stops; a bind logs and goes on.
SetRowMode(x) ==
    LET r == imRequest[x]
        c == Of(x)
    IN /\ r.pc \in {"update", "mode"}
       /\ \/ /\ imRow' = [imRow EXCEPT ![c].mode = IF Here(c) THEN r.mode ELSE @]
             /\ Moves(x, "apply")
             /\ stray' = IF Overlapped(x) THEN stray \cup {c} ELSE stray \ {c}
          \/ /\ UNCHANGED imRow
             /\ IF r.pc = "update" THEN Ends(x) /\ UNCHANGED stray
                ELSE Moves(x, "apply") /\ stray' = stray \cup {c}
       /\ UNCHANGED <<home, bindings, routing, polled, asked, boots, crossed>>

SetChannelRoutingMode(x) ==
    /\ imRequest[x].pc = "apply"
    /\ routing' = [routing EXCEPT ![Of(x)] = imRequest[x].mode]
    /\ Ends(x)
    /\ UNCHANGED <<home, imRow, bindings, polled, asked, boots, stray, crossed>>

-----------------------------------------------------------------------------
(* Deletion, restore, restart *)

\* DELETE of a channel: the poller stops first.
DeleteRequest(x) ==
    /\ Asks(x)
    /\ \E c \in Channels :
          /\ Here(c)
          /\ polled' = polled \ {c}
          /\ Takes(x, [NoImRequest EXCEPT !.pc = "delete", !.chans = {c}])
    /\ UNCHANGED <<home, imRow, bindings, routing, boots, stray, crossed>>

\* A sandbox is disconnected from the channel it was bound to last.
DisconnectRequest(x) ==
    /\ Asks(x)
    /\ \E b \in Boxes : \E p \in Latest(PairsOfBox(b)) :
          LET c == p[2] IN
          /\ imRow[c].bot \notin PushBots
          /\ polled' = polled \ {c}
          /\ Takes(x, [NoImRequest EXCEPT !.pc = "unbind", !.box = b, !.chans = {c}])
    /\ UNCHANGED <<home, imRow, bindings, routing, boots, stray, crossed>>

\* Whatever became of the unbinding, the channel is deleted next.
UnbindForDelete(x) ==
    /\ imRequest[x].pc = "unbind"
    /\ bindings' \in {bindings, WithoutPairs(PairsOfBox(imRequest[x].box))}
    /\ Moves(x, "delete")
    /\ UNCHANGED <<home, imRow, routing, polled, asked, boots, stray, crossed>>

\* The bindings of the channel go with its row.
DeleteRow(x) ==
    LET c == Of(x) IN
    /\ imRequest[x].pc = "delete"
    /\ \/ /\ imRow' = [imRow EXCEPT ![c] = [@ EXCEPT !.here = "gone", !.token = FALSE]]
          /\ bindings' = WithoutPairs(PairsOfChannel(c))
       \/ UNCHANGED <<imRow, bindings>>
    /\ Ends(x)
    /\ UNCHANGED <<home, routing, polled, asked, boots, stray, crossed>>

\* A sandbox has resumed: its channel is read now and started later.
RestoreRequest(x) ==
    /\ Asks(x)
    /\ \E b \in Boxes : \E p \in Latest(PairsOfBox(b)) :
          LET c == p[2] IN
          Takes(x, [NoImRequest EXCEPT !.pc = "start", !.chans = {c}, !.mode = imRow[c].mode])
    /\ UNCHANGED <<home, imRow, bindings, routing, polled, boots, stray, crossed>>

\* RestorePollers starts every channel with a token under the mode of its row.
RestorePollers ==
    /\ boots < MaxBoots
    /\ boots' = boots + 1
    /\ imRequest' = [x \in ImRequests |-> NoImRequest]
    /\ polled' = {c \in Channels : Here(c) /\ imRow[c].token}
    /\ routing' = [c \in Channels |-> IF c \in polled' THEN imRow[c].mode ELSE ""]
    /\ stray' = {c \in Channels : Here(c) /\ ~imRow[c].token}
    /\ UNCHANGED <<home, imRow, bindings, asked, crossed>>

-----------------------------------------------------------------------------
(* Messages *)

\* The mode of memory wins over that of the binding, which is the mode the loop
\* was started with or, for a webhook, that of the row.
ModeOf(c) ==
    IF routing[c] # "" THEN routing[c]
    ELSE IF imRow[c].bot \in PushBots THEN imRow[c].mode ELSE "codex"

\* A turn of openclaw runs in the sandbox of the channel, one of codex in the
\* workspace of the channel.
Receiver(c) ==
    IF ModeOf(c) = "codex" THEN {imRow[c].tenant}
    ELSE {home[p[1]] : p \in Latest(PairsOfChannel(c))}

Deliver(c, t) ==
    /\ crossed' = (crossed \/ \E got \in Receiver(c) : got # t)
    /\ UNCHANGED <<home, imRow, bindings, routing, polled, imRequest, asked, boots,
                   stray>>

PolledMessage ==
    \E c \in polled : /\ Here(c) /\ imRow[c].bot \notin PushBots
                      /\ Deliver(c, imRow[c].tenant)

\* Mutant: the webhook of a workspace looks the number up like the global one.
WebhookAnyTenant ==
    \E t \in Tenants, c \in Channels :
       /\ Here(c) /\ imRow[c].bot \in PushBots
       /\ \A d \in Channels : Here(d) /\ imRow[d].bot = imRow[c].bot
                                 => imRow[c].bound <= imRow[d].bound
       /\ Deliver(c, t)

\* The webhook of a workspace: the row of the number in that workspace.
WorkspaceWebhook ==
    \E t \in Tenants, c \in Channels :
       /\ Here(c) /\ imRow[c].bot \in PushBots /\ imRow[c].tenant = t
       /\ Deliver(c, t)

\* The global webhook names no workspace: the row bound first takes the message.
GlobalWebhook ==
    \E c \in Channels :
       /\ Here(c) /\ imRow[c].bot \in PushBots
       /\ \A d \in Channels : Here(d) /\ imRow[d].bot = imRow[c].bot
                                 => imRow[c].bound <= imRow[d].bound
       /\ Deliver(c, imRow[c].tenant)

-----------------------------------------------------------------------------

ChannelsNext ==
    \/ \E x \in ImRequests :
          \/ ConfigureForSandbox(x) \/ ConfigureForWorkspace(x) \/ ConfigureWebhook(x)
          \/ SaveToken(x) \/ ClearBindings(x) \/ CommitBinding(x) \/ Start(x)
          \/ BindRequest(x) \/ BindMulti(x) \/ InsertBindings(x) \/ UnbindRequest(x)
          \/ UpdateRequest(x) \/ SetRowMode(x) \/ SetChannelRoutingMode(x)
          \/ DeleteRequest(x) \/ DisconnectRequest(x) \/ UnbindForDelete(x)
          \/ DeleteRow(x) \/ RestoreRequest(x)
    \/ RestorePollers
    \/ PolledMessage \/ WorkspaceWebhook \/ GlobalWebhook

ChannelsSpec == ChannelsInit /\ [][ChannelsNext]_channelVars

-----------------------------------------------------------------------------

ChannelsTypeOK ==
    /\ home \in [Boxes -> Tenants]
    /\ \A c \in Channels : /\ imRow[c].here \in {"unborn", "yes", "gone"}
                           /\ imRow[c].token \in BOOLEAN
                           /\ imRow[c].mode \in Modes
    /\ Bound \subseteq Boxes \X Channels
    /\ routing \in [Channels -> Modes \cup {""}]
    /\ polled \subseteq Channels
    /\ \A x \in ImRequests : /\ imRequest[x].box \in Boxes \cup {NoBox}
                             /\ imRequest[x].chans \subseteq Channels
    /\ stray \subseteq Channels

\* "messages from workspace A never reach workspace B" (handlers.go:1444): the
\* workspace of a webhook or of a poll loop is the one whose codex or whose
\* sandbox takes the message, although bots are shared by workspaces, and
\* channels are checked, deleted and created again before they are bound.
NeverCrosses == ~crossed

\* "persist it and apply the in-memory override so the already-running poller
\* picks it up" (handlers.go:731): when no change of the mode is under way, the
\* bridge routes by the mode of the row, unless a poller was started since, two
\* changes of it overlapped, or the row of a bind was not written.
RoutingFollowsRow ==
    \A c \in Channels :
       Here(c) /\ c \notin stray /\ (\A x \in ImRequests : imRequest[x].pc # "apply")
       => ModeOf(c) = imRow[c].mode

\* A message goes to its own workspace, and there where its channel's row says.
ChannelsSound == NeverCrosses /\ RoutingFollowsRow
=============================================================================
