------------------------------ MODULE ImBridge ------------------------------
(***************************************************************************)
(* One channel of the imbridge service that is polled (Telegram, Weixin or *)
(* Matrix): its row, the poll loops the bridge starts, replaces and stops, *)
(* the requests that configure, delete, restore and stop it, the restarts  *)
(* of the service, and how often each message of the channel has been      *)
(* handed to agentserver. Messages are numbered as they arrive; the cursor *)
(* is the number of the last one read, 0 for the empty string. What a      *)
(* message says, its routing to codex or openclaw, the sandbox it goes to  *)
(* and the typing indicator are left out.                                  *)
(***************************************************************************)
EXTENDS Naturals

CONSTANTS
    Loops,             \* goroutines of pollLoop that may be alive at once
    ChannelRequests,   \* requests under way at once
    NoLoop,            \* the poller of a channel that has none
    MaxMessages,       \* bound: messages that arrive
    MaxStarts,         \* bound: requests that configure or restore
    MaxReboots         \* bound: restarts of the service

ASSUME BridgeAssumption ==
    /\ NoLoop \notin Loops
    /\ MaxMessages \in Nat /\ MaxStarts \in Nat /\ MaxReboots \in Nat

VARIABLES
    channel,         \* the row: here, whether it has a bot_token, cursor
    arrived,         \* messages the provider has for the channel
    loop,            \* per goroutine: step, cancelled, cursor, next, to
    poller,          \* b.pollers: the loop whose cancel the bridge holds
    channelRequest,  \* per request: its step, and the cursor it will start with
    starts, reboots,
    handed,          \* history: per message, times agentserver took it, up to 2
    top,             \* history: the highest cursor a loop has moved to
    rewound          \* history: messages up to top that a later loop began before

bridgeVars == <<channel, arrived, loop, poller, channelRequest, starts, reboots,
                handed, top, rewound>>

Numbers == 1..MaxMessages

NoPollLoop == [pc |-> "ended", cancelled |-> FALSE, cursor |-> 0, next |-> 0, to |-> 0]
NoRequest == [pc |-> "idle", cursor |-> 0]

BridgeInit ==
    /\ channel = [here |-> "new", token |-> FALSE, cursor |-> 0]
    /\ arrived = 0
    /\ loop = [l \in Loops |-> NoPollLoop]
    /\ poller = NoLoop
    /\ channelRequest = [x \in ChannelRequests |-> NoRequest]
    /\ starts = 0 /\ reboots = 0
    /\ handed = [m \in Numbers |-> 0]
    /\ top = 0
    /\ rewound = {}

MessageArrives ==
    /\ arrived < MaxMessages
    /\ arrived' = arrived + 1
    /\ UNCHANGED <<channel, loop, poller, channelRequest, starts, reboots, handed, top, rewound>>

-----------------------------------------------------------------------------
(* The bridge *)

Cancelled(old) == IF old = NoLoop THEN loop ELSE [loop EXCEPT ![old].cancelled = TRUE]

\* In one step under the lock: the loop that runs is cancelled, not awaited,
\* and another starts with the cursor of the binding. l is not in use.
StartPoller(l, cursor) ==
    /\ loop[l].pc = "ended"
    /\ loop' = [Cancelled(poller) EXCEPT
                  ![l] = [NoPollLoop EXCEPT !.pc = "poll", !.cursor = cursor]]
    /\ poller' = l
    /\ rewound' = rewound \cup {m \in Numbers : cursor < m /\ m <= top}

StopPoller ==
    /\ loop' = Cancelled(poller)
    /\ poller' = NoLoop

\* The check of the context at the head of the loop, or a poll it cut short.
LoopEnds(l) ==
    /\ loop[l].pc = "poll"
    /\ loop[l].cancelled
    /\ loop' = [loop EXCEPT ![l] = NoPollLoop]
    /\ UNCHANGED <<channel, arrived, poller, channelRequest, starts, reboots, handed, top, rewound>>

\* The provider answers what is after the cursor. The answer may be there when
\* the context is cancelled. A poll that fails or asks to wait changes nothing.
PollProvider(l) ==
    /\ loop[l].pc = "poll"
    /\ \E to \in loop[l].cursor + 1 .. arrived :
          loop' = [loop EXCEPT ![l].pc = "advance", ![l].to = to]
    /\ UNCHANGED <<channel, arrived, poller, channelRequest, starts, reboots, handed, top, rewound>>

\* The cursor moves and is saved before the messages go on. An error of the
\* save is logged; a row that is gone takes no update; the context is not asked.
AdvanceCursor(l) ==
    LET to == loop[l].to IN
    /\ loop[l].pc = "advance"
    /\ loop' = [loop EXCEPT ![l].pc = "forward", ![l].cursor = to,
                            ![l].next = loop[l].cursor + 1]
    /\ \/ /\ channel.here = "yes"
          /\ channel' = [channel EXCEPT !.cursor = to]
       \/ UNCHANGED channel
    /\ top' = IF to > top THEN to ELSE top
    /\ UNCHANGED <<arrived, poller, channelRequest, starts, reboots, handed, rewound>>

\* What the loop is after the message it had: at its next one, or polling.
AfterMessage(l) ==
    IF loop[l].next = loop[l].to
    THEN [NoPollLoop EXCEPT !.pc = "poll", !.cancelled = loop[l].cancelled,
                            !.cursor = loop[l].cursor]
    ELSE [loop[l] EXCEPT !.next = @ + 1]

Hand(l) == handed' = [handed EXCEPT ![loop[l].next] = IF @ < 2 THEN @ + 1 ELSE @]

\* Mutant: the request is made under a context of its own.
ForwardDetached(l) ==
    /\ loop[l].pc = "forward"
    /\ Hand(l) \/ UNCHANGED handed
    /\ loop' = [loop EXCEPT ![l] = AfterMessage(l)]
    /\ UNCHANGED <<channel, arrived, poller, channelRequest, starts, reboots, top, rewound>>

\* agentserver takes the message, whatever answer comes back, or the request
\* fails, as it does under a cancelled context. None is tried again.
ForwardMessage(l) ==
    /\ loop[l].pc = "forward"
    /\ \/ ~loop[l].cancelled /\ Hand(l)
       \/ UNCHANGED handed
    /\ loop' = [loop EXCEPT ![l] = AfterMessage(l)]
    /\ UNCHANGED <<channel, arrived, poller, channelRequest, starts, reboots, top, rewound>>

-----------------------------------------------------------------------------
(* Requests *)

StartRequest(x) == channelRequest[x].pc = "idle" /\ starts < MaxStarts /\ starts' = starts + 1

Goes(x, pc, cursor) == channelRequest' = [channelRequest EXCEPT ![x] = [pc |-> pc, cursor |-> cursor]]

\* CreateIMChannel keeps the token and the cursor of a row that is there. A
\* channel that was deleted comes back under another id, which is not this one.
CreateIMChannel(x) ==
    /\ StartRequest(x)
    /\ channel.here # "gone"
    /\ channel' = [channel EXCEPT !.here = "yes"]
    /\ Goes(x, "save", 0)
    /\ UNCHANGED <<arrived, loop, poller, reboots, handed, top, rewound>>

\* An UPDATE of a row that is gone is no error; a failed one ends the request.
SaveCredentials(x) ==
    /\ channelRequest[x].pc = "save"
    /\ \/ /\ channel' = [channel EXCEPT !.token = (channel.here = "yes")]
          /\ Goes(x, "start", 0)
       \/ UNCHANGED channel /\ Goes(x, "idle", 0)
    /\ UNCHANGED <<arrived, loop, poller, starts, reboots, handed, top, rewound>>

\* A sandbox of the channel has resumed: the cursor is read now and used later.
ReadForRestore(x) ==
    /\ StartRequest(x)
    /\ channel.here = "yes"
    /\ Goes(x, "start", channel.cursor)
    /\ UNCHANGED <<channel, arrived, loop, poller, reboots, handed, top, rewound>>

RequestStarts(x) ==
    /\ channelRequest[x].pc = "start"
    /\ \E l \in Loops : StartPoller(l, channelRequest[x].cursor)
    /\ Goes(x, "idle", 0)
    /\ UNCHANGED <<channel, arrived, starts, reboots, handed, top>>

\* The row was there when the request read it.
StopForDelete(x) ==
    /\ channelRequest[x].pc = "idle"
    /\ channel.here = "yes"
    /\ StopPoller
    /\ Goes(x, "delete", 0)
    /\ UNCHANGED <<channel, arrived, starts, reboots, handed, top, rewound>>

DeleteIMChannel(x) ==
    /\ channelRequest[x].pc = "delete"
    /\ \/ channel' = [here |-> "gone", token |-> FALSE, cursor |-> 0]
       \/ UNCHANGED channel
    /\ Goes(x, "idle", 0)
    /\ UNCHANGED <<arrived, loop, poller, starts, reboots, handed, top, rewound>>

StopRequested ==
    /\ poller # NoLoop
    /\ StopPoller
    /\ UNCHANGED <<channel, arrived, channelRequest, starts, reboots, handed, top, rewound>>

\* The service stops, at any step of any loop, and comes back: RestorePollers
\* starts the channels that have a token before the first request is served.
Reboot ==
    /\ reboots < MaxReboots
    /\ reboots' = reboots + 1
    /\ channelRequest' = [x \in ChannelRequests |-> NoRequest]
    /\ IF channel.token
       THEN \E l \in Loops :
              /\ loop' = [k \in Loops |-> IF k = l
                            THEN [NoPollLoop EXCEPT !.pc = "poll", !.cursor = channel.cursor]
                            ELSE NoPollLoop]
              /\ poller' = l
              /\ rewound' = rewound \cup {m \in Numbers : channel.cursor < m /\ m <= top}
       ELSE /\ loop' = [l \in Loops |-> NoPollLoop]
            /\ poller' = NoLoop
            /\ UNCHANGED rewound
    /\ UNCHANGED <<channel, arrived, starts, handed, top>>

-----------------------------------------------------------------------------

BridgeNext ==
    \/ MessageArrives
    \/ \E l \in Loops : LoopEnds(l) \/ PollProvider(l) \/ AdvanceCursor(l) \/ ForwardMessage(l)
    \/ \E x \in ChannelRequests :
          \/ CreateIMChannel(x) \/ SaveCredentials(x)
          \/ ReadForRestore(x) \/ RequestStarts(x)
          \/ StopForDelete(x) \/ DeleteIMChannel(x)
    \/ StopRequested
    \/ Reboot

BridgeSpec == BridgeInit /\ [][BridgeNext]_bridgeVars

-----------------------------------------------------------------------------

BridgeTypeOK ==
    /\ channel \in [here : {"new", "yes", "gone"}, token : BOOLEAN, cursor : 0..MaxMessages]
    /\ arrived \in 0..MaxMessages
    /\ loop \in [Loops -> [pc : {"ended", "poll", "advance", "forward"}, cancelled : BOOLEAN,
                           cursor : 0..MaxMessages, next : 0..MaxMessages,
                           to : 0..MaxMessages]]
    /\ poller \in Loops \cup {NoLoop}
    /\ channelRequest \in [ChannelRequests -> [pc : {"idle", "save", "start", "delete"},
                                 cursor : 0..MaxMessages]]
    /\ handed \in [Numbers -> 0..2]
    /\ rewound \subseteq Numbers

\* "Advance cursor BEFORE forwarding (at-most-once delivery)" (bridge.go:378):
\* whatever restarts, replacements and stops come between, a message reaches
\* agentserver once at most, unless a loop began with a cursor older than one
\* a loop had reached: that of a channel configured again, one read before its
\* row moved, or one whose save had failed.
AtMostOnce == \A m \in Numbers : handed[m] > 1 => m \in rewound
=============================================================================
