------------------------------ MODULE ImTyping ------------------------------
(***************************************************************************)
(* The typing indicators of one IM channel: the poll loop that forwards a  *)
(* message and then shows the indicator to its sender, the answers that    *)
(* agentserver sends and that stop it, and its deadline of 60 minutes,     *)
(* after which the sender is told that the answer timed out.               *)
(***************************************************************************)
EXTENDS Naturals

CONSTANTS
    Senders,       \* users who write in the channel
    Room,          \* the group: an answer may be addressed to it
    MaxTexts       \* bound: messages

ASSUME TypingAssumption == Room \notin Senders /\ MaxTexts \in Nat

VARIABLES
    texts,          \* messages forwarded
    forwarding,     \* the poll loop: its step, and the sender it is at
    owed,           \* per sender, turns of codex that have not answered
    typingSessions, \* b.typingSessions: the indicator of a sender, 0: none
    indicator,      \* per indicator: its state and its sender
    answered        \* history: indicators whose sender was answered while they ran

typingVars == <<texts, forwarding, owed, typingSessions, indicator, answered>>

Indicators == 1..MaxTexts

TypingInit ==
    /\ texts = 0
    /\ forwarding = [pc |-> "poll", sender |-> Room]
    /\ owed = [u \in Senders |-> 0]
    /\ typingSessions = [u \in Senders |-> 0]
    /\ indicator = [s \in Indicators |-> [pc |-> "none", sender |-> Room]]
    /\ answered = {}

\* codex accepts the message and answers later; openclaw has answered when the
\* call returns; a call that fails starts no indicator.
ForwardText(u) ==
    /\ forwarding.pc = "poll"
    /\ texts < MaxTexts
    /\ texts' = texts + 1
    /\ \/ /\ owed' = [owed EXCEPT ![u] = @ + 1]
          /\ forwarding' = [pc |-> "show", sender |-> u]
       \/ /\ UNCHANGED owed
          /\ forwarding' = [pc |-> "show", sender |-> u]
       \/ UNCHANGED <<owed, forwarding>>
    /\ UNCHANGED <<typingSessions, indicator, answered>>

WithoutIndicators(s) ==
    [i \in Indicators |-> IF i \in s /\ indicator[i].pc = "live"
                          THEN [indicator[i] EXCEPT !.pc = "cancelled"] ELSE indicator[i]]

\* Mutant: the indicator runs before its cancel function is in the map.
ShowThenRegister ==
    LET u == forwarding.sender
        s == CHOOSE i \in Indicators : \A j \in Indicators :
                indicator[j].pc = "none" => indicator[i].pc = "none" /\ i <= j
        last == CHOOSE i \in Indicators : /\ indicator[i].pc # "none"
                                          /\ i = MaxTexts \/ indicator[i + 1].pc = "none"
    IN /\ \/ /\ forwarding.pc = "show"
             /\ indicator' = [WithoutIndicators({typingSessions[u]})
                                EXCEPT ![s] = [pc |-> "live", sender |-> u]]
             /\ forwarding' = [forwarding EXCEPT !.pc = "poll"]
             /\ UNCHANGED typingSessions
          \/ /\ forwarding.pc = "poll" /\ u # Room
             /\ typingSessions' = [typingSessions EXCEPT ![u] = last]
             /\ forwarding' = [pc |-> "poll", sender |-> Room]
             /\ UNCHANGED indicator
       /\ UNCHANGED <<texts, owed, answered>>

\* startTypingForUser: the one that runs is cancelled, the new one registered and
\* then started.
ShowTyping ==
    LET u == forwarding.sender
        s == CHOOSE i \in Indicators : \A j \in Indicators :
                indicator[j].pc = "none" => indicator[i].pc = "none" /\ i <= j
    IN /\ forwarding.pc = "show"
       /\ indicator' = [WithoutIndicators({typingSessions[u]})
                          EXCEPT ![s] = [pc |-> "live", sender |-> u]]
       /\ typingSessions' = [typingSessions EXCEPT ![u] = s]
       /\ forwarding' = [pc |-> "poll", sender |-> Room]
       /\ UNCHANGED <<texts, owed, answered>>

\* The senders whose indicators an answer stops: that of its addressee or, when
\* it has none, all of the channel.
Stopped(to) ==
    IF to \in Senders /\ typingSessions[to] # 0 THEN {to} ELSE Senders

StopTyping(us) ==
    /\ indicator' = WithoutIndicators({typingSessions[u] : u \in us})
    /\ typingSessions' = [u \in Senders |-> IF u \in us THEN 0 ELSE typingSessions[u]]

\* A turn answers, with a text or an image, to its sender or to the group. The
\* indicators stop whether or not the guardrails let the answer pass.
DirectSend(u) ==
    /\ owed[u] > 0
    /\ owed' = [owed EXCEPT ![u] = @ - 1]
    /\ \E to \in {u, Room} :
          /\ StopTyping(Stopped(to))
          /\ answered' = answered \cup {i \in Indicators :
                indicator[i].pc = "live" /\ (to = Room \/ indicator[i].sender = to)}
    /\ UNCHANGED <<texts, forwarding>>

\* The deadline of an indicator that was not cancelled; its entry stays.
TimesOut(s) ==
    /\ indicator[s].pc = "live"
    /\ indicator' = [indicator EXCEPT ![s].pc = "told"]
    /\ UNCHANGED <<texts, forwarding, owed, typingSessions, answered>>

\* StopAllPollers, on shutdown.
StopAllTyping ==
    /\ StopTyping(Senders)
    /\ UNCHANGED <<texts, forwarding, owed, answered>>

TypingNext ==
    \/ \E u \in Senders : ForwardText(u) \/ DirectSend(u)
    \/ ShowTyping
    \/ \E s \in Indicators : TimesOut(s)
    \/ StopAllTyping

TypingSpec == TypingInit /\ [][TypingNext]_typingVars

TypingTypeOK ==
    /\ texts \in 0..MaxTexts
    /\ forwarding \in [pc : {"poll", "show"}, sender : Senders \cup {Room}]
    /\ owed \in [Senders -> 0..MaxTexts]
    /\ typingSessions \in [Senders -> 0..MaxTexts]
    /\ indicator \in [Indicators -> [pc : {"none", "live", "cancelled", "told"},
                                     sender : Senders \cup {Room}]]
    /\ answered \subseteq Indicators

\* "Register cancel in map BEFORE starting the typing goroutine, so StopTyping can
\* find it even if a reply arrives quickly" (bridge.go:246): a sender is told that
\* the answer timed out only if none came while the indicator ran, although
\* messages, answers to a sender and answers to the group come in any order.
ToldMeansUnanswered == \A s \in Indicators : indicator[s].pc = "told" => s \notin answered
=============================================================================
