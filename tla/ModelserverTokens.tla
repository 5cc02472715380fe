-------------------------- MODULE ModelserverTokens -------------------------
(***************************************************************************)
(* The tokens of the model server in llmproxy. A request of a workspace    *)
(* that is connected to the model server is forwarded with a token of that *)
(* connection. The proxy asks agentserver for one and keeps it for some    *)
(* minutes; requests that find none that will do each ask for themselves.  *)
(* The connection is of ModelServer: an owner may replace it at any time.  *)
(***************************************************************************)
EXTENDS Naturals

CONSTANTS
    Forwards,       \* requests under way
    TokenTTL,       \* ticks for which a cached token is taken
    TokenMargin,    \* ticks a cached token must have left
    TokenLives,     \* ticks the token agentserver gives may have left
    MaxConnections  \* bound: connections of the workspace, one after the other

ASSUME ModelserverTokensAssumption ==
    /\ TokenTTL \in Nat /\ TokenMargin \in Nat \ {0} /\ MaxConnections \in Nat
    /\ TokenLives \subseteq Nat \ {0}

VARIABLES
    msConnection,   \* the number of the connection; 0 is none
    replaced,       \* history: per connection, ticks since it was replaced
    msToken,        \* modelserverTokenCache: connection, ticks since stored, ticks left
    forward         \* per request: its step and token

tokenVars == <<msConnection, replaced, msToken, forward>>

NoToken == [of |-> 0, age |-> 0, left |-> 0]
NoForward == [pc |-> "idle", token |-> NoToken]

TokensInit ==
    /\ msConnection = 0
    /\ replaced = [c \in 1..MaxConnections |-> 0]
    /\ msToken = NoToken
    /\ forward = [f \in Forwards |-> NoForward]

ForwardAt(f, pc) == forward[f].pc = pc
ForwardGoes(f, pc, token) == forward' = [forward EXCEPT ![f] = [pc |-> pc, token |-> token]]

\* Mutant: a cached token is taken until it ends.
CachedWhileValid == msToken.of > 0 /\ msToken.left >= TokenMargin

\* Mutant: a cached token is taken up to its last moment.
CachedToTheEnd == msToken.of > 0 /\ msToken.age <= TokenTTL

\* Get: not too long ago, and not about to end.
Cached ==
    /\ msToken.of > 0
    /\ msToken.age <= TokenTTL
    /\ msToken.left >= TokenMargin

\* A request that was told by agentserver to go to the model server; the
\* connection may have gone since.
FetchModelserverToken(f) ==
    /\ ForwardAt(f, "idle")
    /\ IF Cached THEN ForwardGoes(f, "forward", msToken) ELSE ForwardGoes(f, "ask", NoToken)
    /\ UNCHANGED <<msConnection, replaced, msToken>>

\* agentserver answers with a token of the connection it has now, or with an
\* error.
AskModelserverToken(f) ==
    /\ ForwardAt(f, "ask")
    /\ \/ ForwardGoes(f, "idle", NoToken)
       \/ \E left \in TokenLives :
            /\ msConnection > 0
            /\ ForwardGoes(f, "store", [of |-> msConnection, age |-> 0, left |-> left])
    /\ UNCHANGED <<msConnection, replaced, msToken>>

\* Whoever stores last has its token cached.
StoreModelserverToken(f) ==
    /\ ForwardAt(f, "store")
    /\ ForwardGoes(f, "forward", forward[f].token)
    /\ msToken' = forward[f].token
    /\ UNCHANGED <<msConnection, replaced>>

Forwarded(f) ==
    /\ ForwardAt(f, "forward")
    /\ ForwardGoes(f, "idle", NoToken)
    /\ UNCHANGED <<msConnection, replaced, msToken>>

\* The owner connects the workspace anew; agentserver has forgotten the old
\* connection.
ReplaceConnection ==
    /\ msConnection < MaxConnections
    /\ msConnection' = msConnection + 1
    /\ UNCHANGED <<replaced, msToken, forward>>

Least(m, n) == IF m <= n THEN m ELSE n
Older(t) ==
    IF t.of = 0 THEN t
    ELSE [t EXCEPT !.age = Least(@ + 1, TokenTTL + 1), !.left = IF @ = 0 THEN 0 ELSE @ - 1]

\* A tick is longer than the five seconds a call of agentserver may take.
Tick ==
    /\ \A f \in Forwards : ForwardAt(f, "idle")
    /\ msToken' = Older(msToken)
    /\ replaced' = [c \in 1..MaxConnections |->
         IF c < msConnection THEN Least(replaced[c] + 1, TokenTTL + 1) ELSE 0]
    /\ UNCHANGED <<msConnection, forward>>

TokensNext ==
    \/ \E f \in Forwards :
         \/ FetchModelserverToken(f) \/ AskModelserverToken(f)
         \/ StoreModelserverToken(f) \/ Forwarded(f)
    \/ ReplaceConnection \/ Tick

TokensSpec == TokensInit /\ [][TokensNext]_tokenVars

-----------------------------------------------------------------------------
(* Properties *)

TokensTypeOK ==
    /\ msConnection \in 0..MaxConnections
    /\ msToken.of \in 0..msConnection /\ msToken.age \in 0..(TokenTTL + 1)
    /\ \A f \in Forwards :
         /\ forward[f].pc \in {"idle", "ask", "store", "forward"}
         /\ forward[f].token.of \in 0..msConnection

\* The token that is forwarded to the model server has not ended, and it is of the
\* connection the workspace has or of one that was replaced no longer ago than a
\* cached token is taken, in whatever order concurrent fetches store theirs.
ForwardedIsCurrent ==
    \A f \in Forwards : ForwardAt(f, "forward") =>
        LET t == forward[f].token IN
        /\ t.left > 0
        /\ t.of = msConnection \/ replaced[t.of] <= TokenTTL
=============================================================================
