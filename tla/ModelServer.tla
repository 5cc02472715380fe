---------------------------- MODULE ModelServer ----------------------------
(***************************************************************************)
(* The connection of one workspace to a project of ModelServer: the OAuth  *)
(* dance in a maintainer's browser, the row with the tokens, and their     *)
(* refresh by the replicas of agentserver. The code allows for both kinds  *)
(* of refresh token: one that is replaced on every use, and one that stays.*)
(* A grant stands for the project that was selected: every consent is for  *)
(* another one. The row is beside the workspace's own LLM configuration.   *)
(***************************************************************************)
EXTENDS Integers, FiniteSets

CONSTANTS
    Tabs,           \* tabs of the browser in which a connection is begun
    Grants,         \* bound: consents that are given
    Replicas,       \* processes of agentserver, each with its singleflight
    NoGrant,
    MaxRotations    \* bound: refresh tokens that one grant hands out

ASSUME ModelServerAssumption ==
    NoGrant \notin Grants /\ MaxRotations \in Nat /\ MaxRotations > 0

VARIABLES
    cookie,     \* the tab whose state the browser's cookies hold, or NoTab
    dance,      \* per tab: its step and the grant it was given
    connection, \* the row: project, owner and number of its tokens, validity
    byok,       \* the workspace has an LLM configuration of its own
    rotates,    \* ModelServer gives a new refresh token on every use
    current,    \* at ModelServer: the refresh token of each grant, 0 if none
    flight,     \* per replica: the refresh that its singleflight runs
    connected,  \* what the maintainers asked for last
    lostToken,  \* a refreshed token did not reach the row
    overtaken   \* a refresh wrote into a row that was replaced meanwhile

danceVars == <<cookie, dance>>
refreshVars == <<rotates, current, flight, lostToken>>
modelServerVars == <<danceVars, refreshVars, connection, byok, connected, overtaken>>

NoTab == "none"
NoConnection == [project |-> NoGrant, owner |-> NoGrant, token |-> 0, valid |-> FALSE]
NewDance == [pc |-> "idle", grant |-> NoGrant]
NoFlight == [pc |-> "idle", owner |-> NoGrant, token |-> 0]

Given == {g \in Grants : current[g] # 0}

ModelServerInit ==
    /\ cookie = NoTab /\ dance = [t \in Tabs |-> NewDance]
    /\ connection = NoConnection /\ byok \in BOOLEAN
    /\ rotates \in BOOLEAN /\ current = [g \in Grants |-> 0]
    /\ flight = [r \in Replicas |-> NoFlight]
    /\ connected = FALSE /\ lostToken = FALSE /\ overtaken = FALSE

-----------------------------------------------------------------------------
(* The dance *)

DanceStep(t, from, to) ==
    /\ dance[t].pc = from
    /\ dance' = [dance EXCEPT ![t].pc = to]

\* handleModelserverConnect: the cookies of a tab replace those of another.
BeginConnection(t) ==
    /\ DanceStep(t, "idle", "asked") /\ cookie' = t
    /\ UNCHANGED <<refreshVars, connection, byok, connected, overtaken>>

\* handleModelserverCallback clears the cookies before it compares the state.
Callback(t) ==
    /\ DanceStep(t, "asked", IF cookie = t THEN "exchange" ELSE "idle")
    /\ cookie' = NoTab
    /\ UNCHANGED <<refreshVars, connection, byok, connected, overtaken>>

\* The user declines, has lost the role, or an exchange or introspection fails.
CallbackFails(t) ==
    /\ dance[t].pc \in {"exchange", "supersede"}
    /\ dance' = [dance EXCEPT ![t] = NewDance]
    /\ UNCHANGED <<cookie, refreshVars, connection, byok, connected, overtaken>>

ExchangeCode(t) ==
    /\ dance[t].pc = "exchange"
    /\ \E g \in Grants \ Given :
          /\ current' = [current EXCEPT ![g] = 1]
          /\ dance' = [dance EXCEPT ![t] = [pc |-> "supersede", grant |-> g]]
    /\ UNCHANGED <<cookie, rotates, flight, lostToken, connection, byok, connected, overtaken>>

\* The error of this DELETE is only logged.
SupersedeBYOK(t) ==
    /\ DanceStep(t, "supersede", "save") /\ byok' \in {byok, FALSE}
    /\ UNCHANGED <<cookie, refreshVars, connection, connected, overtaken>>

\* SetModelserverConnection; without the write the grant is given in vain.
SaveConnection(t) ==
    /\ dance[t].pc = "save"
    /\ dance' = [dance EXCEPT ![t] = NewDance]
    /\ \/ /\ connection' = [project |-> dance[t].grant, owner |-> dance[t].grant,
                            token |-> 1, valid |-> TRUE]
          /\ connected' = TRUE
       \/ UNCHANGED <<connection, connected>>
    /\ UNCHANGED <<cookie, refreshVars, byok, overtaken>>

\* handleModelserverDisconnect
Disconnect ==
    /\ connection' = NoConnection /\ connected' = FALSE
    /\ UNCHANGED <<danceVars, refreshVars, byok, overtaken>>

\* handleSetWorkspaceLLMConfig, handleDeleteWorkspaceLLMConfig
ConfigureBYOK ==
    /\ byok' = ~byok
    /\ UNCHANGED <<danceVars, refreshVars, connection, connected, overtaken>>

-----------------------------------------------------------------------------
(* getValidModelserverToken *)

TokenExpires ==
    /\ connection.valid /\ connection' = [connection EXCEPT !.valid = FALSE]
    /\ UNCHANGED <<danceVars, refreshVars, byok, connected, overtaken>>

\* Only the second look at the row counts; the callers of one replica share it.
StartRefresh(r) ==
    /\ flight[r].pc = "idle" /\ connection # NoConnection /\ ~connection.valid
    /\ flight' = [flight EXCEPT ![r] = [pc |-> "ask", owner |-> connection.owner,
                                        token |-> connection.token]]
    /\ UNCHANGED <<danceVars, rotates, current, lostToken, connection, byok, connected, overtaken>>

\* ModelServer refuses a token that was used before.
AskRefresh(r) ==
    LET f == flight[r] IN
    /\ f.pc = "ask" /\ f.token = current[f.owner]
    /\ LET n == IF rotates THEN f.token + 1 ELSE f.token IN
          /\ n <= MaxRotations
          /\ current' = [current EXCEPT ![f.owner] = n]
          /\ flight' = [flight EXCEPT ![r] = [f EXCEPT !.pc = "write", !.token = n]]
    /\ UNCHANGED <<danceVars, rotates, lostToken, connection, byok, connected, overtaken>>

RefreshFails(r) ==
    /\ flight[r].pc = "ask" /\ flight' = [flight EXCEPT ![r] = NoFlight]
    /\ UNCHANGED <<danceVars, rotates, current, lostToken, connection, byok, connected, overtaken>>

\* Mutant: the refresh token of the request is kept when a new one came.
UpdateKeepingOld(c, f) == [c EXCEPT !.owner = f.owner, !.valid = TRUE]

\* UpdateModelserverTokens names the workspace only: the row may be another
\* connection's by now, or be gone.
UpdateTokens(c, f) ==
    [c EXCEPT !.owner = f.owner, !.token = f.token, !.valid = TRUE]

WriteTokens(r) ==
    /\ flight[r].pc = "write"
    /\ flight' = [flight EXCEPT ![r] = NoFlight]
    /\ connection' = IF connection = NoConnection THEN connection
                     ELSE UpdateTokens(connection, flight[r])
    /\ overtaken' = (overtaken \/ (connection # NoConnection
                                     /\ connection.owner # flight[r].owner))
    /\ UNCHANGED <<danceVars, rotates, current, lostToken, byok, connected>>

\* The answer or the UPDATE is lost, or the replica ends in between.
LoseTokens(r) ==
    /\ flight[r].pc = "write" /\ lostToken' = TRUE
    /\ flight' = [flight EXCEPT ![r] = NoFlight]
    /\ UNCHANGED <<danceVars, rotates, current, connection, byok, connected, overtaken>>

ModelServerNext ==
    \/ \E t \in Tabs : \/ BeginConnection(t) \/ Callback(t) \/ CallbackFails(t)
                       \/ ExchangeCode(t) \/ SupersedeBYOK(t) \/ SaveConnection(t)
    \/ Disconnect \/ ConfigureBYOK \/ TokenExpires
    \/ \E r \in Replicas : \/ StartRefresh(r) \/ AskRefresh(r) \/ RefreshFails(r)
                           \/ WriteTokens(r) \/ LoseTokens(r)

ModelServerSpec == ModelServerInit /\ [][ModelServerNext]_modelServerVars

-----------------------------------------------------------------------------

Numbers == 0..MaxRotations
Dances == [pc : {"idle", "asked", "exchange", "supersede", "save"},
           grant : Grants \cup {NoGrant}]
Connections == [project : Grants \cup {NoGrant}, owner : Grants \cup {NoGrant},
                token : Numbers, valid : BOOLEAN]
Flights == [pc : {"idle", "ask", "write"}, owner : Grants \cup {NoGrant}, token : Numbers]

ModelServerTypeOK ==
    /\ cookie \in Tabs \cup {NoTab}
    /\ dance \in [Tabs -> Dances]
    /\ connection \in Connections
    /\ current \in [Grants -> Numbers]
    /\ flight \in [Replicas -> Flights]
    /\ rotates \in BOOLEAN /\ byok \in BOOLEAN /\ connected \in BOOLEAN
    /\ lostToken \in BOOLEAN /\ overtaken \in BOOLEAN

\* A connection can be refreshed as long as it lives: its tokens are those of
\* its project, and its refresh token is the one that ModelServer will accept or
\* a replica is about to write the next. Two replicas that refresh at once, a
\* disconnection in the middle and a repeated dance do not harm it, and none of
\* them brings a disconnected row back. What does harm: a lost answer, and a
\* refresh that writes its tokens into the row of the connection that took the
\* place of its own (getValidModelserverToken, UpdateModelserverTokens).
ConnectionUsable ==
    connection # NoConnection =>
       /\ connected
       /\ \/ lostToken \/ overtaken
          \/ /\ connection.owner = connection.project
             /\ \/ connection.token = current[connection.owner]
                \/ \E r \in Replicas : /\ flight[r].pc = "write"
                                       /\ flight[r].owner = connection.owner
                                       /\ flight[r].token = current[connection.owner]
===============================================================================
