------------------------------ MODULE MCServices ------------------------------
(***************************************************************************)
(* The services around agentserver that are checked for safety alone: the  *)
(* gateways of Codex, the tools on executors, and the services that        *)
(* connect users and agents. They share no state: a behaviour lets one of  *)
(* them move and leaves the others as they started, and the states are     *)
(* those of all of them together.                                          *)
(***************************************************************************)
EXTENDS ExecGateway, RevokedTurns, ExecutorRegistration, CodexAuth,
        CodexFront, EnvTools, CopyPath, PatchHunks, Tunnels, ImCodexTurns,
        ImBridge, ImTyping, ImChannels, WeixinLogin

\* What the documents of apply_patch stand for: an update with a hunk of one line or
\* two, or with two hunks of a line; a move, with another file added after it; a file
\* added and one deleted.
SmallHunks ==
    [context : Lines \cup {Empty},
     lines : {<<l>> : l \in HunkLines} \cup (HunkLines \X HunkLines)]
OneLine == {h \in SmallHunks : Len(h.lines) = 1}
Bare == {h \in OneLine : h.context = Empty}
With(op, hunks) == [op EXCEPT !.hunks = hunks]
Update(p, hunks) == With(Op("update", p, NoPath, <<>>), hunks)
PatchOperations ==
    {<<Update(p, <<h>>)>> : p \in Paths, h \in SmallHunks}
      \cup {<<Update(HerePath, <<h, g>>)>> : h \in OneLine, g \in Bare}
      \cup {<<With(Op("move", HerePath, p, <<>>), <<h>>), Op("add", HerePath, NoPath, <<l>>)>> :
               p \in Paths, h \in Bare, l \in Lines}
      \cup {<<Op("add", p, NoPath, <<l>>), Op("delete", q, NoPath, <<>>)>> :
               p, q \in Paths, l \in Lines}
PatchSources == UNION {[1..n -> Lines] : n \in 0..3}

VARIABLE service

gatewayState == <<execVars, revokedVars, registrationVars, authVars, frontVars>>
environmentState == <<toolVars, copyVars, patchVars>>
messageState == <<tunnelVars, imVars, bridgeVars, typingVars>>
channelState == <<channelVars, weixinVars>>
servicesVars == <<gatewayState, environmentState, messageState, channelState,
                  service>>

GatewayServices == {"exec gateway", "revoked turns", "executor registration",
                    "codex auth", "codex front"}
EnvironmentServices == {"env tools", "copy path", "apply patch"}
MessageServices == {"tunnels", "im codex turns", "im bridge", "im typing"}
ChannelServices == {"im channels", "weixin login"}
Services ==
    GatewayServices \cup EnvironmentServices \cup MessageServices \cup
    ChannelServices

\* Some services may start in several states; one that will not move starts in
\* one of them. The workspaces of ImChannels are interchangeable: one of its
\* sandboxes is always in the same.
StandStill ==
    /\ service # "executor registration" =>
          \A x \in Requests : request[x].name = CHOOSE n \in ExeNames : TRUE
    /\ service # "copy path" => ~relayEnabled
    /\ service # "env tools" => named.exe = CHOOSE m \in Machines : TRUE
    /\ \A b \in IF service = "im channels" THEN OpenclawBoxes ELSE Boxes :
          home[b] = CHOOSE w \in Tenants : TRUE

ServicesInit ==
    /\ service \in Services
    /\ ExecInit /\ RevokedInit /\ RegistrationInit /\ AuthInit /\ FrontInit
    /\ ToolsInit /\ CopyInit /\ PatchInit
    /\ TunnelInit /\ ImInit /\ BridgeInit /\ TypingInit
    /\ ChannelsInit /\ WeixinInit
    /\ StandStill

GatewayNext ==
    /\ service \in GatewayServices
    /\ UNCHANGED <<environmentState, messageState, channelState, service>>
    /\ \/ /\ service = "exec gateway"
          /\ UNCHANGED <<revokedVars, registrationVars, authVars, frontVars>>
          /\ ExecNext
       \/ /\ service = "revoked turns"
          /\ UNCHANGED <<execVars, registrationVars, authVars, frontVars>>
          /\ RevokedNext
       \/ /\ service = "executor registration"
          /\ UNCHANGED <<execVars, revokedVars, authVars, frontVars>>
          /\ RegistrationNext
       \/ /\ service = "codex auth"
          /\ UNCHANGED <<execVars, revokedVars, registrationVars, frontVars>>
          /\ AuthNext
       \/ /\ service = "codex front"
          /\ UNCHANGED <<execVars, revokedVars, registrationVars, authVars>>
          /\ FrontNext

EnvironmentNext ==
    /\ service \in EnvironmentServices
    /\ UNCHANGED <<gatewayState, messageState, channelState, service>>
    /\ \/ /\ service = "env tools"
          /\ UNCHANGED <<copyVars, patchVars>>
          /\ ToolsNext
       \/ /\ service = "copy path"
          /\ UNCHANGED <<toolVars, patchVars>>
          /\ CopyNext
       \/ /\ service = "apply patch"
          /\ UNCHANGED <<toolVars, copyVars>>
          /\ PatchNext

MessageNext ==
    /\ service \in MessageServices
    /\ UNCHANGED <<gatewayState, environmentState, channelState, service>>
    /\ \/ /\ service = "tunnels"
          /\ UNCHANGED <<imVars, bridgeVars, typingVars>>
          /\ TunnelNext
       \/ /\ service = "im codex turns"
          /\ UNCHANGED <<tunnelVars, bridgeVars, typingVars>>
          /\ ImNext
       \/ /\ service = "im bridge"
          /\ UNCHANGED <<tunnelVars, imVars, typingVars>>
          /\ BridgeNext
       \/ /\ service = "im typing"
          /\ UNCHANGED <<tunnelVars, imVars, bridgeVars>>
          /\ TypingNext

ChannelNext ==
    /\ service \in ChannelServices
    /\ UNCHANGED <<gatewayState, environmentState, messageState, service>>
    /\ \/ /\ service = "im channels"
          /\ UNCHANGED weixinVars
          /\ ChannelsNext
       \/ /\ service = "weixin login"
          /\ UNCHANGED channelVars
          /\ WeixinNext

ServicesNext ==
    \/ GatewayNext
    \/ EnvironmentNext
    \/ MessageNext
    \/ ChannelNext

ServicesSpec == ServicesInit /\ [][ServicesNext]_servicesVars

\* States differ in the service that moves: the others are as they started.
ServicesView ==
    <<service,
      CASE service = "exec gateway" -> execVars
        [] service = "revoked turns" -> revokedVars
        [] service = "executor registration" -> registrationVars
        [] service = "codex auth" -> authVars
        [] service = "codex front" -> frontVars
        [] service = "env tools" -> toolVars
        [] service = "copy path" -> copyVars
        [] service = "apply patch" -> patchVars
        [] service = "tunnels" -> tunnelVars
        [] service = "im codex turns" -> imVars
        [] service = "im bridge" -> bridgeVars
        [] service = "im typing" -> typingVars
        [] service = "im channels" -> channelVars
        [] service = "weixin login" -> weixinVars>>

ServicesTypeOK ==
    CASE service = "exec gateway" -> ExecTypeOK
      [] service = "revoked turns" -> RevokedTypeOK
      [] service = "executor registration" -> RegistrationTypeOK
      [] service = "codex auth" -> AuthTypeOK
      [] service = "codex front" -> FrontTypeOK
      [] service = "env tools" -> ToolsTypeOK
      [] service = "copy path" -> CopyTypeOK
      [] service = "apply patch" -> PatchTypeOK
      [] service = "tunnels" -> TunnelTypeOK
      [] service = "im codex turns" -> ImTypeOK
      [] service = "im bridge" -> BridgeTypeOK
      [] service = "im typing" -> TypingTypeOK
      [] service = "im channels" -> ChannelsTypeOK
      [] service = "weixin login" -> WeixinTypeOK

\* The properties of the services by what they promise. Only the service that
\* moves has anything to check: the others are as they started.

\* Who is connected is found, and who has gone is not, through replacements
\* whose late endings come after the new connection: executors and their
\* bridges by the gateway's entries and routes, local agents by their tunnels,
\* remote codex clients by the sessions that are listed as online.
ConnectedIsFound ==
    CASE service = "exec gateway" -> RoutesSound
      [] service = "tunnels" -> OpenIsActive
      [] service = "codex front" -> FrontSound
      [] OTHER -> TRUE

\* What opens a door is closed when it should be: a revoked turn stays revoked
\* or its caller is told, of a login's refresh tokens one lives.
TokensSound ==
    CASE service = "revoked turns" -> NoSilentRelapse
      [] service = "codex auth" -> AuthSound
      [] OTHER -> TRUE

\* What is handed out once is not handed out again, whoever asks at the same
\* moment: a message of a chat to the turn it starts, the login of a scanned QR
\* code to the requests that wait for it.
NothingTwice ==
    CASE service = "im bridge" -> AtMostOnce
      [] service = "weixin login" -> SavedOnce
      [] OTHER -> TRUE

\* A user of a chat is served as he expects: his turns with Codex come one by
\* one where the last one left off, he is not told that it timed out when he
\* has his answer, and his messages reach the sandbox the channel is bound to.
ChatsSound ==
    CASE service = "im codex turns" -> TurnsSound
      [] service = "im typing" -> ToldMeansUnanswered
      [] service = "im channels" -> ChannelsSound
      [] OTHER -> TRUE

\* The tools on an executor: connections, names and processes of the shared
\* pool stay accounted for, a copied file is complete or absent, and a patch
\* changes what it says and loses nothing else.
EnvironmentSound ==
    CASE service = "env tools" -> ToolsSound
      [] service = "copy path" -> CopySound
      [] service = "apply patch" -> PatchSound
      [] OTHER -> TRUE
===============================================================================
