---------------------------- MODULE MCAgentserver ----------------------------
(***************************************************************************)
(* The parts of agentserver, and of the proxies that ask it who their      *)
(* callers are, that are checked for safety alone. They share no state but *)
(* the rows that each of them models for itself: a behaviour lets one of   *)
(* them move and leaves the others as they started, and the states are     *)
(* those of all of them together.                                          *)
(***************************************************************************)
EXTENDS AgentTasks, Quotas, Workspaces, Drafts, Marketplace, SignIn,
        ModelServer, LlmProxy, ModelserverTokens, CredentialBindings,
        BindingTokens, OperationLog, ApiKeys, DockerBackend, Compositions

VARIABLE service

workState == <<taskVars, quotaVars, workspaceVars>>
playgroundState == <<draftVars, marketVars>>
accountState == <<signInVars, modelServerVars>>
modelState == <<llmVars, tokenVars, opVars>>
credentialState == <<credVars, bindingVars, keyVars>>
containerState == <<dockerVars, compositionVars>>
agentserverVars == <<workState, playgroundState, accountState, modelState,
                     credentialState, containerState, service>>

WorkServices == {"agent tasks", "quotas", "workspaces"}
PlaygroundServices == {"drafts", "marketplace"}
AccountServices == {"sign in", "model server"}
ModelServices == {"llm proxy", "modelserver tokens", "operation log"}
CredentialServices == {"credential bindings", "binding tokens", "api keys"}
ContainerServices == {"docker", "compositions"}
Agentserver ==
    WorkServices \cup PlaygroundServices \cup AccountServices \cup
    ModelServices \cup CredentialServices \cup ContainerServices

\* Some services may start in several states; one that will not move starts in
\* one of them.
StandStill ==
    /\ service # "quotas" =>
          \A f \in Fields : setting[f] = CHOOSE l \in Limits : TRUE
    /\ service # "agent tasks" =>
          \A c \in Cancels : cancel[c].of = CHOOSE t \in Tasks : TRUE
    /\ service # "model server" => ~byok /\ ~rotates
    /\ service # "operation log" =>
          \A t \in ToolCalls : tool[t].at = CHOOSE w \in Workplaces : TRUE
    /\ service # "api keys" => pepper = CHOOSE p \in Peppers : TRUE
    /\ service # "binding tokens" => ~issuer.rotates
    /\ service # "marketplace" => table = "skill"

AgentserverInit ==
    /\ service \in Agentserver
    /\ TasksInit /\ QuotasInit /\ WorkspacesInit
    /\ DraftsInit /\ MarketInit
    /\ SignInInit /\ ModelServerInit
    /\ LlmInit /\ TokensInit /\ OpsInit
    /\ CredInit /\ BindingInit /\ KeysInit
    /\ DockerInit /\ CompositionInit
    /\ StandStill

WorkNext ==
    /\ service \in WorkServices
    /\ UNCHANGED <<playgroundState, accountState, modelState, credentialState,
                   containerState, service>>
    /\ \/ /\ service = "agent tasks"
          /\ UNCHANGED <<quotaVars, workspaceVars>>
          /\ TasksNext
       \/ /\ service = "quotas"
          /\ UNCHANGED <<taskVars, workspaceVars>>
          /\ QuotasNext
       \/ /\ service = "workspaces"
          /\ UNCHANGED <<taskVars, quotaVars>>
          /\ WorkspacesNext

PlaygroundNext ==
    /\ service \in PlaygroundServices
    /\ UNCHANGED <<workState, accountState, modelState, credentialState,
                   containerState, service>>
    /\ \/ /\ service = "drafts"
          /\ UNCHANGED marketVars
          /\ DraftsNext
       \/ /\ service = "marketplace"
          /\ UNCHANGED draftVars
          /\ MarketNext

AccountNext ==
    /\ service \in AccountServices
    /\ UNCHANGED <<workState, playgroundState, modelState, credentialState,
                   containerState, service>>
    /\ \/ /\ service = "sign in"
          /\ UNCHANGED modelServerVars
          /\ SignInNext
       \/ /\ service = "model server"
          /\ UNCHANGED signInVars
          /\ ModelServerNext

ModelNext ==
    /\ service \in ModelServices
    /\ UNCHANGED <<workState, playgroundState, accountState, credentialState,
                   containerState, service>>
    /\ \/ /\ service = "llm proxy"
          /\ UNCHANGED <<tokenVars, opVars>>
          /\ LlmNext
       \/ /\ service = "modelserver tokens"
          /\ UNCHANGED <<llmVars, opVars>>
          /\ TokensNext
       \/ /\ service = "operation log"
          /\ UNCHANGED <<llmVars, tokenVars>>
          /\ OpsNext

CredentialNext ==
    /\ service \in CredentialServices
    /\ UNCHANGED <<workState, playgroundState, accountState, modelState,
                   containerState, service>>
    /\ \/ /\ service = "credential bindings"
          /\ UNCHANGED <<bindingVars, keyVars>>
          /\ CredNext
       \/ /\ service = "binding tokens"
          /\ UNCHANGED <<credVars, keyVars>>
          /\ BindingNext
       \/ /\ service = "api keys"
          /\ UNCHANGED <<credVars, bindingVars>>
          /\ KeysNext

ContainerNext ==
    /\ service \in ContainerServices
    /\ UNCHANGED <<workState, playgroundState, accountState, modelState,
                   credentialState, service>>
    /\ \/ /\ service = "docker"
          /\ UNCHANGED compositionVars
          /\ DockerNext
       \/ /\ service = "compositions"
          /\ UNCHANGED dockerVars
          /\ CompositionNext

AgentserverNext ==
    \/ WorkNext
    \/ PlaygroundNext
    \/ AccountNext
    \/ ModelNext
    \/ CredentialNext
    \/ ContainerNext

AgentserverSpec == AgentserverInit /\ [][AgentserverNext]_agentserverVars

\* States differ in the service that moves: the others are as they started.
AgentserverView ==
    <<service,
      CASE service = "agent tasks" -> taskVars
        [] service = "quotas" -> quotaVars
        [] service = "workspaces" -> workspaceVars
        [] service = "drafts" -> draftVars
        [] service = "marketplace" -> marketVars
        [] service = "sign in" -> signInVars
        [] service = "model server" -> modelServerVars
        [] service = "llm proxy" -> llmVars
        [] service = "modelserver tokens" -> tokenVars
        [] service = "operation log" -> opVars
        [] service = "credential bindings" -> credVars
        [] service = "binding tokens" -> bindingVars
        [] service = "api keys" -> keyVars
        [] service = "docker" -> dockerVars
        [] service = "compositions" -> compositionVars>>

AgentserverTypeOK ==
    CASE service = "agent tasks" -> TasksTypeOK
      [] service = "quotas" -> QuotasTypeOK
      [] service = "workspaces" -> WorkspacesTypeOK
      [] service = "drafts" -> DraftsTypeOK
      [] service = "marketplace" -> MarketTypeOK
      [] service = "sign in" -> SignInTypeOK
      [] service = "model server" -> ModelServerTypeOK
      [] service = "llm proxy" -> LlmTypeOK
      [] service = "modelserver tokens" -> TokensTypeOK
      [] service = "operation log" -> OpsTypeOK
      [] service = "credential bindings" -> CredTypeOK
      [] service = "binding tokens" -> BindingTypeOK
      [] service = "api keys" -> KeysTypeOK
      [] service = "docker" -> DockerTypeOK
      [] service = "compositions" -> CompositionTypeOK

\* The properties of some services by what they promise. Only the service that
\* moves has anything to check: the others are as they started.

\* What a workspace uses of language models is what it may and what is charged:
\* requests that follow each other stay within the quota, usage is what the
\* answers said, no token of a connection long replaced is forwarded, and the log
\* of operations says of each what it was answered.
UsageSound ==
    CASE service = "llm proxy" -> LlmSound
      [] service = "modelserver tokens" -> ForwardedIsCurrent
      [] service = "operation log" -> OpsSound
      [] OTHER -> TRUE

\* What is provided keeps working: a sandbox that starts has its credentials and
\* all of its composition or none, a device code is exchanged once, no spent refresh
\* token goes to an issuer, and a key of the API says what it may.
ProvisionsSound ==
    CASE service = "credential bindings" -> CredentialsKept
      [] service = "binding tokens" -> SpentIsNotShown
      [] service = "api keys" -> KeysSound
      [] service = "compositions" -> CompositionSound
      [] OTHER -> TRUE
===============================================================================
