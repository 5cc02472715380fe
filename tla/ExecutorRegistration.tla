------------------------ MODULE ExecutorRegistration ------------------------
(***************************************************************************)
(* Adding a connector: agentserver's handler registers an executor at the  *)
(* codex-exec-gateway, binds it to the workspace under a name and mints an *)
(* identity for it. The gateway is called over HTTP: a call may fail, its  *)
(* answer may be lost, and a call that was given up may still take effect. *)
(* One workspace; a request and the executor it creates share a name here. *)
(***************************************************************************)
EXTENDS Naturals

CONSTANTS
    Requests,   \* registrations, and the executors they create
    ExeNames,   \* names a user may choose
    NoName

ASSUME RegistrationAssumption == NoName \notin ExeNames

VARIABLES
    request,    \* per request: the handler, the call it waits for, its reply
    underway,   \* per request: calls sent to the gateway, not executed there
    executors,  \* rows of executors
    bound       \* rows of workspace_executors: the name of each executor

registrationVars == <<request, underway, executors, bound>>

CallNames == {"register", "bind", "unregister"}

RegistrationInit ==
    /\ request \in [Requests -> {[pc |-> "none", answer |-> "none",
                                  reply |-> "none", name |-> n] : n \in ExeNames}]
    /\ underway = [r \in Requests |-> {}]
    /\ executors = {}
    /\ bound = [r \in Requests |-> NoName]

-----------------------------------------------------------------------------
(* Store of the gateway: what one call does to the rows, if it does anything *)

CreateExecutor(r) ==
    /\ executors' = executors \cup {r}
    /\ UNCHANGED bound

\* A foreign key and a unique index on the workspace's names.
BindWorkspaceExecutor(r) ==
    /\ r \in executors
    /\ \A q \in Requests \ {r} : bound[q] # request[r].name
    /\ bound' = [bound EXCEPT ![r] = request[r].name]
    /\ UNCHANGED executors

\* ON DELETE CASCADE takes the binding along.
DeleteExecutor(r) ==
    /\ executors' = executors \ {r}
    /\ bound' = [bound EXCEPT ![r] = NoName]

Effect(r, call) ==
    CASE call = "register" -> CreateExecutor(r)
      [] call = "bind" -> BindWorkspaceExecutor(r)
      [] call = "unregister" -> DeleteExecutor(r)

-----------------------------------------------------------------------------
(* A call, executed at the gateway and answered; nobody waits for the answer *)
(* of a call that was given up                                               *)

Answer(r, call, a) ==
    request' = IF request[r].pc = call THEN [request EXCEPT ![r].answer = a]
               ELSE request

ExecuteCall(r, call) ==
    /\ call \in underway[r]
    /\ underway' = [underway EXCEPT ![r] = @ \ {call}]
    /\ Effect(r, call)
    /\ Answer(r, call, "ok")

\* A constraint, the database, or the cancelled context of a client that left.
CallFails(r, call) ==
    /\ call \in underway[r]
    /\ underway' = [underway EXCEPT ![r] = @ \ {call}]
    /\ Answer(r, call, "error")
    /\ UNCHANGED <<executors, bound>>

-----------------------------------------------------------------------------
(* handleRegisterExecutor *)

Send(r, call) ==
    /\ request' = [request EXCEPT ![r].pc = call, ![r].answer = "none"]
    /\ underway' = [underway EXCEPT ![r] = @ \cup {call}]

Finish(r, reply) ==
    /\ request' = [request EXCEPT ![r].pc = "done", ![r].answer = "none",
                                  ![r].reply = reply]
    /\ UNCHANGED underway

RegisterExecutor(r) ==
    /\ request[r].pc = "none"
    /\ Send(r, "register")
    /\ UNCHANGED <<executors, bound>>

\* The answer came, or ten seconds passed, or the connection broke; a user who
\* left cancels this call and the later ones are not even sent.
Returned(r, call, outcome) ==
    /\ request[r].pc = call
    /\ outcome = "error" \/ request[r].answer = "ok"

AfterRegister(r) ==
    /\ \/ Returned(r, "register", "ok") /\ Send(r, "bind")
       \/ Returned(r, "register", "error") /\ Finish(r, "register failed")
    /\ UNCHANGED <<executors, bound>>

\* Mutant: the executor that could not be bound is left.
NoCleanup(r) ==
    /\ \/ Returned(r, "bind", "ok")
          /\ request' = [request EXCEPT ![r].pc = "mint", ![r].answer = "none"]
          /\ UNCHANGED underway
       \/ Returned(r, "bind", "error") /\ Finish(r, "bind failed")
    /\ UNCHANGED <<executors, bound>>

AfterBind(r) ==
    /\ \/ Returned(r, "bind", "ok")
          /\ request' = [request EXCEPT ![r].pc = "mint", ![r].answer = "none"]
          /\ UNCHANGED underway
       \/ Returned(r, "bind", "error") /\ Send(r, "unregister")
       \/ Returned(r, "bind", "error") /\ Finish(r, "cleanup failed")
    /\ UNCHANGED <<executors, bound>>

AfterUnregister(r) ==
    /\ \/ Returned(r, "unregister", "ok") /\ Finish(r, "bind failed")
       \/ Returned(r, "unregister", "error") /\ Finish(r, "cleanup failed")
    /\ UNCHANGED <<executors, bound>>

\* The executor stays bound when its identity could not be minted.
MintIdentity(r) ==
    /\ request[r].pc = "mint"
    /\ Finish(r, "created") \/ Finish(r, "mint failed")
    /\ UNCHANGED <<executors, bound>>

\* handleUnbindExecutor: the executor's row stays.
UnbindExecutor(r) ==
    /\ request[r].pc = "done" /\ bound[r] # NoName
    /\ bound' = [bound EXCEPT ![r] = NoName]
    /\ UNCHANGED <<request, underway, executors>>

RegistrationStep(r) ==
    \/ RegisterExecutor(r) \/ AfterRegister(r) \/ AfterBind(r)
    \/ AfterUnregister(r) \/ MintIdentity(r) \/ UnbindExecutor(r)

RegistrationNext ==
    \E r \in Requests :
        \/ RegistrationStep(r)
        \/ \E call \in CallNames : ExecuteCall(r, call) \/ CallFails(r, call)

RegistrationSpec == RegistrationInit /\ [][RegistrationNext]_registrationVars

-----------------------------------------------------------------------------
(* Properties *)

RequestStates == [pc : CallNames \cup {"none", "mint", "done"},
                  answer : {"none", "ok", "error"}, name : ExeNames,
                  reply : {"none", "created", "register failed", "bind failed",
                           "cleanup failed", "mint failed"}]

RegistrationTypeOK ==
    /\ request \in [Requests -> RequestStates] /\ underway \in [Requests -> SUBSET CallNames]
    /\ executors \subseteq Requests /\ bound \in [Requests -> ExeNames \cup {NoName}]

\* A reply that says the executor could not be bound is the last of it: neither
\* a row nor a binding is left, and no call still under way brings one back
\* ("so we don't leak an orphan row", handleRegisterExecutor).
BindFailedIsClean ==
    \A r \in Requests :
        request[r].reply = "bind failed" => r \notin executors /\ bound[r] = NoName
=============================================================================
