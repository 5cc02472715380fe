------------------------- MODULE CredentialBindings -------------------------
(***************************************************************************)
(* The credentials of a workspace for one kind of service (clusters of     *)
(* Kubernetes). A sandbox gets a kubeconfig with all of them, whose        *)
(* current context is the default. The first binding becomes the default;  *)
(* another can be made it; the default can only be deleted as the last. A  *)
(* binding for OIDC waits until the user has authorised a device code: its *)
(* flow is in the memory of agentserver until then.                        *)
(***************************************************************************)
EXTENDS FiniteSets, Naturals

CONSTANTS
    Creds,      \* bindings, each created once
    Completes,  \* calls of device-complete
    Removes,    \* calls of DELETE
    NoCred,
    MaxCredRestarts \* bound

ASSUME CredentialBindingsAssumption ==
    NoCred \notin Creds /\ MaxCredRestarts \in Nat

VARIABLES
    creation,   \* per binding: the step of its POST, and whether it saw itself first
    credRow,    \* per binding: its row in credential_bindings
    flow,       \* per binding: its device flow
    complete,   \* per call of device-complete: its step and binding
    remove,     \* per call of DELETE: its step and binding
    exchanged,  \* history: per binding, tokens got for its device code
    overlap,    \* history: a DELETE met another call of the kind under way
    credRestarts

credVars ==
    <<creation, credRow, flow, complete, remove, exchanged, overlap, credRestarts>>
callVars == <<creation, complete, remove>>

NoFlow == [known |-> FALSE, live |-> FALSE, once |-> "fresh"]
NoCreation == [pc |-> "none", first |-> FALSE, oidc |-> FALSE]

CredInit ==
    /\ creation = [b \in Creds |-> NoCreation]
    /\ credRow = [b \in Creds |-> "none"]
    /\ flow = [b \in Creds |-> NoFlow]
    /\ complete = [c \in Completes |-> [pc |-> "idle", of |-> NoCred]]
    /\ remove = [d \in Removes |-> [pc |-> "idle", of |-> NoCred]]
    /\ exchanged = [b \in Creds |-> 0]
    /\ overlap = FALSE
    /\ credRestarts = 0

BindingRows == {b \in Creds : credRow[b] # "none"}
Default == {b \in Creds : credRow[b] = "default"}

CreationGoes(b, pc) == creation' = [creation EXCEPT ![b].pc = pc]
CompleteGoes(c, pc) == complete' = [complete EXCEPT ![c].pc = pc]
CompleteAnswered(c) ==
    complete' = [complete EXCEPT ![c] = [pc |-> "idle", of |-> NoCred]]
RemoveAnswered(d) ==
    remove' = [remove EXCEPT ![d] = [pc |-> "idle", of |-> NoCred]]
DropFlow(b) == flow' = [flow EXCEPT ![b].known = FALSE]

\* The calls under way that may add a row; a flow lasts until its user is done.
Adding == {b \in Creds : creation[b].pc \in {"device", "insert"} \/ flow[b].known}
            \cup {complete[c].of : c \in {e \in Completes : complete[e].pc # "idle"}}
Removing == {d \in Removes : remove[d].pc # "idle"}

-----------------------------------------------------------------------------
(* Creating *)

\* What an uploaded kubeconfig can be: one that is refused (not one cluster, an
\* unsafe server, no usable credentials), one with static credentials, and one
\* whose plugin logs in with OIDC.
ParseKubeconfig == {"refused", "static", "oidc"}

\* The upload is parsed, and the bindings counted: the first one is the default.
\* One for OIDC asks the issuer for a device code, which may fail.
CreateCredentialBinding(b) ==
    /\ creation[b].pc = "none"
    /\ \E upload \in ParseKubeconfig :
         IF upload = "refused" THEN CreationGoes(b, "over")
         ELSE creation' = [creation EXCEPT ![b] =
                [pc |-> IF upload = "oidc" THEN "device" ELSE "insert",
                 first |-> BindingRows = {}, oidc |-> upload = "oidc"]]
    /\ UNCHANGED <<credRow, flow, complete, remove, exchanged, overlap, credRestarts>>

CreateOIDCBinding(b) ==
    /\ creation[b].pc = "device"
    /\ CreationGoes(b, "over")
    /\ \/ flow' = [flow EXCEPT ![b] = [known |-> TRUE, live |-> TRUE, once |-> "fresh"]]
       \/ UNCHANGED flow
    /\ UNCHANGED <<credRow, complete, remove, exchanged, overlap, credRestarts>>

\* The index on is_default refuses a second default; other errors refuse any.
InsertCred(b) ==
    \/ /\ creation[b].first => Default = {}
       /\ credRow' = [credRow EXCEPT ![b] =
            IF creation[b].first THEN "default" ELSE "plain"]
       /\ overlap' = (overlap \/ Removing # {})
    \/ UNCHANGED <<credRow, overlap>>

InsertBinding(b) ==
    /\ creation[b].pc = "insert"
    /\ CreationGoes(b, "over")
    /\ InsertCred(b)
    /\ UNCHANGED <<flow, complete, remove, exchanged, credRestarts>>

-----------------------------------------------------------------------------
(* Device flows *)

FlowExpires(b) ==
    /\ flow[b].known /\ flow[b].live
    /\ flow' = [flow EXCEPT ![b].live = FALSE]
    /\ UNCHANGED <<callVars, credRow, exchanged, overlap, credRestarts>>

SweepExpiredDeviceFlows ==
    /\ \E b \in Creds : flow[b].known /\ ~flow[b].live
    /\ flow' = [b \in Creds |-> IF flow[b].live THEN flow[b]
                                ELSE [flow[b] EXCEPT !.known = FALSE]]
    /\ UNCHANGED <<callVars, credRow, exchanged, overlap, credRestarts>>

\* An unknown flow is not found, an expired one is dropped.
DeviceCodeComplete(c, b) ==
    /\ complete[c].pc = "idle" /\ creation[b].oidc
    /\ flow[b].known
    /\ IF flow[b].live
       THEN complete' = [complete EXCEPT ![c] = [pc |-> "once", of |-> b]]
            /\ UNCHANGED flow
       ELSE DropFlow(b) /\ UNCHANGED complete
    /\ UNCHANGED <<creation, remove, credRow, exchanged, overlap, credRestarts>>

\* Mutant: whoever calls asks the issuer.
EnterAny(c) ==
    LET b == complete[c].of IN
    /\ complete[c].pc = "once"
    /\ CompleteGoes(c, "exchange")
    /\ flow' = [flow EXCEPT ![b].once = "running"]
    /\ UNCHANGED <<creation, remove, credRow, exchanged, overlap, credRestarts>>

\* completing.Do: the first to come polls the issuer, the others wait until it has
\* finished and are refused.
EnterOnce(c) ==
    LET b == complete[c].of IN
    /\ complete[c].pc = "once"
    /\ \/ /\ flow[b].once = "fresh"
          /\ CompleteGoes(c, "exchange")
          /\ flow' = [flow EXCEPT ![b].once = "running"]
       \/ flow[b].once = "done" /\ CompleteAnswered(c) /\ UNCHANGED flow
    /\ UNCHANGED <<creation, remove, credRow, exchanged, overlap, credRestarts>>

\* The user authorises the code; or denies it, or it expires, or the caller goes.
DeviceAccessToken(c) ==
    LET b == complete[c].of IN
    /\ complete[c].pc = "exchange"
    /\ flow' = [flow EXCEPT ![b].once = "done"]
    /\ \/ CompleteGoes(c, "insert") /\ exchanged' = [exchanged EXCEPT ![b] = @ + 1]
       \/ CompleteGoes(c, "drop") /\ UNCHANGED exchanged
    /\ UNCHANGED <<creation, remove, credRow, overlap, credRestarts>>

\* A row that cannot be inserted leaves the flow, which nobody can complete then.
CompleteInsert(c) ==
    LET b == complete[c].of IN
    /\ complete[c].pc = "insert"
    /\ InsertCred(b)
    /\ IF credRow'[b] # "none" THEN CompleteGoes(c, "drop") ELSE CompleteAnswered(c)
    /\ UNCHANGED <<creation, remove, flow, exchanged, credRestarts>>

CompleteEnds(c) ==
    /\ complete[c].pc = "drop"
    /\ CompleteAnswered(c)
    /\ DropFlow(complete[c].of)
    /\ UNCHANGED <<creation, remove, credRow, exchanged, overlap, credRestarts>>

-----------------------------------------------------------------------------
(* Deleting, and the default *)

\* Mutant: the default may go at any time.
DeleteAnyBinding(d, b) ==
    /\ remove[d].pc = "idle" /\ credRow[b] # "none"
    /\ remove' = [remove EXCEPT ![d] = [pc |-> "delete", of |-> b]]
    /\ UNCHANGED <<creation, complete, credRow, flow, exchanged, overlap, credRestarts>>

\* The row is read; the default needs a second look.
DeleteCredentialBinding(d, b) ==
    /\ remove[d].pc = "idle" /\ credRow[b] # "none"
    /\ remove' = [remove EXCEPT ![d] =
         [pc |-> IF credRow[b] = "default" THEN "count" ELSE "delete", of |-> b]]
    /\ UNCHANGED <<creation, complete, credRow, flow, exchanged, overlap, credRestarts>>

CountBindings(d) ==
    /\ remove[d].pc = "count"
    /\ IF Cardinality(BindingRows) > 1 THEN RemoveAnswered(d)
       ELSE remove' = [remove EXCEPT ![d].pc = "delete"]
    /\ UNCHANGED <<creation, complete, credRow, flow, exchanged, overlap, credRestarts>>

DeleteRow(d) ==
    /\ remove[d].pc = "delete"
    /\ RemoveAnswered(d)
    /\ credRow' = [credRow EXCEPT ![remove[d].of] = "none"]
    /\ overlap' = (overlap \/ Adding # {} \/ Removing # {d})
    /\ UNCHANGED <<creation, complete, flow, exchanged, credRestarts>>

\* Mutant: not in a transaction: the old default is cleared when the new one is
\* not found.
SetDefaultUnchecked(b) ==
    /\ creation[b].pc = "over"
    /\ credRow' = [a \in Creds |-> IF credRow[a] = "none" THEN "none"
                               ELSE IF a = b THEN "default" ELSE "plain"]
    /\ overlap' = (overlap \/ Removing # {})
    /\ UNCHANGED <<callVars, flow, exchanged, credRestarts>>

\* One transaction: the default is cleared and set, or, when the binding is not
\* found, neither.
SetCredentialBindingDefault(b) ==
    /\ creation[b].pc = "over" /\ credRow[b] # "none"
    /\ credRow' = [a \in Creds |-> IF credRow[a] = "none" THEN "none"
                               ELSE IF a = b THEN "default" ELSE "plain"]
    /\ overlap' = (overlap \/ Removing # {})
    /\ UNCHANGED <<callVars, flow, exchanged, credRestarts>>

\* agentserver credRestarts: the flows and the calls are gone.
CredRestart ==
    /\ credRestarts < MaxCredRestarts
    /\ credRestarts' = credRestarts + 1
    /\ flow' = [b \in Creds |-> [flow[b] EXCEPT !.known = FALSE]]
    /\ creation' = [b \in Creds |-> IF creation[b].pc = "none" THEN NoCreation
                                    ELSE [creation[b] EXCEPT !.pc = "over"]]
    /\ complete' = [c \in Completes |-> [pc |-> "idle", of |-> NoCred]]
    /\ remove' = [d \in Removes |-> [pc |-> "idle", of |-> NoCred]]
    /\ UNCHANGED <<credRow, exchanged, overlap>>

CredNext ==
    \/ \E b \in Creds :
         \/ CreateCredentialBinding(b) \/ CreateOIDCBinding(b) \/ InsertBinding(b)
         \/ FlowExpires(b) \/ SetCredentialBindingDefault(b)
         \/ \E c \in Completes : DeviceCodeComplete(c, b)
         \/ \E d \in Removes : DeleteCredentialBinding(d, b)
    \/ \E c \in Completes :
         EnterOnce(c) \/ DeviceAccessToken(c) \/ CompleteInsert(c) \/ CompleteEnds(c)
    \/ \E d \in Removes : CountBindings(d) \/ DeleteRow(d)
    \/ SweepExpiredDeviceFlows \/ CredRestart

CredSpec == CredInit /\ [][CredNext]_credVars

-----------------------------------------------------------------------------
(* Properties *)

CredTypeOK ==
    /\ \A b \in Creds :
         /\ creation[b].pc \in {"none", "device", "insert", "over"}
         /\ credRow[b] \in {"none", "plain", "default"}
         /\ flow[b].once \in {"fresh", "running", "done"}
    /\ \A c \in Completes :
         complete[c].pc \in {"idle", "once", "exchange", "insert", "drop"}
    /\ \A d \in Removes : remove[d].pc \in {"idle", "count", "delete"}

\* A kubeconfig with all bindings, and the default as its current context.
BuildMergedKubeconfig ==
    [contexts |-> BindingRows,
     current |-> IF Default = {} THEN NoCred ELSE CHOOSE b \in Default : TRUE]

\* What a sandbox that starts now is given: nothing without bindings.
BuildCredentialConfig == IF BindingRows = {} THEN {} ELSE {BuildMergedKubeconfig}

\* As long as no DELETE overlaps with another call, a sandbox of a workspace that
\* has credentials starts with them: one of them is the default, whatever became
\* of creations, flows that were completed late, and changes of the default.
KubeconfigKept ==
    ~overlap => \A config \in BuildCredentialConfig :
        config.current \in config.contexts /\ Cardinality(Default) = 1

\* A device code is exchanged once, by however many calls its flow is completed,
\* and only an exchange makes the binding of a flow.
ExchangedOnce ==
    \A b \in Creds :
        /\ exchanged[b] <= 1
        /\ creation[b].oidc /\ credRow[b] # "none" => exchanged[b] = 1

CredentialsKept == KubeconfigKept /\ ExchangedOnce
=============================================================================
