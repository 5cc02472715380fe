--------------------------- MODULE BindingTokens ----------------------------
(***************************************************************************)
(* The access tokens of one OIDC binding in the credential proxy. A        *)
(* request is forwarded with a cached access token; when that has run out, *)
(* a refresh token buys a new one, and with most issuers a new refresh     *)
(* token, the old one being spent. The database has the first refresh      *)
(* token only; the ones after it are in the memory of the proxy. An issuer *)
(* that sees a spent refresh token revokes the binding's tokens.           *)
(***************************************************************************)
EXTENDS FiniteSets, Naturals

CONSTANTS
    Kubectls,       \* requests to the proxy
    Rotates,        \* whether the issuer may rotate refresh tokens
    MaxRefreshes, MaxProxyRestarts  \* bounds

ASSUME BindingTokensAssumption ==
    Rotates \subseteq BOOLEAN /\ Rotates # {} /\ MaxRefreshes \in Nat /\ MaxProxyRestarts \in Nat

VARIABLES
    issuer,     \* whether it rotates, the refresh token that is good, whether it has revoked it
    access,     \* tokenCache: the refresh token, and whether the access token is good; 0 is no entry
    kubectl,    \* per request: its step, the refresh token it saw in the cache
    refresh,    \* refreshGroup: the refresh under way, its token, step and new token
    forgotten,  \* history: a refresh token was bought and not kept
    bought, proxyRestarts

bindingVars == <<issuer, access, kubectl, refresh, forgotten, bought, proxyRestarts>>

Stored == 1     \* the refresh token in the database
NoRefresh == [state |-> "none", with |-> 0, new |-> 0]
NoKubectl == [pc |-> "idle", saw |-> 0]

BindingInit ==
    /\ \E r \in Rotates : issuer = [rotates |-> r, good |-> Stored, revoked |-> FALSE]
    /\ access = [refresh |-> 0, good |-> FALSE]
    /\ kubectl = [k \in Kubectls |-> NoKubectl]
    /\ refresh = NoRefresh
    /\ forgotten = FALSE
    /\ bought = 0
    /\ proxyRestarts = 0

KubectlAt(k, pc) == kubectl[k].pc = pc

\* The token of the sandbox is validated, the binding found in its workspace and
\* decrypted; a request that fails there changes nothing.
HandleCredProxy(k) ==
    /\ KubectlAt(k, "idle")
    /\ kubectl' = [kubectl EXCEPT ![k].pc = "bearer"]
    /\ UNCHANGED <<issuer, access, refresh, forgotten, bought, proxyRestarts>>

\* The cache is looked at.
GetOIDCBearerToken(k) ==
    /\ KubectlAt(k, "bearer")
    /\ kubectl' = [kubectl EXCEPT ![k] =
         [pc |-> IF access.good THEN "served" ELSE "join", saw |-> access.refresh]]
    /\ UNCHANGED <<issuer, access, refresh, forgotten, bought, proxyRestarts>>

\* Mutant: the refresh goes by what its caller saw before it began.
JoinWithSeen(k) ==
    LET saw == kubectl[k].saw IN
    /\ KubectlAt(k, "join")
    /\ kubectl' = [kubectl EXCEPT ![k].pc = "wait"]
    /\ refresh' = IF refresh.state # "none" THEN refresh
                  ELSE [NoRefresh EXCEPT !.state = "asks",
                                         !.with = IF saw > 0 THEN saw ELSE Stored]
    /\ UNCHANGED <<issuer, access, forgotten, bought, proxyRestarts>>

\* Mutant: the refresh always goes by the database.
JoinWithStored(k) ==
    /\ KubectlAt(k, "join")
    /\ kubectl' = [kubectl EXCEPT ![k].pc = "wait"]
    /\ refresh' = IF refresh.state # "none" THEN refresh
                  ELSE [NoRefresh EXCEPT !.state = "asks", !.with = Stored]
    /\ UNCHANGED <<issuer, access, forgotten, bought, proxyRestarts>>

\* refreshGroup.Do: the refresh that is under way, or a new one, with the refresh
\* token of the cache if there is one by now.
JoinRefresh(k) ==
    /\ KubectlAt(k, "join")
    /\ kubectl' = [kubectl EXCEPT ![k].pc = "wait"]
    /\ refresh' = IF refresh.state # "none" THEN refresh
                  ELSE [NoRefresh EXCEPT !.state = "asks",
                          !.with = IF access.refresh > 0 THEN access.refresh ELSE Stored]
    /\ UNCHANGED <<issuer, access, forgotten, bought, proxyRestarts>>

\* The issuer gives tokens for the good refresh token, and revokes them all when
\* it sees a spent one.
IssuerRefreshes ==
    /\ refresh.state = "asks" /\ bought < MaxRefreshes
    /\ IF refresh.with = issuer.good /\ ~issuer.revoked
       THEN LET new == IF issuer.rotates THEN issuer.good + 1 ELSE issuer.good IN
            /\ issuer' = [issuer EXCEPT !.good = new]
            /\ refresh' = [refresh EXCEPT !.state = "answered", !.new = new]
            /\ bought' = bought + 1
       ELSE /\ issuer' = [issuer EXCEPT !.revoked = TRUE]
            /\ refresh' = [refresh EXCEPT !.state = "refused"]
            /\ UNCHANGED bought
    /\ UNCHANGED <<access, kubectl, forgotten, proxyRestarts>>

Waiting == {k \in Kubectls : KubectlAt(k, "wait")}
RefreshOver(pc) ==
    /\ refresh' = NoRefresh
    /\ kubectl' = [k \in Kubectls |-> IF k \in Waiting THEN [kubectl[k] EXCEPT !.pc = pc]
                                      ELSE kubectl[k]]

\* doOIDCRefresh: both tokens are cached, and all that wait go on.
DoOIDCRefresh ==
    /\ refresh.state = "answered"
    /\ access' = [refresh |-> refresh.new, good |-> TRUE]
    /\ RefreshOver("served")
    /\ UNCHANGED <<issuer, forgotten, bought, proxyRestarts>>

\* The refresh fails for all that wait: the issuer refused it or was not reached,
\* or the client that began it has gone and its context with it.
OIDCRefreshFails ==
    /\ refresh.state # "none"
    /\ RefreshOver("failed")
    /\ forgotten' = (forgotten \/ (refresh.state = "answered" /\ issuer.rotates))
    /\ UNCHANGED <<issuer, access, bought, proxyRestarts>>

KubectlAnswered(k) ==
    /\ kubectl[k].pc \in {"served", "failed"}
    /\ kubectl' = [kubectl EXCEPT ![k] = NoKubectl]
    /\ UNCHANGED <<issuer, access, refresh, forgotten, bought, proxyRestarts>>

AccessExpires ==
    /\ access.good
    /\ access' = [access EXCEPT !.good = FALSE]
    /\ UNCHANGED <<issuer, kubectl, refresh, forgotten, bought, proxyRestarts>>

ProxyRestarts ==
    /\ proxyRestarts < MaxProxyRestarts
    /\ proxyRestarts' = proxyRestarts + 1
    /\ access' = [refresh |-> 0, good |-> FALSE]
    /\ kubectl' = [k \in Kubectls |-> NoKubectl]
    /\ refresh' = NoRefresh
    /\ forgotten' = (forgotten \/ issuer.good # Stored)
    /\ UNCHANGED <<issuer, bought>>

BindingNext ==
    \/ \E k \in Kubectls :
         \/ HandleCredProxy(k) \/ GetOIDCBearerToken(k)
         \/ JoinRefresh(k) \/ KubectlAnswered(k)
    \/ IssuerRefreshes \/ DoOIDCRefresh \/ OIDCRefreshFails
    \/ AccessExpires \/ ProxyRestarts

BindingSpec == BindingInit /\ [][BindingNext]_bindingVars

-----------------------------------------------------------------------------
(* Properties *)

BindingTypeOK ==
    /\ access.refresh \in 0..(MaxRefreshes + 1)
    /\ \A k \in Kubectls : kubectl[k].pc \in {"idle", "bearer", "join", "wait", "served", "failed"}
    /\ refresh.state \in {"none", "asks", "answered", "refused"}
    /\ refresh.state = "none" => Waiting = {}

\* The issuer never sees a spent refresh token, however many requests find that
\* the access token has run out and in whatever order their refreshes begin, unless
\* a new one was bought and not kept: by a restart of the proxy, or because the
\* client that began the refresh had gone when the answer came.
SpentIsNotShown == issuer.revoked => forgotten
=============================================================================
