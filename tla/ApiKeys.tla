------------------------------- MODULE ApiKeys -------------------------------
(***************************************************************************)
(* The keys of workspaces. A maintainer mints a key and is shown its       *)
(* secret once; the row keeps a hash, made with the pepper of the process. *)
(* codex-app-gateway asks agentserver what a presented secret may; the     *)
(* answer is a workspace and scopes, and a later write of the time of use. *)
(* The gateway looks for secrets that begin with another prefix than the   *)
(* one they are minted with, and starts no turn for any of them.           *)
(***************************************************************************)
EXTENDS Naturals

CONSTANTS
    Keys,           \* keys, each minted once
    Clients,        \* requests that present a secret
    Tenants,        \* workspaces
    Peppers,        \* what processes may be configured with
    MaxLife,        \* days a key may last (365)
    DefaultLife,    \* days it lasts when nobody says (90)
    MaxKeyDays,     \* bound
    NoKey

ASSUME ApiKeysAssumption ==
    /\ NoKey \notin Keys
    /\ MaxLife \in Nat /\ DefaultLife \in 0..MaxLife /\ MaxKeyDays \in Nat

VARIABLES
    key,        \* per key: its row
    pepper,     \* of the process
    asking,     \* per request: its step, what it presents, and the row it has read
    touching,   \* keys whose time of use is being written
    keyDay,
    grants,     \* history: what was answered, and to what was presented
    revokers    \* history: workspaces whose maintainers revoked a key

keyVars == <<key, pepper, asking, touching, keyDay, grants, revokers>>

Available == {"turns:submit"}
Catalog == Available \cup {"turns:read"}
MintedPrefix == "ask"

Never == MaxKeyDays + MaxLife + 1       \* a time that is NULL

NoKeyRow == [minted |-> FALSE, ws |-> CHOOSE w \in Tenants : TRUE, scopes |-> {},
             expires |-> 0, pepper |-> CHOOSE p \in Peppers : TRUE,
             revoked |-> Never, used |-> Never]
\* late: history, whether the key was over when it was presented
NotAsking == [pc |-> "none", at |-> "agentserver", late |-> FALSE, row |-> NoKeyRow,
              secret |-> [key |-> NoKey, whole |-> TRUE, prefix |-> MintedPrefix]]

KeysInit ==
    /\ key = [k \in Keys |-> NoKeyRow]
    /\ pepper \in Peppers
    /\ asking = [c \in Clients |-> NotAsking]
    /\ touching = {} /\ keyDay = 0 /\ grants = {} /\ revokers = {}

-----------------------------------------------------------------------------
(* Members *)

\* Mutant: any scope of the catalog.
ScopesKnown(scopes) == scopes # {} /\ scopes \subseteq Catalog

\* validateScopes
ScopesValid(scopes) == scopes # {} /\ scopes \subseteq Available

\* resolveExpiresAt: in the past, or too late, is refused.
Expirations == {keyDay + DefaultLife} \cup (keyDay..(keyDay + MaxLife))

MintWorkspaceAPIKey(k, w, scopes, expires) ==
    /\ ~key[k].minted
    /\ ScopesValid(scopes) /\ expires \in Expirations
    /\ key' = [key EXCEPT ![k] = [NoKeyRow EXCEPT !.minted = TRUE, !.ws = w,
                    !.scopes = scopes, !.expires = expires, !.pepper = pepper]]
    /\ UNCHANGED <<pepper, asking, touching, keyDay, grants, revokers>>

\* Mutant: the workspace of the path is not compared.
RevokeById(k, w) ==
    /\ key[k].minted
    /\ key' = [key EXCEPT ![k].revoked = IF @ = Never THEN keyDay ELSE @]
    /\ revokers' = IF key[k].revoked = Never THEN revokers \cup {<<k, w>>} ELSE revokers
    /\ UNCHANGED <<pepper, asking, touching, keyDay, grants>>

\* A maintainer of w revokes a key; the first time stays.
RevokeWorkspaceAPIKey(k, w) ==
    /\ key[k].minted
    /\ LET hit == key[k].ws = w /\ key[k].revoked = Never IN
         /\ key' = [key EXCEPT ![k].revoked = IF hit THEN keyDay ELSE @]
         /\ revokers' = IF hit THEN revokers \cup {<<k, w>>} ELSE revokers
    /\ UNCHANGED <<pepper, asking, touching, keyDay, grants>>

-----------------------------------------------------------------------------
(* Presenting a secret *)

Secrets == [key : Keys, whole : BOOLEAN, prefix : {"ask", "wak"}]

\* requireInternalOrAPIKey of codex-app-gateway: only a secret that begins with
\* "wak" goes on to agentserver.
GatewayForwards(secret) == secret.prefix = "wak"

\* Parse: the prefix of the minted keys, and a checksum over it and the secret.
Parses(secret) == secret.prefix = MintedPrefix /\ secret.whole

Over(k) == key[k].revoked # Never \/ key[k].expires <= keyDay

\* A secret is presented at the gateway, or by a service within the cluster at
\* agentserver itself.
PresentSecret(c, secret, at) ==
    /\ asking[c].pc = "none"
    /\ key[secret.key].minted
    /\ asking' = [asking EXCEPT ![c] = [NotAsking EXCEPT
         !.pc = IF (at = "gateway" => GatewayForwards(secret)) /\ Parses(secret)
                THEN "parsed" ELSE "refused",
         !.at = at, !.secret = secret, !.late = Over(secret.key)]]
    /\ UNCHANGED <<key, pepper, touching, keyDay, grants, revokers>>

\* Mutant: keys that have expired are found.
LiveForever(k) == key[k].minted /\ key[k].revoked = Never

\* The condition of the query.
LiveKey(k) == key[k].minted /\ key[k].revoked = Never /\ key[k].expires > keyDay

\* ValidateWorkspaceAPIKeySecret: the row of the prefix, whose hash must be that of
\* the secret with the pepper of this process.
ValidateWorkspaceAPIKeySecret(c) ==
    LET k == asking[c].secret.key IN
    /\ asking[c].pc = "parsed"
    /\ asking' = [asking EXCEPT
         ![c].pc = IF LiveKey(k) /\ key[k].pepper = pepper THEN "valid" ELSE "refused",
         ![c].row = key[k]]
    /\ UNCHANGED <<key, pepper, touching, keyDay, grants, revokers>>

\* The answer, which may come after the row has changed; the time of use is written
\* later.
Authorize(c) ==
    LET k == asking[c].secret.key
        row == asking[c].row IN
    /\ asking[c].pc = "valid"
    /\ asking' = [asking EXCEPT ![c] = [NotAsking EXCEPT !.pc = "done"]]
    /\ grants' = grants \cup {[key |-> k, ws |-> row.ws, scopes |-> row.scopes,
                               late |-> asking[c].late, whole |-> asking[c].secret.whole]}
    /\ touching' = touching \cup {k}
    /\ UNCHANGED <<key, pepper, keyDay, revokers>>

\* The write may fail, and nobody minds.
TouchWorkspaceAPIKeyLastUsed(k) ==
    /\ k \in touching
    /\ touching' = touching \ {k}
    /\ \E used \in {keyDay, key[k].used} : key' = [key EXCEPT ![k].used = used]
    /\ UNCHANGED <<pepper, asking, keyDay, grants, revokers>>

\* A new process, perhaps with another pepper: requests and writes are lost.
PepperRestart ==
    /\ pepper' \in Peppers \ {pepper}
    /\ asking' = [c \in Clients |->
         IF asking[c].pc = "none" THEN asking[c] ELSE [NotAsking EXCEPT !.pc = "done"]]
    /\ touching' = {}
    /\ UNCHANGED <<key, keyDay, grants, revokers>>

NextKeyDay ==
    /\ keyDay < MaxKeyDays
    /\ keyDay' = keyDay + 1
    /\ UNCHANGED <<key, pepper, asking, touching, grants, revokers>>

KeysNext ==
    \/ \E k \in Keys, w \in Tenants :
         \/ \E scopes \in SUBSET Catalog, expires \in Expirations :
              MintWorkspaceAPIKey(k, w, scopes, expires)
         \/ RevokeWorkspaceAPIKey(k, w)
    \/ \E c \in Clients :
         \/ \E secret \in Secrets, at \in {"gateway", "agentserver"} :
              PresentSecret(c, secret, at)
         \/ ValidateWorkspaceAPIKeySecret(c) \/ Authorize(c)
    \/ \E k \in Keys : TouchWorkspaceAPIKeyLastUsed(k)
    \/ PepperRestart \/ NextKeyDay

KeysSpec == KeysInit /\ [][KeysNext]_keyVars

-----------------------------------------------------------------------------
(* Properties *)

KeysTypeOK ==
    /\ \A k \in Keys :
         /\ key[k].minted => key[k].ws \in Tenants
         /\ key[k].scopes \subseteq Catalog
         /\ key[k].expires \in 0..(MaxKeyDays + MaxLife)
         /\ {key[k].revoked, key[k].used} \subseteq 0..Never
    /\ pepper \in Peppers /\ touching \subseteq Keys /\ keyDay \in 0..MaxKeyDays
    /\ \A c \in Clients :
         asking[c].pc \in {"none", "parsed", "valid", "done", "refused"}

\* A secret is answered with a workspace and scopes only if its key was minted for
\* that workspace, with scopes that can be given, and was neither revoked nor over
\* before it was presented, however long the answer took.
GrantsAreLive ==
    \A g \in grants :
        /\ key[g.key].ws = g.ws /\ g.scopes \subseteq Available
        /\ g.whole /\ ~g.late

\* A key is revoked by its own workspace, and shows a time of use only if it was
\* used.
RowsAreTrue ==
    /\ \A r \in revokers : r[2] = key[r[1]].ws
    /\ \A k \in Keys : key[k].used # Never =>
         \E g \in grants : g.key = k

KeysSound == GrantsAreLive /\ RowsAreTrue
=============================================================================
