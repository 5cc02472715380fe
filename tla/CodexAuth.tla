----------------------------- MODULE CodexAuth -----------------------------
(***************************************************************************)
(* The issuer of logins for codex: authorization codes, got in a browser   *)
(* or by a device code that a user approves, are exchanged for an access   *)
(* and a refresh token. A refresh token is replaced on every use, inside   *)
(* its family; a token that is used again burns the family. One user. The  *)
(* steps are the statements of the handlers, each committed on its own but *)
(* for the transaction of RotateRefreshToken.                              *)
(***************************************************************************)
EXTENDS Integers, FiniteSets

CONSTANTS
    Devices,        \* device codes; each yields one authorization code
    Clients,        \* codex processes; all read and write one auth.json
    MaxTokens       \* bound: refresh tokens ever issued

ASSUME CodexAuthAssumption == IsFiniteSet(Devices) /\ MaxTokens \in Nat \ {0}

VARIABLES
    device,     \* status of each device code, "none" before it exists
    devicePoll,       \* per device code: step of the request that found it approved
    code,       \* per authorization code: "none", "open" or "gone"
    refresh,    \* per refresh token: "none", "live" or "revoked"
    family,     \* its family: the first token of it
    auth,       \* per client: the request it has under way
    held,       \* the refresh token in auth.json, 0 for none
    minted,     \* an access token was inserted in this second
    grants,     \* per code: the families that were founded with it
    disturbed   \* an answer was lost or refused, or two clients met

deviceVars == <<device, devicePoll>>
authVars == <<deviceVars, code, refresh, family, auth, held, minted, grants, disturbed>>

RefreshTokens == 1..MaxTokens
NoAuth == [pc |-> "idle", old |-> 0, new |-> 0, burn |-> {}]

Unissued == {t \in RefreshTokens : refresh[t] = "none"}
NextToken == CHOOSE t \in Unissued : \A s \in Unissued : t <= s

\* The rows that a transaction has updated and not committed.
LockedTokens == {auth[c].old : c \in {d \in Clients : auth[d].pc = "insert"}}

AuthInit ==
    /\ device = [d \in Devices |-> "none"] /\ devicePoll = [d \in Devices |-> "idle"]
    /\ code = [d \in Devices |-> "none"]
    /\ refresh = [t \in RefreshTokens |-> "none"] /\ family = [t \in RefreshTokens |-> 0]
    /\ auth = [c \in Clients |-> NoAuth]
    /\ held = 0 /\ minted = FALSE
    /\ grants = [d \in Devices |-> {}] /\ disturbed = FALSE

-----------------------------------------------------------------------------
(* Codes *)

\* handleDeviceUserCode
RequestDeviceCode(d) ==
    /\ device[d] = "none" /\ device' = [device EXCEPT ![d] = "pending"]
    /\ UNCHANGED <<devicePoll, code, refresh, family, auth, held, minted, grants, disturbed>>

\* handleDeviceVerifySubmit, both buttons; also the end of the code's time.
DecideDeviceCode(d) ==
    /\ device[d] = "pending"
    /\ \E s \in {"approved", "denied"} : device' = [device EXCEPT ![d] = s]
    /\ UNCHANGED <<devicePoll, code, refresh, family, auth, held, minted, grants, disturbed>>

\* handleDeviceToken: of several polls that read approved one gets the row.
ExchangeDeviceCode(d) ==
    /\ device[d] = "approved" /\ device' = [device EXCEPT ![d] = "exchanged"]
    /\ devicePoll' = [devicePoll EXCEPT ![d] = "insert"]
    /\ UNCHANGED <<code, refresh, family, auth, held, minted, grants, disturbed>>

\* If the insertion fails the device code is spent without a login.
InsertPkceRequest(d) ==
    /\ devicePoll[d] = "insert" /\ devicePoll' = [devicePoll EXCEPT ![d] = "idle"]
    /\ \E s \in {"open", "gone"} : code' = [code EXCEPT ![d] = s]
    /\ UNCHANGED <<device, refresh, family, auth, held, minted, grants, disturbed>>

\* handleAuthorize: a signed-in user gets a code without a device.
Authorize(d) ==
    /\ device[d] = "none" /\ code[d] = "none"
    /\ device' = [device EXCEPT ![d] = "exchanged"]
    /\ code' = [code EXCEPT ![d] = "open"]
    /\ UNCHANGED <<devicePoll, refresh, family, auth, held, minted, grants, disturbed>>

CodeExpires(d) ==
    /\ code[d] = "open" /\ code' = [code EXCEPT ![d] = "gone"]
    /\ UNCHANGED <<deviceVars, refresh, family, auth, held, minted, grants, disturbed>>

-----------------------------------------------------------------------------
(* /oauth/token *)

\* ConsumePkceRequest
ConsumePkceRequest(d) == code' = [code EXCEPT ![d] = "gone"]

\* handleTokenAuthorizationCode; nobody sees the new rows before the answer. The
\* verifier may not match, a query may fail, and the access token may be that of
\* another login of the same second, whose claims and signature are the same.
UseCode(c, d) ==
    /\ code[d] = "open" /\ auth[c].pc = "idle" /\ Unissued # {}
    /\ ConsumePkceRequest(d)
    /\ \/ /\ ~minted /\ minted' = TRUE
          /\ auth' = [auth EXCEPT ![c] = [NoAuth EXCEPT !.pc = "answer", !.new = NextToken]]
          /\ refresh' = [refresh EXCEPT ![NextToken] = "live"]
          /\ family' = [family EXCEPT ![NextToken] = NextToken]
          /\ grants' = [grants EXCEPT ![d] = @ \cup {NextToken}]
       \/ /\ minted' \in {minted, TRUE}
          /\ UNCHANGED <<auth, refresh, family, grants>>
    /\ UNCHANGED <<deviceVars, held, disturbed>>

NextSecond ==
    /\ minted /\ minted' = FALSE
    /\ UNCHANGED <<deviceVars, code, refresh, family, auth, held, grants, disturbed>>

\* handleTokenRefresh: the UPDATE of RotateRefreshToken waits for a lock.
Rotate(c) ==
    /\ auth[c].pc = "idle" /\ held # 0 /\ held \notin LockedTokens
    /\ refresh[held] = "live"
    /\ auth' = [auth EXCEPT ![c] = [NoAuth EXCEPT !.pc = "insert", !.old = held]]
    /\ UNCHANGED <<deviceVars, code, refresh, family, held, minted, grants, disturbed>>

\* A client sends a token that it read before the token was replaced: the live
\* relatives of it, as this statement sees them.
DetectReuse(c) ==
    /\ auth[c].pc = "idle"
    /\ \E s \in RefreshTokens :
          /\ refresh[s] = "revoked"
          /\ auth' = [auth EXCEPT ![c] =
                [NoAuth EXCEPT !.pc = "burn", !.old = s,
                   !.burn = {t \in RefreshTokens : family[t] = family[s] /\ refresh[t] = "live"}]]
    /\ disturbed' = TRUE
    /\ UNCHANGED <<deviceVars, code, refresh, family, held, minted, grants>>

\* The UPDATE waits for the rows of its snapshot and looks at each of them again;
\* a row that was inserted meanwhile is not among them. The answer makes codex
\* drop the login.
BurnFamily(c) ==
    /\ auth[c].pc = "burn" /\ auth[c].burn \cap LockedTokens = {}
    /\ refresh' = [t \in RefreshTokens |-> IF t \in auth[c].burn THEN "revoked" ELSE refresh[t]]
    /\ auth' = [auth EXCEPT ![c] = NoAuth]
    /\ held' = IF held = auth[c].old THEN 0 ELSE held
    /\ UNCHANGED <<deviceVars, code, family, minted, grants, disturbed>>

\* Mutant: the old token is not revoked.
CommitWithoutRevoke(c) ==
    [refresh EXCEPT ![NextToken] = "live"]

\* The statements of the transaction become visible together.
CommitRotation(c) ==
    [refresh EXCEPT ![auth[c].old] = "revoked", ![NextToken] = "live"]

InsertRefreshToken(c) ==
    /\ auth[c].pc = "insert" /\ Unissued # {}
    /\ refresh' = CommitRotation(c)
    /\ family' = [family EXCEPT ![NextToken] = family[auth[c].old]]
    /\ auth' = [auth EXCEPT ![c].pc = "mint", ![c].new = NextToken]
    /\ UNCHANGED <<deviceVars, code, held, minted, grants, disturbed>>

RollBack(c) ==
    /\ auth[c].pc \in {"insert", "burn"} /\ auth' = [auth EXCEPT ![c] = NoAuth]
    /\ UNCHANGED <<deviceVars, code, refresh, family, held, minted, grants, disturbed>>

InsertAccessToken(c) ==
    /\ auth[c].pc = "mint" /\ ~minted /\ minted' = TRUE
    /\ auth' = [auth EXCEPT ![c].pc = "answer"]
    /\ UNCHANGED <<deviceVars, code, refresh, family, held, grants, disturbed>>

\* Nothing undoes the rotation when the access token cannot be inserted (its
\* hash is that of the one minted in the same second, or the query fails).
MintFails(c) ==
    /\ auth[c].pc = "mint" /\ auth' = [auth EXCEPT ![c] = NoAuth]
    /\ disturbed' = TRUE
    /\ UNCHANGED <<deviceVars, code, refresh, family, held, minted, grants>>

\* The client stores what it got in auth.json.
AnswerToken(c) ==
    /\ auth[c].pc = "answer" /\ held' = auth[c].new
    /\ auth' = [auth EXCEPT ![c] = NoAuth]
    /\ UNCHANGED <<deviceVars, code, refresh, family, minted, grants, disturbed>>

AnswerIsLost(c) ==
    /\ auth[c].pc = "answer" /\ auth' = [auth EXCEPT ![c] = NoAuth]
    /\ disturbed' = TRUE
    /\ UNCHANGED <<deviceVars, code, refresh, family, held, minted, grants>>

AuthNext ==
    \/ \E d \in Devices : \/ RequestDeviceCode(d) \/ DecideDeviceCode(d)
                          \/ ExchangeDeviceCode(d) \/ InsertPkceRequest(d)
                          \/ Authorize(d) \/ CodeExpires(d)
                          \/ \E c \in Clients : UseCode(c, d)
    \/ NextSecond
    \/ \E c \in Clients : \/ Rotate(c) \/ DetectReuse(c) \/ BurnFamily(c)
                          \/ InsertRefreshToken(c) \/ RollBack(c)
                          \/ InsertAccessToken(c) \/ MintFails(c)
                          \/ AnswerToken(c) \/ AnswerIsLost(c)

AuthSpec == AuthInit /\ [][AuthNext]_authVars

-----------------------------------------------------------------------------
AuthStates == [pc : {"idle", "insert", "mint", "answer", "burn"},
               old : 0..MaxTokens, new : 0..MaxTokens, burn : SUBSET RefreshTokens]

AuthTypeOK ==
    /\ device \in [Devices -> {"none", "pending", "approved", "denied", "exchanged"}]
    /\ devicePoll \in [Devices -> {"idle", "insert"}]
    /\ code \in [Devices -> {"none", "open", "gone"}]
    /\ refresh \in [RefreshTokens -> {"none", "live", "revoked"}]
    /\ family \in [RefreshTokens -> 0..MaxTokens]
    /\ auth \in [Clients -> AuthStates]
    /\ held \in 0..MaxTokens /\ {minted, disturbed} \subseteq BOOLEAN
    /\ grants \in [Devices -> SUBSET RefreshTokens]

\* A family has one live refresh token at most, whatever clients refresh,
\* replay and burn at once (RotateRefreshToken), and a code founds one family
\* at most, whatever polls and retries there are (ConsumePkceRequest).
OneLivePerFamily ==
    /\ \A s, t \in RefreshTokens : (refresh[s] = "live" /\ refresh[t] = "live"
                               /\ family[s] = family[t]) => s = t
    /\ \A d \in Devices : Cardinality(grants[d]) <= 1

\* The login in auth.json goes on working: its token is live, or a client has
\* its successor under way, as long as no answer was lost or refused and no
\* client replayed a token (handleTokenRefresh).
LoginKept ==
    (held # 0 /\ ~disturbed) =>
       \/ refresh[held] = "live"
       \/ \E c \in Clients : auth[c].pc \in {"mint", "answer"}

\* Rotation invalidates what it replaces, and never the login it serves.
AuthSound == OneLivePerFamily /\ LoginKept
===============================================================================
