------------------------------ MODULE WeixinLogin ------------------------------
(***************************************************************************)
(* The login of a WeChat account to a workspace by QR code: the codes      *)
(* iLink issues, the session the imbridge process keeps for the workspace, *)
(* the qr-start and qr-wait requests that share it, and the channel a      *)
(* confirmed login is saved to. A code is a number, in the order of issue; *)
(* the bot token of a login is the code it was confirmed with.             *)
(***************************************************************************)
EXTENDS Naturals

CONSTANTS
    Waits,         \* qr-start and qr-wait requests under way at once
    MaxCodes       \* bound: codes issued

ASSUME WeixinAssumption == MaxCodes \in Nat

VARIABLES
    qrCode,        \* at iLink, per code: status, and whether it moved to another IDC
    codes,         \* codes issued
    qrSession,     \* the session of the workspace: code and host; code 0: none
    stale,         \* codes whose session is older than sessionTTL
    wait,          \* per request: step, its copy of the session, the answer
    savedToken,    \* bot_token of the channel row, 0: none
    polledWith,    \* the token of its poller, 0: none
    saved,         \* history: per code, requests that went on to save it, up to 2
    again          \* history: codes that a request may rightly find taken twice

weixinVars == <<qrCode, codes, qrSession, stale, wait, savedToken, polledWith, saved, again>>

Codes == 1..MaxCodes

NoQR == [code |-> 0, moved |-> FALSE]
Idle == [pc |-> "idle", copy |-> NoQR, status |-> "wait"]

WeixinInit ==
    /\ qrCode = [k \in Codes |-> [status |-> "none", moved |-> FALSE]]
    /\ codes = 0
    /\ qrSession = NoQR
    /\ stale = {}
    /\ wait = [w \in Waits |-> Idle]
    /\ savedToken = 0 /\ polledWith = 0
    /\ saved = [k \in Codes |-> 0]
    /\ again = {}

-----------------------------------------------------------------------------
(* iLink and the user's phone *)

Becomes(k, s) == qrCode' = [qrCode EXCEPT ![k].status = s]

\* The user scans and confirms, or finds the bot connected already, or mistypes
\* the pairing code; a code that is not confirmed expires.
PhoneActs(k) ==
    /\ \/ qrCode[k].status = "wait" /\ Becomes(k, "scaned")
       \/ /\ qrCode[k].status = "scaned"
          /\ \E s \in {"confirmed", "binded_redirect", "verify_code_blocked"} : Becomes(k, s)
       \/ qrCode[k].status \in {"wait", "scaned"} /\ Becomes(k, "expired")
       \/ /\ qrCode[k].status = "scaned" /\ ~qrCode[k].moved
          /\ qrCode' = [qrCode EXCEPT ![k].moved = TRUE]
    /\ UNCHANGED <<codes, qrSession, stale, wait, savedToken, polledWith, saved, again>>

\* The old host redirects for a code that has moved.
StatusAt(q) == IF qrCode[q.code].moved /\ ~q.moved THEN "scaned_but_redirect"
               ELSE qrCode[q.code].status

-----------------------------------------------------------------------------
(* The session of the workspace, under the mutex of the weixin package *)

SetSession(q) == qrSession' = q

Purged == IF qrSession.code \in stale THEN NoQR ELSE qrSession

\* Mutant: a confirmed login reads the session and leaves it.
ReadSession == UNCHANGED qrSession

TakeSession == qrSession' = NoQR

SessionAges ==
    /\ qrSession.code \in Codes \ stale
    /\ stale' = stale \cup {qrSession.code}
    /\ UNCHANGED <<qrCode, codes, qrSession, wait, savedToken, polledWith, saved, again>>

-----------------------------------------------------------------------------
(* Requests *)

WaitGoes(w, pc, q) == wait' = [wait EXCEPT ![w] = [Idle EXCEPT !.pc = pc, !.copy = q]]

Finishes(w) == wait' = [wait EXCEPT ![w] = Idle]

\* StartLogin, by qr-start or by a qr-wait whose code has expired: a new code,
\* or an error, upon which the qr-wait clears the session, whosever it is.
StartLogin(w) ==
    /\ wait[w].pc \in {"idle", "refresh"}
    /\ \/ /\ codes < MaxCodes
          /\ codes' = codes + 1
          /\ Becomes(codes + 1, "wait")
          /\ WaitGoes(w, "set", [code |-> codes + 1, moved |-> FALSE])
          /\ UNCHANGED qrSession
       \/ /\ wait[w].pc = "refresh"
          /\ SetSession(NoQR)
          /\ Finishes(w)
          /\ UNCHANGED <<qrCode, codes>>
    /\ UNCHANGED <<stale, savedToken, polledWith, saved, again>>

StoreSession(w) ==
    /\ wait[w].pc = "set"
    /\ SetSession(wait[w].copy)
    /\ Finishes(w)
    /\ UNCHANGED <<qrCode, codes, stale, savedToken, polledWith, saved, again>>

\* qr-wait goes on with a copy of the session.
QRWait(w) ==
    /\ wait[w].pc = "idle"
    /\ qrSession' = Purged
    /\ IF Purged = NoQR THEN UNCHANGED wait ELSE WaitGoes(w, "poll", Purged)
    /\ UNCHANGED <<qrCode, codes, stale, savedToken, polledWith, saved, again>>

\* The long poll answers with the status of now; the request acts on it later.
PollLoginStatus(w) ==
    /\ wait[w].pc = "poll"
    /\ \/ wait' = [wait EXCEPT ![w].pc = "answered", ![w].status = StatusAt(wait[w].copy)]
       \/ Finishes(w)
    /\ UNCHANGED <<qrCode, codes, qrSession, stale, savedToken, polledWith, saved, again>>

Answered(w, status) == wait[w].pc = "answered" /\ wait[w].status = status

Own(w) == wait[w].copy.code

\* The first of the requests that poll a login takes the session, and the others
\* find it gone. It takes what is there, be it the session of a newer code.
Confirmed(w) ==
    /\ Answered(w, "confirmed")
    /\ TakeSession
    /\ IF qrSession = NoQR THEN Finishes(w) /\ UNCHANGED <<saved, again>>
       ELSE /\ WaitGoes(w, "create", wait[w].copy)
            /\ saved' = [saved EXCEPT ![Own(w)] = IF @ < 2 THEN @ + 1 ELSE @]
            /\ again' = IF qrSession.code = Own(w) THEN again ELSE again \cup {Own(w)}
    /\ UNCHANGED <<qrCode, codes, stale, savedToken, polledWith>>

Expired(w) ==
    /\ Answered(w, "expired")
    /\ WaitGoes(w, "refresh", wait[w].copy)
    /\ UNCHANGED <<qrCode, codes, qrSession, stale, savedToken, polledWith, saved, again>>

\* The copy, with its new host, goes back to the store, over whatever is there:
\* nothing, when the session was taken in between.
Redirected(w) ==
    /\ Answered(w, "scaned_but_redirect")
    /\ SetSession([wait[w].copy EXCEPT !.moved = TRUE])
    /\ Finishes(w)
    /\ again' = IF saved[Own(w)] > 0 THEN again \cup {Own(w)} ELSE again
    /\ UNCHANGED <<qrCode, codes, stale, savedToken, polledWith, saved>>

GivesUp(w) ==
    /\ Answered(w, "binded_redirect") \/ Answered(w, "verify_code_blocked")
    /\ TakeSession
    /\ Finishes(w)
    /\ UNCHANGED <<qrCode, codes, stale, savedToken, polledWith, saved, again>>

KeepsWaiting(w) ==
    /\ Answered(w, "wait") \/ Answered(w, "scaned")
    /\ Finishes(w)
    /\ UNCHANGED <<qrCode, codes, qrSession, stale, savedToken, polledWith, saved, again>>

\* The row, its credentials, the poller. A failed write ends the request, the
\* session being gone: the user starts again.
SaveLogin(w) ==
    /\ \/ /\ wait[w].pc = "create"
          /\ WaitGoes(w, "save", wait[w].copy)
          /\ UNCHANGED <<savedToken, polledWith>>
       \/ /\ wait[w].pc = "save"
          /\ savedToken' = Own(w)
          /\ WaitGoes(w, "start", wait[w].copy)
          /\ UNCHANGED polledWith
       \/ /\ wait[w].pc = "start"
          /\ polledWith' = Own(w)
          /\ Finishes(w)
          /\ UNCHANGED savedToken
       \/ /\ wait[w].pc \in {"create", "save"}
          /\ Finishes(w)
          /\ UNCHANGED <<savedToken, polledWith>>
    /\ UNCHANGED <<qrCode, codes, qrSession, stale, saved, again>>

-----------------------------------------------------------------------------

WeixinNext ==
    \/ \E k \in 1..codes : PhoneActs(k)
    \/ SessionAges
    \/ \E w \in Waits :
          \/ StartLogin(w) \/ StoreSession(w) \/ QRWait(w) \/ PollLoginStatus(w)
          \/ Confirmed(w) \/ Expired(w) \/ Redirected(w) \/ GivesUp(w) \/ KeepsWaiting(w)
          \/ SaveLogin(w)

WeixinSpec == WeixinInit /\ [][WeixinNext]_weixinVars

-----------------------------------------------------------------------------

Statuses == {"none", "wait", "scaned", "confirmed", "expired", "binded_redirect",
             "verify_code_blocked", "scaned_but_redirect"}

WeixinTypeOK ==
    /\ qrCode \in [Codes -> [status : Statuses, moved : BOOLEAN]]
    /\ codes \in 0..MaxCodes
    /\ qrSession \in [code : 0..MaxCodes, moved : BOOLEAN]
    /\ stale \subseteq Codes
    /\ wait \in [Waits -> [pc : {"idle", "refresh", "set", "poll", "answered", "create",
                                 "save", "start"},
                           copy : [code : 0..MaxCodes, moved : BOOLEAN],
                           status : Statuses]]
    /\ savedToken \in 0..MaxCodes /\ polledWith \in 0..MaxCodes
    /\ saved \in [Codes -> 0..2]

\* "TakeSession atomically returns and removes the session" (ilink.go:299), so
\* that of the requests that see a login confirmed one saves it and the others
\* answer 409: no login is saved twice, unless a redirect that was answered
\* before it was confirmed put its session back, or a request took the session
\* of another code for it.
SavedOnce == \A k \in Codes : saved[k] > 1 => k \in again
=============================================================================
