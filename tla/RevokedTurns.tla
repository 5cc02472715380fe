---------------------------- MODULE RevokedTurns ----------------------------
(***************************************************************************)
(* The revoked turns of codex-exec-gateway (revocation.go): a set bounded  *)
(* by RevokedCap that gives up its oldest entry for a new one, and the     *)
(* check of a bridge's capability token against it. Time is in units of    *)
(* the default life of a revocation: a token lives CapTokenTTL of them.    *)
(***************************************************************************)
EXTENDS Naturals, SequencesExt

CONSTANTS
    Turns,
    RevokedCap,     \* 10000 in server.go
    CapTokenTTL,    \* 24 hours in config.go
    RevokeTTL,      \* one hour in internal_api.go
    MaxNow          \* bound: the clock stops here

ASSUME RevokedTurnsAssumption ==
    /\ RevokedCap \in Nat \ {0} /\ CapTokenTTL \in Nat /\ RevokeTTL \in Nat
    /\ MaxNow \in Nat \ {0}

VARIABLES
    clock,      \* seconds since the start, in units
    token,      \* per turn: the EXP of its token, 0 before it is minted
    revoked,    \* RevokedSet.order: turns with their exp, oldest first
    revocation, \* per turn: the exp of its last revocation, 0 without one
    evictedLive \* turns that were given up with a warning in the log

revokedVars == <<clock, token, revoked, revocation, evictedLive>>

RevokedInit ==
    /\ clock = 1
    /\ token = [t \in Turns |-> 0]
    /\ revoked = << >>
    /\ revocation = [t \in Turns |-> 0]
    /\ evictedLive = {}

Entries == ToSet(revoked)
RevokedIds == {e.turn : e \in Entries}
EntryOf(t) == CHOOSE i \in DOMAIN revoked : revoked[i].turn = t

Tick ==
    /\ clock < MaxNow
    /\ clock' = clock + 1
    /\ UNCHANGED <<token, revoked, revocation, evictedLive>>

MintCapToken(t) ==
    /\ token[t] = 0
    /\ token' = [token EXCEPT ![t] = clock + CapTokenTTL]
    /\ UNCHANGED <<clock, revoked, revocation, evictedLive>>

-----------------------------------------------------------------------------
(* RevokedSet.Add *)

Refresh(t, exp) ==
    revoked' = Append(RemoveAt(revoked, EntryOf(t)), [turn |-> t, exp |-> exp])

\* Mutants: the cap is off by one; the eviction is not worth a warning.
OverCap(t, exp) ==
    LET full == Len(revoked) > RevokedCap IN
    /\ revoked' = Append(IF full THEN Tail(revoked) ELSE revoked,
                         [turn |-> t, exp |-> exp])
    /\ evictedLive' = (IF full THEN evictedLive \cup {Head(revoked).turn}
                       ELSE evictedLive) \ {t}

EvictSilently(t, exp) ==
    /\ revoked' = Append(IF Len(revoked) < RevokedCap THEN revoked ELSE Tail(revoked),
                         [turn |-> t, exp |-> exp])
    /\ evictedLive' = evictedLive \ {t}

\* At the cap the oldest entry goes; the caller is told if it was alive.
Insert(t, exp) ==
    LET full == Len(revoked) >= RevokedCap
        live == full /\ Head(revoked).exp > clock IN
    /\ revoked' = Append(IF full THEN Tail(revoked) ELSE revoked,
                         [turn |-> t, exp |-> exp])
    /\ evictedLive' = (IF live THEN evictedLive \cup {Head(revoked).turn}
                       ELSE evictedLive) \ {t}

\* The handler: without an exp in the request the entry lives for an hour.
RevokeTurn(t) ==
    \E exp \in {clock + RevokeTTL, token[t]} :
        /\ token[t] # 0
        /\ \/ t \in RevokedIds /\ Refresh(t, exp) /\ UNCHANGED evictedLive
           \/ t \notin RevokedIds /\ Insert(t, exp)
        /\ revocation' = [revocation EXCEPT ![t] = exp]
        /\ UNCHANGED <<clock, token>>

\* VerifyCapabilityToken, then Contains: who gets past both may open a bridge.
Admits(t) == token[t] # 0 /\ clock <= token[t] /\ t \notin RevokedIds

RevokedNext == Tick \/ \E t \in Turns : MintCapToken(t) \/ RevokeTurn(t)

RevokedSpec == RevokedInit /\ [][RevokedNext]_revokedVars

-----------------------------------------------------------------------------
(* Properties *)

RevokedEntries == [turn : Turns, exp : 1..(MaxNow + CapTokenTTL + RevokeTTL)]

RevokedTypeOK ==
    /\ clock \in 1..MaxNow
    /\ token \in [Turns -> 0..(MaxNow + CapTokenTTL)]
    /\ revoked \in Seq(RevokedEntries)
    /\ Len(revoked) <= RevokedCap
    /\ revocation \in [Turns -> 0..(MaxNow + CapTokenTTL + RevokeTTL)]
    /\ evictedLive \subseteq Turns

\* While a revocation lasts, its turn is not admitted again unless the eviction
\* was reported: the bounded set forgets nothing silently (RevokedSet.Add).
NoSilentRelapse ==
    \A t \in Turns : revocation[t] > clock /\ Admits(t) => t \in evictedLive
=============================================================================
