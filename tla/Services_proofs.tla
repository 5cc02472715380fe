--------------------------- MODULE Services_proofs ---------------------------
(***************************************************************************)
(* TLAPS proofs about the gateways of Codex and the services that connect  *)
(* users and agents, one by one, and of what they promise when they are    *)
(* taken together as in MCServices.                                        *)
(*                                                                         *)
(* The arguments: a revoked turn that has no entry was reported            *)
(* (RevokedInv); a rotation has the row of the old token locked, so that   *)
(* two clients never hold the same token (RequestKnown, RequestsApart); a  *)
(* connection nobody closes is registered or about to be replaced, and a   *)
(* session under way holds its route or is over (OpenKnown, SessionKnown); *)
(* a turn that overlaps no other works in the thread of the row, or in one *)
(* that Codex has lost (TurnsInv); what a loop has                         *)
(* handed on lies behind the one loop that lives (BridgeInv); an indicator *)
(* that runs is the one in the map (TypingInv); a channel is tied to       *)
(* sandboxes of its own workspace alone (ChannelsInv); a code that was     *)
(* saved has no session any more (WeixinInv).                              *)
(***************************************************************************)
EXTENDS MCServices, Environment_proofs, SequenceTheorems, FiniteSetTheorems, TLAPS

-----------------------------------------------------------------------------
(* Revoked turns *)

Listed(t) == \E i \in 1..Len(revoked) : revoked[i].turn = t

\* Each turn has one entry, of its last revocation; the one that has none although its
\* revocation lasts was reported.
RevokedInv ==
    /\ RevokedTypeOK
    /\ \A i, j \in 1..Len(revoked) : revoked[i].turn = revoked[j].turn => i = j
    /\ \A i \in 1..Len(revoked) : revoked[i].exp = revocation[revoked[i].turn]
    /\ \A t \in Turns : revocation[t] > clock => Listed(t) \/ t \in evictedLive

LEMMA RevokedIdsListed == ASSUME RevokedTypeOK PROVE \A t \in Turns : t \in RevokedIds <=> Listed(t)
<1>1. DOMAIN revoked = 1..Len(revoked)
  BY LenProperties DEF RevokedTypeOK
<1> QED BY <1>1 DEF RevokedIds, Entries, ToSet, Listed

\* A sequence without its i-th element.
LEMMA RemoveAtProperties ==
    ASSUME NEW S, NEW s \in Seq(S), NEW i \in 1..Len(s)
    PROVE  /\ RemoveAt(s, i) \in Seq(S) /\ Len(RemoveAt(s, i)) = Len(s) - 1
           /\ \A j \in 1..(Len(s) - 1) : RemoveAt(s, i)[j] = s[IF j < i THEN j ELSE j + 1]
<1> DEFINE a == SubSeq(s, 1, i - 1)
           b == SubSeq(s, i + 1, Len(s))
<1>1. Len(s) \in Nat /\ i \in Nat /\ \A j \in 1..Len(s) : s[j] \in S
  BY ElementOfSeq, LenProperties
<1>2. /\ a \in Seq(S) /\ Len(a) = i - 1 /\ \A j \in 1..(i - 1) : a[j] = s[j]
  <2>1. \A j \in 1..(i - 1) : s[j] \in S
    BY <1>1
  <2>2. /\ a \in Seq(S) /\ Len(a) = IF 1 <= i - 1 THEN i - 1 - 1 + 1 ELSE 0
        /\ \A j \in 1..(i - 1 - 1 + 1) : a[j] = s[1 + j - 1]
    BY <1>1, <2>1, SubSeqProperties
  <2> HIDE DEF a
  <2> QED BY <1>1, <2>2
<1>3. /\ b \in Seq(S) /\ Len(b) = Len(s) - i /\ \A j \in 1..(Len(s) - i) : b[j] = s[i + j]
  <2>1. \A j \in (i + 1)..Len(s) : s[j] \in S
    BY <1>1
  <2>2. /\ b \in Seq(S) /\ Len(b) = IF i + 1 <= Len(s) THEN Len(s) - (i + 1) + 1 ELSE 0
        /\ \A j \in 1..(Len(s) - (i + 1) + 1) : b[j] = s[i + 1 + j - 1]
    <3>1. i + 1 \in Int /\ Len(s) \in Int
      BY <1>1
    <3> QED BY <2>1, <3>1, SubSeqProperties
  <2> HIDE DEF b
  <2>3. Len(b) = Len(s) - i
    BY <1>1, <2>2
  <2>4. ASSUME NEW j \in 1..(Len(s) - i) PROVE b[j] = s[i + j]
    <3>1. j \in 1..(Len(s) - (i + 1) + 1) /\ i + 1 + j - 1 = i + j
      BY <1>1
    <3> QED BY <2>2, <3>1
  <2> QED BY <2>2, <2>3, <2>4
<1>4. RemoveAt(s, i) = a \o b
  BY DEF RemoveAt
<1> HIDE DEF a, b
<1>5. /\ a \o b \in Seq(S) /\ Len(a \o b) = Len(a) + Len(b)
      /\ \A j \in 1..(Len(a) + Len(b)) :
            (a \o b)[j] = IF j <= Len(a) THEN a[j] ELSE b[j - Len(a)]
  BY <1>2, <1>3, ConcatProperties
<1>6. ASSUME NEW j \in 1..(Len(s) - 1)
      PROVE  (a \o b)[j] = s[IF j < i THEN j ELSE j + 1]
  <2>1. CASE j < i
    BY <1>1, <1>2, <1>3, <1>5, <2>1
  <2>2. CASE ~ (j < i)
    <3>1. j - (i - 1) \in 1..(Len(s) - i) /\ i + (j - (i - 1)) = j + 1
      BY <1>1, <2>2
    <3>2. (a \o b)[j] = b[j - (i - 1)]
      BY <1>1, <1>2, <1>3, <1>5, <2>2
    <3> QED BY <1>3, <2>2, <3>1, <3>2
  <2> QED BY <2>1, <2>2
<1> QED BY <1>1, <1>2, <1>3, <1>4, <1>5, <1>6

\* An entry for a turn is added to a list that lacks at most one of the entries before.
LEMMA AddedEntry ==
    ASSUME RevokedInv, NEW t \in Turns, NEW e \in RevokedEntries, e.turn = t,
           NEW base \in Seq(RevokedEntries), NEW k \in 1..(Len(revoked) + 1),
           Len(base) = IF k <= Len(revoked) THEN Len(revoked) - 1 ELSE Len(revoked),
           \A j \in 1..Len(base) : base[j] = revoked[IF j < k THEN j ELSE j + 1],
           \A j \in 1..Len(base) : base[j].turn # t,
           Len(base) < RevokedCap,
           revoked' = Append(base, e),
           revocation' = [revocation EXCEPT ![t] = e.exp],
           k <= Len(revoked) =>
              \/ revoked[k].turn = t \/ revoked[k].exp <= clock
              \/ revoked[k].turn \in evictedLive',
           evictedLive \ {t} \subseteq evictedLive', evictedLive' \subseteq Turns,
           UNCHANGED <<clock, token>>
    PROVE  RevokedInv'
<1> DEFINE n == Len(base)
<1>1. /\ revoked' \in Seq(RevokedEntries) /\ Len(revoked') = n + 1 /\ n \in Nat
      /\ revoked'[n + 1] = e
      /\ \A j \in 1..n : revoked'[j] = base[j]
  BY AppendProperties, LenProperties
<1>2. Len(revoked) \in Nat /\ \A j \in 1..Len(revoked) : revoked[j] \in RevokedEntries
  BY LenProperties, ElementOfSeq DEF RevokedInv, RevokedTypeOK
<1> DEFINE Old(j) == IF j < k THEN j ELSE j + 1
<1>3. ASSUME NEW j \in 1..n
      PROVE  Old(j) \in 1..Len(revoked) /\ Old(j) # k /\ revoked'[j] = revoked[Old(j)]
  BY <1>1, <1>2, SMTT(30)
<1>4. ASSUME NEW j \in 1..Len(revoked), j # k
      PROVE  \E i \in 1..n : Old(i) = j
  <2>1. CASE j < k
    <3>1. j \in 1..n /\ Old(j) = j
      BY <1>1, <1>2, <2>1
    <3> QED BY <3>1
  <2>2. CASE ~ (j < k)
    <3>1. j \in Int /\ k \in Int /\ k < j /\ n = Len(revoked) - 1
      BY <1>1, <1>2, <1>4, <2>2
    <3>2. j - 1 \in 1..n /\ ~ (j - 1 < k) /\ j - 1 + 1 = j
      BY <1>1, <1>2, <3>1
    <3> QED BY <3>2
  <2> QED BY <2>1, <2>2
<1>5. /\ revocation' \in [Turns -> 0..(MaxNow + CapTokenTTL + RevokeTTL)]
      /\ revocation'[t] = e.exp /\ \A u \in Turns : u # t => revocation'[u] = revocation[u]
  <2>1. e.exp \in 0..(MaxNow + CapTokenTTL + RevokeTTL)
    BY RevokedTurnsAssumption DEF RevokedEntries
  <2> QED BY <2>1 DEF RevokedInv, RevokedTypeOK
<1>6. RevokedTypeOK'
  BY <1>1, <1>5, RevokedTurnsAssumption DEF RevokedInv, RevokedTypeOK
<1>7. ASSUME NEW i \in 1..Len(revoked'), NEW j \in 1..Len(revoked'),
             revoked'[i].turn = revoked'[j].turn
      PROVE  i = j
  <2>1. \A l \in 1..n : revoked'[l].turn # t
    BY <1>1
  <2>2. CASE i = n + 1 \/ j = n + 1
    BY <1>1, <1>7, <2>1, <2>2
  <2>3. CASE i \in 1..n /\ j \in 1..n
    <3>1. Old(i) = Old(j)
      BY <1>3, <1>7, <2>3 DEF RevokedInv
    <3> QED BY <1>1, <1>2, <2>3, <3>1
  <2> QED BY <1>1, <2>2, <2>3
<1>8. ASSUME NEW i \in 1..Len(revoked')
      PROVE  revoked'[i].exp = revocation'[revoked'[i].turn]
  <2>1. CASE i = n + 1
    BY <1>1, <1>5, <2>1
  <2>2. CASE i \in 1..n
    <3>1. revoked'[i].turn \in Turns \ {t}
      BY <1>1, <1>2, <1>3, <2>2 DEF RevokedEntries
    <3> QED BY <1>3, <1>5, <2>2, <3>1 DEF RevokedInv
  <2> QED BY <1>1, <2>1, <2>2
<1>9. ASSUME NEW u \in Turns, revocation'[u] > clock'
      PROVE  Listed(u)' \/ u \in evictedLive'
  <2>1. CASE u = t
    <3>1. n + 1 \in 1..Len(revoked') /\ revoked'[n + 1].turn = u
      BY <1>1, <2>1
    <3> QED BY <3>1 DEF Listed
  <2>2. CASE u # t /\ u \in evictedLive
    BY <2>2
  <2>3. CASE u # t /\ u \notin evictedLive
    <3>1. PICK j \in 1..Len(revoked) : revoked[j].turn = u
      BY <1>5, <1>9, <2>3 DEF RevokedInv, Listed
    <3>2. CASE j = k
      <4>1. revoked[k].exp = revocation[u] /\ revocation[u] > clock
        BY <1>5, <1>9, <2>3, <3>1, <3>2 DEF RevokedInv
      <4>2. revocation[u] \in Nat /\ clock \in Nat
        BY RevokedTurnsAssumption DEF RevokedInv, RevokedTypeOK
      <4>3. k <= Len(revoked)
        BY <3>2
      <4> QED BY <2>3, <3>1, <3>2, <4>1, <4>2, <4>3
    <3>3. CASE j # k
      <4>1. PICK i \in 1..n : Old(i) = j
        BY <1>4, <3>3
      <4>2. i \in 1..Len(revoked') /\ revoked'[i].turn = u
        BY <1>1, <1>3, <3>1, <4>1
      <4> QED BY <4>2 DEF Listed
    <3> QED BY <3>2, <3>3
  <2> QED BY <2>1, <2>2, <2>3
<1> QED BY <1>6, <1>7, <1>8, <1>9 DEF RevokedInv

LEMMA RevokeTurnStep ==
    ASSUME RevokedInv, NEW t \in Turns, RevokeTurn(t)
    PROVE  RevokedInv'
<1>1. PICK exp \in {clock + RevokeTTL, token[t]} :
         /\ token[t] # 0
         /\ \/ t \in RevokedIds /\ Refresh(t, exp) /\ UNCHANGED evictedLive
            \/ t \notin RevokedIds /\ Insert(t, exp)
         /\ revocation' = [revocation EXCEPT ![t] = exp]
         /\ UNCHANGED <<clock, token>>
  BY DEF RevokeTurn
<1> DEFINE e == [turn |-> t, exp |-> exp]
<1>2. e \in RevokedEntries /\ e.turn = t /\ e.exp = exp
  <2>1. exp \in 1..(MaxNow + CapTokenTTL + RevokeTTL)
    <3>1. /\ clock \in 1..MaxNow /\ token[t] \in 0..(MaxNow + CapTokenTTL) /\ token[t] # 0
      BY <1>1 DEF RevokedInv, RevokedTypeOK
    <3> QED BY <3>1, RevokedTurnsAssumption
  <2> QED BY <2>1 DEF RevokedEntries
<1>3. /\ revoked \in Seq(RevokedEntries) /\ Len(revoked) \in Nat /\ Len(revoked) <= RevokedCap
      /\ DOMAIN revoked = 1..Len(revoked) /\ clock \in Nat
      /\ \A i \in 1..Len(revoked) : revoked[i] \in RevokedEntries
  BY LenProperties, ElementOfSeq DEF RevokedInv, RevokedTypeOK
<1>4. CASE t \in RevokedIds /\ Refresh(t, exp) /\ UNCHANGED evictedLive
  <2>1. PICK k \in 1..Len(revoked) : k = EntryOf(t) /\ revoked[k].turn = t
    <3>1. \E i \in DOMAIN revoked : revoked[i].turn = t
      BY <1>3, <1>4, RevokedIdsListed DEF Listed, RevokedInv
    <3> QED BY <1>3, <3>1 DEF EntryOf
  <2> DEFINE base == RemoveAt(revoked, k)
  <2>2. /\ base \in Seq(RevokedEntries) /\ Len(base) = Len(revoked) - 1
        /\ \A j \in 1..(Len(revoked) - 1) : base[j] = revoked[IF j < k THEN j ELSE j + 1]
    BY <1>3, RemoveAtProperties, Zenon
  <2>3. revoked' = Append(base, e)
    BY <1>4, <2>1 DEF Refresh
  <2> HIDE DEF base, e
  <2>4. ASSUME NEW j \in 1..Len(base) PROVE base[j].turn # t
    <3>1. PICK i \in 1..Len(revoked) : i # k /\ base[j] = revoked[i]
      <4>1. j < k => j \in 1..Len(revoked) /\ j # k /\ base[j] = revoked[j]
        BY <1>3, <2>2
      <4>2. ~ (j < k) => j + 1 \in 1..Len(revoked) /\ j + 1 # k /\ base[j] = revoked[j + 1]
        BY <1>3, <2>2
      <4> QED BY <4>1, <4>2
    <3> QED BY <2>1, <3>1 DEF RevokedInv
  <2>5. k \in 1..(Len(revoked) + 1) /\ k <= Len(revoked) /\ Len(base) < RevokedCap
    BY <1>3, <2>2, RevokedTurnsAssumption
  <2>6. evictedLive' \subseteq Turns
    BY <1>4 DEF RevokedInv, RevokedTypeOK
  <2> QED BY <1>1, <1>2, <1>4, <2>1, <2>2, <2>3, <2>4, <2>5, <2>6, AddedEntry
<1>5. CASE t \notin RevokedIds /\ Insert(t, exp)
  <2> DEFINE full == Len(revoked) >= RevokedCap
             base == IF full THEN Tail(revoked) ELSE revoked
  <2>1. ~Listed(t)
    BY <1>5, RevokedIdsListed DEF RevokedInv
  <2>2. revoked' = Append(base, e)
    BY <1>5 DEF Insert
  <2>3. CASE full
    <3>1. revoked # << >> /\ Head(revoked) = revoked[1] /\ 1 \in 1..Len(revoked)
      BY <1>3, <2>3, RevokedTurnsAssumption
    <3>2. /\ base \in Seq(RevokedEntries) /\ Len(base) = Len(revoked) - 1
          /\ \A j \in 1..Len(base) : base[j] = revoked[j + 1]
      BY <1>3, <2>3, <3>1, HeadTailProperties
    <3>3. /\ evictedLive' = (IF revoked[1].exp > clock THEN evictedLive \cup {revoked[1].turn}
                             ELSE evictedLive) \ {t}
      BY <1>5, <2>3, <3>1 DEF Insert
    <3> HIDE DEF base, e, full
    <3>4. \A j \in 1..Len(base) : base[j] = revoked[IF j < 1 THEN j ELSE j + 1]
      BY <3>2
    <3>5. ASSUME NEW j \in 1..Len(base) PROVE base[j].turn # t
      <4>1. j + 1 \in 1..Len(revoked)
        BY <1>3, <3>2
      <4> QED BY <2>1, <3>2, <4>1 DEF Listed
    <3>6. /\ 1 \in 1..(Len(revoked) + 1) /\ 1 <= Len(revoked) /\ Len(base) < RevokedCap
      BY <1>3, <3>1, <3>2, RevokedTurnsAssumption
    <3>7. /\ \/ revoked[1].turn = t \/ revoked[1].exp <= clock
             \/ revoked[1].turn \in evictedLive'
          /\ evictedLive \ {t} \subseteq evictedLive' /\ evictedLive' \subseteq Turns
      <4>1. revoked[1].turn \in Turns /\ revoked[1].exp \in Nat
        BY <1>3, <3>1 DEF RevokedEntries
      <4> QED BY <1>3, <3>3, <4>1 DEF RevokedInv, RevokedTypeOK
    <3> QED BY <1>1, <1>2, <2>2, <3>2, <3>4, <3>5, <3>6, <3>7, AddedEntry
  <2>4. CASE ~full
    <3>1. base = revoked /\ evictedLive' = evictedLive \ {t}
      BY <1>5, <2>4 DEF Insert
    <3> DEFINE k == Len(revoked) + 1
    <3>2. /\ k \in 1..(Len(revoked) + 1) /\ ~ (k <= Len(revoked)) /\ Len(base) < RevokedCap
      BY <1>3, <2>4, <3>1, RevokedTurnsAssumption
    <3> HIDE DEF base, full
    <3>3. \A j \in 1..Len(base) : base[j] = revoked[IF j < k THEN j ELSE j + 1]
      <4>1. ASSUME NEW j \in 1..Len(base) PROVE j < k /\ base[j] = revoked[j]
        BY <1>3, <3>1
      <4> QED BY <4>1
    <3>4. \A j \in 1..Len(base) : base[j].turn # t
      BY <2>1, <3>1 DEF Listed
    <3>5. evictedLive \ {t} \subseteq evictedLive' /\ evictedLive' \subseteq Turns
      BY <3>1 DEF RevokedInv, RevokedTypeOK
    <3> HIDE DEF base, e, k, full
    <3> QED BY <1>1, <1>2, <1>3, <2>2, <3>1, <3>2, <3>3, <3>4, <3>5, AddedEntry, Zenon
  <2> QED BY <2>3, <2>4
<1> QED BY <1>1, <1>4, <1>5

LEMMA RevokedInitInv == RevokedInit => RevokedInv
<1> SUFFICES ASSUME RevokedInit PROVE RevokedInv
  OBVIOUS
<1>1. revoked \in Seq(RevokedEntries) /\ Len(revoked) = 0
  BY EmptySeq DEF RevokedInit
<1>2. RevokedTypeOK
  BY <1>1, RevokedTurnsAssumption DEF RevokedInit, RevokedTypeOK
<1> QED BY <1>1, <1>2 DEF RevokedInit, RevokedInv

LEMMA RevokedInvStep == RevokedInv /\ [RevokedNext]_revokedVars => RevokedInv'
<1> SUFFICES ASSUME RevokedInv, [RevokedNext]_revokedVars PROVE RevokedInv'
  OBVIOUS
<1>1. CASE Tick
  <2>1. /\ clock' = clock + 1 /\ clock < MaxNow
        /\ UNCHANGED <<token, revoked, revocation, evictedLive>>
    BY <1>1 DEF Tick
  <2>2. RevokedTypeOK' /\ clock \in Nat /\ \A t \in Turns : revocation[t] \in Nat
    BY <2>1, RevokedTurnsAssumption DEF RevokedInv, RevokedTypeOK
  <2>3. \A t \in Turns : revocation'[t] > clock' => Listed(t)' \/ t \in evictedLive'
    BY <2>1, <2>2 DEF RevokedInv, Listed
  <2> QED BY <2>1, <2>2, <2>3 DEF RevokedInv
<1>2. ASSUME NEW t \in Turns, MintCapToken(t) PROVE RevokedInv'
  <2>1. /\ token' = [token EXCEPT ![t] = clock + CapTokenTTL]
        /\ UNCHANGED <<clock, revoked, revocation, evictedLive>>
    BY <1>2 DEF MintCapToken
  <2>2. clock + CapTokenTTL \in 0..(MaxNow + CapTokenTTL)
    BY RevokedTurnsAssumption DEF RevokedInv, RevokedTypeOK
  <2>3. RevokedTypeOK'
    BY <2>1, <2>2 DEF RevokedInv, RevokedTypeOK
  <2> QED BY <2>1, <2>3 DEF RevokedInv, Listed
<1>3. CASE UNCHANGED revokedVars
  BY <1>3 DEF revokedVars, RevokedInv, RevokedTypeOK, Listed
<1> QED BY <1>1, <1>2, <1>3, RevokeTurnStep DEF RevokedNext

\* For every cap and every life of tokens and revocations: a turn whose revocation lasts is
\* not admitted again unless its eviction was reported (RevokedSet.Add).
THEOREM NeverRelapsesSilently == RevokedSpec => [](RevokedTypeOK /\ NoSilentRelapse)
<1>1. RevokedInv => RevokedTypeOK /\ NoSilentRelapse
  BY RevokedIdsListed DEF RevokedInv, NoSilentRelapse, Admits
<1> QED BY <1>1, RevokedInitInv, RevokedInvStep, PTL DEF RevokedSpec

-----------------------------------------------------------------------------
(* The logins of codex *)

Issued == {t \in RefreshTokens : refresh[t] # "none"}

\* A family is named by a token that was issued.
FamiliesKnown == \A t \in Issued : family[t] \in Issued

\* A code that may still be used has founded nothing.
CodesFresh ==
    \A d \in Devices :
        /\ code[d] # "gone" => grants[d] = {}
        /\ device[d] # "exchanged" => code[d] = "none" /\ devicePoll[d] = "idle"
        /\ devicePoll[d] = "insert" => code[d] = "none"
        /\ \A s, t \in grants[d] : s = t

\* A request has the old token's row locked, or a new token that is live unless
\* a family was burnt.
RequestKnown(c) ==
    /\ auth[c].pc = "insert" => auth[c].old \in Issued /\ refresh[auth[c].old] = "live"
    /\ auth[c].pc \in {"mint", "answer"} =>
          /\ auth[c].new \in Issued /\ auth[c].new # held
          /\ ~disturbed => refresh[auth[c].new] = "live"
    /\ auth[c].pc = "burn" => disturbed /\ auth[c].burn \subseteq Issued

\* The requests of two clients have no token in common.
RequestsApart(c, d) ==
    /\ auth[c].pc = "insert" /\ auth[d].pc = "insert" => auth[c].old # auth[d].old
    /\ auth[c].pc \in {"mint", "answer"} /\ auth[d].pc \in {"mint", "answer"} =>
          auth[c].new # auth[d].new
    /\ auth[c].pc = "insert" /\ auth[d].pc \in {"mint", "answer"} => auth[c].old # auth[d].new

AuthInv ==
    /\ AuthTypeOK /\ FamiliesKnown /\ CodesFresh
    /\ held \in Issued \cup {0}
    /\ \A c \in Clients : RequestKnown(c)
    /\ \A c, d \in Clients : c # d => RequestsApart(c, d)
    /\ \A s, t \in RefreshTokens :
          refresh[s] = "live" /\ refresh[t] = "live" /\ family[s] = family[t] => s = t
    /\ LoginKept

-----------------------------------------------------------------------------
\* The next token is one that was not issued.
LEMMA NextTokenFresh == ASSUME Unissued # {} PROVE NextToken \in RefreshTokens \ Issued
<1>1. Unissued \subseteq Nat
  BY DEF Unissued, RefreshTokens
<1>2. \E t \in Unissued : \A s \in Unissued : t <= s
  BY <1>1, LeastExists
<1>3. NextToken \in Unissued
  BY <1>2 DEF NextToken
<1> QED BY <1>3 DEF Unissued, Issued

\* The steps that concern codes alone.
LEMMA CodeStep ==
    ASSUME AuthInv, UNCHANGED <<refresh, family, auth, held, disturbed>>, AuthTypeOK', CodesFresh'
    PROVE  AuthInv'
<1>1. FamiliesKnown' /\ held' \in Issued' \cup {0}
  BY DEF AuthInv, FamiliesKnown, Issued
<1>2. \A c \in Clients : RequestKnown(c)'
  BY DEF AuthInv, RequestKnown, Issued
<1>3. \A c, d \in Clients : c # d => RequestsApart(c, d)'
  BY DEF AuthInv, RequestsApart
<1>4. LoginKept'
  BY DEF AuthInv, LoginKept
<1> QED BY <1>1, <1>2, <1>3, <1>4 DEF AuthInv

\* What a step of one client must leave to the others.
OthersGoOn(c) ==
    \A d \in Clients : d # c =>
        /\ auth'[d] = auth[d]
        /\ auth[d].pc = "insert" => refresh'[auth[d].old] = "live"
        /\ auth[d].pc \in {"mint", "answer"} =>
              /\ auth[d].new # held'
              /\ ~disturbed' => refresh'[auth[d].new] = "live"

LEMMA ClientStep ==
    ASSUME AuthInv, NEW c \in Clients, OthersGoOn(c), UNCHANGED <<deviceVars, code, grants>>,
           AuthTypeOK', FamiliesKnown', held' \in Issued' \cup {0},
           Issued \subseteq Issued', disturbed => disturbed',
           RequestKnown(c)',
           \A d \in Clients : d # c => RequestsApart(c, d)' /\ RequestsApart(d, c)',
           (\A s, t \in RefreshTokens :
              refresh[s] = "live" /\ refresh[t] = "live" /\ family[s] = family[t] => s = t)',
           LoginKept'
    PROVE  AuthInv'
<1>1. CodesFresh'
  BY DEF AuthInv, CodesFresh, deviceVars
<1>2. ASSUME NEW d \in Clients PROVE RequestKnown(d)'
  <2>1. CASE d = c
    BY <2>1
  <2>2. CASE d # c
    BY <2>2 DEF AuthInv, RequestKnown, OthersGoOn
  <2> QED BY <2>1, <2>2
<1>3. ASSUME NEW d \in Clients, NEW e \in Clients, d # e PROVE RequestsApart(d, e)'
  <2>1. CASE d = c \/ e = c
    BY <1>3, <2>1
  <2>2. CASE d # c /\ e # c
    BY <1>3, <2>2 DEF AuthInv, RequestsApart, OthersGoOn
  <2> QED BY <2>1, <2>2
<1> QED BY <1>1, <1>2, <1>3 DEF AuthInv

\* A client whose request changes, and nothing of the tokens.
LEMMA RequestStep ==
    ASSUME AuthInv, NEW c \in Clients, NEW q \in AuthStates,
           auth' = [auth EXCEPT ![c] = q],
           UNCHANGED <<deviceVars, code, grants, refresh, family, held>>,
           minted' \in BOOLEAN, disturbed' \in BOOLEAN, disturbed => disturbed',
           RequestKnown(c)',
           \A d \in Clients : d # c => RequestsApart(c, d)' /\ RequestsApart(d, c)',
           LoginKept'
    PROVE  AuthInv'
<1>1. /\ auth' \in [Clients -> AuthStates] /\ \A d \in Clients : d # c => auth'[d] = auth[d]
  BY DEF AuthInv, AuthTypeOK
<1>2. AuthTypeOK'
  BY <1>1 DEF AuthInv, AuthTypeOK, deviceVars
<1>3. OthersGoOn(c)
  BY <1>1 DEF AuthInv, OthersGoOn, RequestKnown
<1>4. FamiliesKnown' /\ held' \in Issued' \cup {0} /\ Issued' = Issued
  BY DEF AuthInv, FamiliesKnown, Issued
<1>5. (\A s, t \in RefreshTokens :
          refresh[s] = "live" /\ refresh[t] = "live" /\ family[s] = family[t] => s = t)'
  BY DEF AuthInv
<1> QED BY <1>2, <1>3, <1>4, <1>5, ClientStep

LEMMA CodeSteps ==
    ASSUME AuthInv, NEW d \in Devices,
           \/ RequestDeviceCode(d) \/ DecideDeviceCode(d) \/ ExchangeDeviceCode(d)
           \/ InsertPkceRequest(d) \/ Authorize(d) \/ CodeExpires(d)
    PROVE  AuthInv'
<1>1. UNCHANGED <<refresh, family, auth, held, minted, grants, disturbed>>
  BY DEF RequestDeviceCode, DecideDeviceCode, ExchangeDeviceCode, InsertPkceRequest,
         Authorize, CodeExpires, deviceVars
<1>2. /\ device' \in [Devices -> {"none", "pending", "approved", "denied", "exchanged"}]
      /\ devicePoll' \in [Devices -> {"idle", "insert"}]
      /\ code' \in [Devices -> {"none", "open", "gone"}]
  BY DEF RequestDeviceCode, DecideDeviceCode, ExchangeDeviceCode, InsertPkceRequest,
         Authorize, CodeExpires, deviceVars, AuthInv, AuthTypeOK
<1>3. AuthTypeOK'
  BY <1>1, <1>2 DEF AuthInv, AuthTypeOK
<1>4. ASSUME NEW e \in Devices
      PROVE  /\ code'[e] # "gone" => grants[e] = {}
             /\ device'[e] # "exchanged" => code'[e] = "none" /\ devicePoll'[e] = "idle"
             /\ devicePoll'[e] = "insert" => code'[e] = "none"
  BY DEF RequestDeviceCode, DecideDeviceCode, ExchangeDeviceCode, InsertPkceRequest,
         Authorize, CodeExpires, deviceVars, AuthInv, AuthTypeOK, CodesFresh
<1>5. CodesFresh'
  BY <1>1, <1>4 DEF AuthInv, CodesFresh
<1> QED BY <1>1, <1>3, <1>5, CodeStep

\* A new login: the first token of a family.
LEMMA UseCodeStep ==
    ASSUME AuthInv, NEW c \in Clients, NEW d \in Devices, UseCode(c, d)
    PROVE  AuthInv'
<1>1. /\ code[d] = "open" /\ auth[c].pc = "idle" /\ Unissued # {}
      /\ code' = [code EXCEPT ![d] = "gone"] /\ UNCHANGED <<device, devicePoll, held, disturbed>>
  BY DEF UseCode, ConsumePkceRequest, deviceVars
<1>2. /\ code' \in [Devices -> {"none", "open", "gone"}] /\ code'[d] = "gone"
      /\ \A e \in Devices : e # d => code'[e] = code[e]
  BY <1>1 DEF AuthInv, AuthTypeOK
<1>3. grants[d] = {} /\ device[d] = "exchanged" /\ devicePoll[d] # "insert"
  BY <1>1 DEF AuthInv, CodesFresh
<1>4. CASE minted' \in {minted, TRUE} /\ UNCHANGED <<auth, refresh, family, grants>>
  <2>1. AuthTypeOK'
    BY <1>1, <1>2, <1>4 DEF AuthInv, AuthTypeOK
  <2>2. CodesFresh'
    BY <1>1, <1>2, <1>3, <1>4 DEF AuthInv, CodesFresh
  <2> QED BY <1>1, <1>4, <2>1, <2>2, CodeStep
<1>5. CASE /\ minted' = TRUE
           /\ auth' = [auth EXCEPT ![c] = [NoAuth EXCEPT !.pc = "answer", !.new = NextToken]]
           /\ refresh' = [refresh EXCEPT ![NextToken] = "live"]
           /\ family' = [family EXCEPT ![NextToken] = NextToken]
           /\ grants' = [grants EXCEPT ![d] = @ \cup {NextToken}]
  <2>1. PICK n \in RefreshTokens : n = NextToken /\ n \notin Issued /\ n # 0
    BY <1>1, NextTokenFresh DEF RefreshTokens
  <2> DEFINE q == [NoAuth EXCEPT !.pc = "answer", !.new = n]
  <2>2. /\ q \in AuthStates /\ q.pc = "answer" /\ q.new = n
    <3>1. 0 \in 0..MaxTokens /\ n \in 0..MaxTokens
      BY CodexAuthAssumption DEF RefreshTokens
    <3> QED BY <3>1 DEF NoAuth, AuthStates
  <2>3. auth' = [auth EXCEPT ![c] = q]
    BY <1>5, <2>1
  <2> HIDE DEF q
  <2>4. /\ auth' \in [Clients -> AuthStates] /\ auth'[c] = q
        /\ \A e \in Clients : e # c => auth'[e] = auth[e]
    BY <2>2, <2>3 DEF AuthInv, AuthTypeOK
  <2>5. /\ refresh' \in [RefreshTokens -> {"none", "live", "revoked"}] /\ refresh'[n] = "live"
        /\ \A t \in RefreshTokens : t # n => refresh'[t] = refresh[t]
        /\ family' \in [RefreshTokens -> 0..MaxTokens] /\ family'[n] = n
        /\ \A t \in RefreshTokens : t # n => family'[t] = family[t]
    BY <1>5, <2>1 DEF AuthInv, AuthTypeOK, RefreshTokens
  <2>6. /\ grants' \in [Devices -> SUBSET RefreshTokens] /\ grants'[d] = {n}
        /\ \A e \in Devices : e # d => grants'[e] = grants[e]
    BY <1>3, <1>5, <2>1 DEF AuthInv, AuthTypeOK
  <2>7. Issued' = Issued \cup {n} /\ Issued \subseteq RefreshTokens /\ refresh[n] = "none"
    BY <2>1, <2>5 DEF Issued
  <2>8. AuthTypeOK'
    BY <1>1, <1>2, <1>5, <2>4, <2>5, <2>6 DEF AuthInv, AuthTypeOK
  <2>9. FamiliesKnown' /\ held' \in Issued' \cup {0}
    BY <1>1, <2>5, <2>7 DEF AuthInv, FamiliesKnown
  <2>10. CodesFresh'
    <3>1. ASSUME NEW e \in Devices
          PROVE  /\ code'[e] # "gone" => grants'[e] = {}
                 /\ device'[e] # "exchanged" => code'[e] = "none" /\ devicePoll'[e] = "idle"
                 /\ devicePoll'[e] = "insert" => code'[e] = "none"
                 /\ \A s, t \in grants'[e] : s = t
      BY <1>1, <1>2, <1>3, <2>6 DEF AuthInv, CodesFresh
    <3> QED BY <3>1 DEF CodesFresh
  <2>11. RequestKnown(c)'
    BY <1>1, <2>1, <2>2, <2>4, <2>5, <2>7 DEF AuthInv, RequestKnown
  <2>12. ASSUME NEW e \in Clients, e # c PROVE RequestKnown(e)'
    <3>1. RequestKnown(e) /\ auth'[e] = auth[e]
      BY <2>4, <2>12 DEF AuthInv
    <3>2. \A t \in Issued : refresh'[t] = refresh[t] /\ t \in Issued'
      BY <2>1, <2>5, <2>7
    <3> QED BY <1>1, <3>1, <3>2 DEF RequestKnown
  <2>13. ASSUME NEW e \in Clients, NEW f \in Clients, e # f PROVE RequestsApart(e, f)'
    <3>1. CASE e = c
      <4>1. RequestKnown(f) /\ auth'[f] = auth[f]
        BY <2>4, <2>13, <3>1 DEF AuthInv
      <4> QED BY <2>1, <2>2, <2>4, <3>1, <4>1 DEF RequestsApart, RequestKnown
    <3>2. CASE f = c
      <4>1. RequestKnown(e) /\ auth'[e] = auth[e]
        BY <2>4, <2>13, <3>2 DEF AuthInv
      <4> QED BY <2>1, <2>2, <2>4, <3>2, <4>1 DEF RequestsApart, RequestKnown
    <3>3. CASE e # c /\ f # c
      BY <2>4, <2>13, <3>3 DEF AuthInv, RequestsApart
    <3> QED BY <3>1, <3>2, <3>3
  <2>14. ASSUME NEW s \in RefreshTokens, NEW t \in RefreshTokens,
                refresh'[s] = "live", refresh'[t] = "live", family'[s] = family'[t]
         PROVE  s = t
    <3>1. \A u \in RefreshTokens : u # n /\ refresh'[u] = "live" => family'[u] # n
      BY <2>1, <2>5 DEF AuthInv, FamiliesKnown, Issued
    <3> QED BY <2>5, <2>14, <3>1 DEF AuthInv
  <2>15. LoginKept'
    BY <2>2, <2>4 DEF LoginKept
  <2> QED BY <2>8, <2>9, <2>10, <2>11, <2>12, <2>13, <2>14, <2>15 DEF AuthInv
<1> QED BY <1>4, <1>5 DEF UseCode

LEMMA RotateStep ==
    ASSUME AuthInv, NEW c \in Clients, Rotate(c)
    PROVE  AuthInv'
<1> DEFINE q == [NoAuth EXCEPT !.pc = "insert", !.old = held]
<1>1. /\ auth[c].pc = "idle" /\ held \in Issued /\ held \notin LockedTokens
      /\ refresh[held] = "live"
      /\ auth' = [auth EXCEPT ![c] = q]
      /\ UNCHANGED <<deviceVars, code, refresh, family, held, minted, grants, disturbed>>
  BY DEF Rotate, AuthInv
<1>2. q \in AuthStates /\ q.pc = "insert" /\ q.old = held
  <2>1. 0 \in 0..MaxTokens /\ held \in 0..MaxTokens
    BY CodexAuthAssumption DEF AuthInv, AuthTypeOK
  <2> QED BY <2>1 DEF NoAuth, AuthStates
<1> HIDE DEF q
<1>3. auth'[c] = q /\ \A d \in Clients : d # c => auth'[d] = auth[d]
  BY <1>1 DEF AuthInv, AuthTypeOK
<1>4. RequestKnown(c)'
  BY <1>1, <1>2, <1>3 DEF RequestKnown, Issued
<1>5. ASSUME NEW d \in Clients, d # c PROVE RequestsApart(c, d)' /\ RequestsApart(d, c)'
  <2>1. auth[d].pc = "insert" => auth[d].old # held
    BY <1>1 DEF LockedTokens
  <2>2. auth[d].pc \in {"mint", "answer"} => auth[d].new # held
    BY DEF AuthInv, RequestKnown
  <2> QED BY <1>2, <1>3, <1>5, <2>1, <2>2 DEF RequestsApart
<1>6. LoginKept'
  BY <1>1 DEF LoginKept
<1>7. minted' \in BOOLEAN /\ disturbed' \in BOOLEAN
  BY <1>1 DEF AuthInv, AuthTypeOK
<1> QED BY <1>1, <1>2, <1>4, <1>5, <1>6, <1>7, RequestStep

LEMMA DetectReuseStep ==
    ASSUME AuthInv, NEW c \in Clients, DetectReuse(c)
    PROVE  AuthInv'
<1>1. PICK s \in RefreshTokens :
         auth' = [auth EXCEPT ![c] =
            [NoAuth EXCEPT !.pc = "burn", !.old = s,
               !.burn = {t \in RefreshTokens : family[t] = family[s] /\ refresh[t] = "live"}]]
  BY Zenon DEF DetectReuse
<1> DEFINE burn == {t \in RefreshTokens : family[t] = family[s] /\ refresh[t] = "live"}
           q == [NoAuth EXCEPT !.pc = "burn", !.old = s, !.burn = burn]
<1>2. burn \subseteq RefreshTokens /\ auth' = [auth EXCEPT ![c] = q]
  BY <1>1
<1> HIDE DEF burn
<1>3. q \in AuthStates /\ q.pc = "burn" /\ q.burn = burn
  <2>1. 0 \in 0..MaxTokens /\ s \in 0..MaxTokens
    BY CodexAuthAssumption DEF RefreshTokens
  <2> QED BY <1>2, <2>1 DEF NoAuth, AuthStates
<1> HIDE DEF q
<1>4. /\ disturbed' = TRUE /\ auth'[c] = q /\ \A d \in Clients : d # c => auth'[d] = auth[d]
      /\ UNCHANGED <<deviceVars, code, grants, refresh, family, held>> /\ minted' \in BOOLEAN
  BY <1>2 DEF DetectReuse, AuthInv, AuthTypeOK
<1>5. RequestKnown(c)' /\ LoginKept'
  <2>1. burn \subseteq Issued
    BY DEF burn, Issued
  <2> QED BY <1>3, <1>4, <2>1 DEF RequestKnown, LoginKept, Issued
<1>6. \A d \in Clients : d # c => RequestsApart(c, d)' /\ RequestsApart(d, c)'
  BY <1>3, <1>4 DEF RequestsApart
<1> QED BY <1>2, <1>3, <1>4, <1>5, <1>6, RequestStep

\* A request that ends without an effect on the tokens.
LEMMA EndStep ==
    ASSUME AuthInv, NEW c \in Clients, auth' = [auth EXCEPT ![c] = NoAuth],
           UNCHANGED <<deviceVars, code, grants, refresh, family, held, minted>>,
           disturbed' \in BOOLEAN, disturbed => disturbed',
           disturbed' \/ auth[c].pc \notin {"mint", "answer"}
    PROVE  AuthInv'
<1>1. NoAuth \in AuthStates /\ NoAuth.pc = "idle"
  <2>1. 0 \in 0..MaxTokens
    BY CodexAuthAssumption
  <2> QED BY <2>1 DEF NoAuth, AuthStates
<1>2. auth'[c] = NoAuth /\ \A d \in Clients : d # c => auth'[d] = auth[d]
  BY DEF AuthInv, AuthTypeOK
<1>3. RequestKnown(c)' /\ \A d \in Clients : d # c => RequestsApart(c, d)' /\ RequestsApart(d, c)'
  BY <1>1, <1>2 DEF RequestKnown, RequestsApart
<1>4. LoginKept'
  BY <1>2 DEF AuthInv, LoginKept
<1>5. minted' \in BOOLEAN
  BY DEF AuthInv, AuthTypeOK
<1> QED BY <1>1, <1>3, <1>4, <1>5, RequestStep

LEMMA EndSteps ==
    ASSUME AuthInv, NEW c \in Clients, RollBack(c) \/ MintFails(c) \/ AnswerIsLost(c)
    PROVE  AuthInv'
<1>1. CASE RollBack(c)
  <2>1. /\ auth' = [auth EXCEPT ![c] = NoAuth] /\ auth[c].pc \notin {"mint", "answer"}
        /\ UNCHANGED <<deviceVars, code, grants, refresh, family, held, minted>>
        /\ disturbed' = disturbed /\ disturbed' \in BOOLEAN
    BY <1>1 DEF RollBack, AuthInv, AuthTypeOK
  <2> QED BY <2>1, EndStep
<1>2. CASE MintFails(c)
  BY <1>2, EndStep DEF MintFails
<1>3. CASE AnswerIsLost(c)
  BY <1>3, EndStep DEF AnswerIsLost
<1> QED BY <1>1, <1>2, <1>3

LEMMA InsertAccessTokenStep ==
    ASSUME AuthInv, NEW c \in Clients, InsertAccessToken(c)
    PROVE  AuthInv'
<1> DEFINE q == [auth[c] EXCEPT !.pc = "answer"]
<1>1. /\ auth[c].pc = "mint" /\ auth' = [auth EXCEPT ![c] = q] /\ auth[c] \in AuthStates
      /\ UNCHANGED <<deviceVars, code, refresh, family, held, grants, disturbed>>
      /\ minted' \in BOOLEAN /\ disturbed' \in BOOLEAN
  BY DEF InsertAccessToken, AuthInv, AuthTypeOK
<1>2. q \in AuthStates /\ q.pc = "answer" /\ q.new = auth[c].new
  BY <1>1 DEF AuthStates
<1> HIDE DEF q
<1>3. auth'[c] = q /\ \A d \in Clients : d # c => auth'[d] = auth[d]
  BY <1>1 DEF AuthInv, AuthTypeOK
<1>4. RequestKnown(c)'
  BY <1>1, <1>2, <1>3 DEF AuthInv, RequestKnown, Issued
<1>5. ASSUME NEW d \in Clients, d # c PROVE RequestsApart(c, d)' /\ RequestsApart(d, c)'
  BY <1>1, <1>2, <1>3, <1>5 DEF AuthInv, RequestsApart
<1>6. LoginKept'
  BY <1>1, <1>2, <1>3 DEF AuthInv, LoginKept
<1> QED BY <1>1, <1>2, <1>4, <1>5, <1>6, RequestStep

\* The new token is in auth.json.
LEMMA AnswerTokenStep ==
    ASSUME AuthInv, NEW c \in Clients, AnswerToken(c)
    PROVE  AuthInv'
<1>1. /\ auth[c].pc = "answer" /\ held' = auth[c].new /\ auth' = [auth EXCEPT ![c] = NoAuth]
      /\ UNCHANGED <<deviceVars, code, refresh, family, minted, grants, disturbed>>
      /\ auth[c].new \in Issued /\ (~disturbed => refresh[auth[c].new] = "live")
  BY DEF AnswerToken, AuthInv, RequestKnown
<1>2. NoAuth \in AuthStates /\ NoAuth.pc = "idle"
  <2>1. 0 \in 0..MaxTokens
    BY CodexAuthAssumption
  <2> QED BY <2>1 DEF NoAuth, AuthStates
<1>3. /\ auth' \in [Clients -> AuthStates] /\ auth'[c] = NoAuth
      /\ \A d \in Clients : d # c => auth'[d] = auth[d]
  BY <1>1, <1>2 DEF AuthInv, AuthTypeOK
<1>4. Issued' = Issued /\ held' \in Issued'
  BY <1>1 DEF Issued
<1>5. AuthTypeOK'
  <2>1. held' \in 0..MaxTokens
    BY <1>1 DEF Issued, RefreshTokens
  <2> QED BY <1>1, <1>3, <2>1 DEF AuthInv, AuthTypeOK, deviceVars
<1>6. OthersGoOn(c)
  <2>1. ASSUME NEW d \in Clients, d # c, auth[d].pc \in {"mint", "answer"}
        PROVE  auth[d].new # held'
    BY <1>1, <2>1 DEF AuthInv, RequestsApart
  <2> QED BY <1>1, <1>3, <2>1 DEF AuthInv, OthersGoOn, RequestKnown
<1>7. RequestKnown(c)' /\ \A d \in Clients : d # c => RequestsApart(c, d)' /\ RequestsApart(d, c)'
  BY <1>2, <1>3 DEF RequestKnown, RequestsApart
<1>8. FamiliesKnown' /\ (\A s, t \in RefreshTokens :
          refresh[s] = "live" /\ refresh[t] = "live" /\ family[s] = family[t] => s = t)'
  BY <1>1, <1>4 DEF AuthInv, FamiliesKnown
<1>9. LoginKept'
  BY <1>1 DEF LoginKept
<1> QED BY <1>1, <1>4, <1>5, <1>6, <1>7, <1>8, <1>9, ClientStep

\* A family is burnt, but for tokens that came after the snapshot.
LEMMA BurnFamilyStep ==
    ASSUME AuthInv, NEW c \in Clients, BurnFamily(c)
    PROVE  AuthInv'
<1>1. /\ auth[c].pc = "burn" /\ auth[c].burn \cap LockedTokens = {} /\ disturbed
      /\ refresh' = [t \in RefreshTokens |-> IF t \in auth[c].burn THEN "revoked" ELSE refresh[t]]
      /\ auth' = [auth EXCEPT ![c] = NoAuth] /\ held' \in {held, 0}
      /\ UNCHANGED <<deviceVars, code, family, minted, grants, disturbed>>
      /\ auth[c] \in AuthStates
  BY DEF BurnFamily, AuthInv, RequestKnown, AuthTypeOK
<1>2. NoAuth \in AuthStates /\ NoAuth.pc = "idle"
  <2>1. 0 \in 0..MaxTokens
    BY CodexAuthAssumption
  <2> QED BY <2>1 DEF NoAuth, AuthStates
<1>3. /\ auth' \in [Clients -> AuthStates] /\ auth'[c] = NoAuth
      /\ \A d \in Clients : d # c => auth'[d] = auth[d]
  BY <1>1, <1>2 DEF AuthInv, AuthTypeOK
<1>4. /\ refresh' \in [RefreshTokens -> {"none", "live", "revoked"}]
      /\ \A t \in RefreshTokens : refresh'[t] = "live" => refresh[t] = "live"
      /\ \A t \in RefreshTokens : refresh'[t] # refresh[t] => t \in auth[c].burn
  BY <1>1 DEF AuthInv, AuthTypeOK
<1>5. AuthTypeOK'
  BY <1>1, <1>3, <1>4, CodexAuthAssumption DEF AuthInv, AuthTypeOK, deviceVars
<1>6. Issued \subseteq Issued'
  BY <1>1 DEF Issued
<1>7. ASSUME NEW d \in Clients, d # c, auth[d].pc = "insert"
      PROVE  refresh'[auth[d].old] = "live"
  <2>1. auth[d].old \in LockedTokens
    BY <1>7 DEF LockedTokens
  <2>2. auth[d].old \in RefreshTokens /\ refresh[auth[d].old] = "live"
    BY <1>7 DEF AuthInv, RequestKnown, Issued
  <2> QED BY <1>1, <1>4, <2>1, <2>2
<1>8. OthersGoOn(c)
  <2>1. ASSUME NEW d \in Clients, auth[d].pc \in {"mint", "answer"} PROVE auth[d].new # held'
    <3>1. auth[d].new # held /\ auth[d].new # 0
      BY <2>1 DEF AuthInv, RequestKnown, Issued, RefreshTokens
    <3> QED BY <1>1, <3>1
  <2> QED BY <1>1, <1>3, <1>7, <2>1 DEF OthersGoOn
<1>9. FamiliesKnown' /\ held' \in Issued' \cup {0}
  <2>1. auth[c].burn \subseteq Issued
    BY <1>1 DEF AuthInv, RequestKnown
  <2>2. Issued' = Issued
    BY <1>4, <1>6, <2>1 DEF Issued
  <2> QED BY <1>1, <2>2 DEF AuthInv, FamiliesKnown

<1>10. /\ RequestKnown(c)'
       /\ \A d \in Clients : d # c => RequestsApart(c, d)' /\ RequestsApart(d, c)'
  BY <1>2, <1>3 DEF RequestKnown, RequestsApart
<1>11. /\ (\A s, t \in RefreshTokens :
             refresh[s] = "live" /\ refresh[t] = "live" /\ family[s] = family[t] => s = t)'
       /\ LoginKept'
  BY <1>1, <1>4 DEF AuthInv, LoginKept
<1> QED BY <1>1, <1>5, <1>6, <1>8, <1>9, <1>10, <1>11, ClientStep

\* The rotation: the old token is revoked and its successor lives.
LEMMA InsertRefreshTokenStep ==
    ASSUME AuthInv, NEW c \in Clients, InsertRefreshToken(c)
    PROVE  AuthInv'
<1>1. PICK n \in RefreshTokens : n = NextToken /\ n \notin Issued /\ n # 0
  BY NextTokenFresh DEF InsertRefreshToken, RefreshTokens
<1>2. PICK o \in RefreshTokens : o = auth[c].old /\ o \in Issued /\ refresh[o] = "live"
  BY DEF InsertRefreshToken, AuthInv, RequestKnown, Issued
<1> DEFINE q == [auth[c] EXCEPT !.pc = "mint", !.new = n]
<1>3. /\ auth[c].pc = "insert" /\ auth[c] \in AuthStates /\ n # o
      /\ refresh' = [refresh EXCEPT ![o] = "revoked", ![n] = "live"]
      /\ family' = [family EXCEPT ![n] = family[o]]
      /\ auth' = [auth EXCEPT ![c] = q]
      /\ UNCHANGED <<deviceVars, code, held, minted, grants, disturbed>>
  BY <1>1, <1>2 DEF InsertRefreshToken, CommitRotation, AuthInv, AuthTypeOK
<1>4. q \in AuthStates /\ q.pc = "mint" /\ q.new = n
  <2>1. n \in 0..MaxTokens
    BY DEF RefreshTokens
  <2> QED BY <1>3, <2>1 DEF AuthStates
<1> HIDE DEF q
<1>5. /\ auth' \in [Clients -> AuthStates] /\ auth'[c] = q
      /\ \A d \in Clients : d # c => auth'[d] = auth[d]
  BY <1>3, <1>4 DEF AuthInv, AuthTypeOK
<1>6. /\ refresh' \in [RefreshTokens -> {"none", "live", "revoked"}]
      /\ refresh'[o] = "revoked" /\ refresh'[n] = "live"
      /\ \A t \in RefreshTokens : t # n /\ t # o => refresh'[t] = refresh[t]
  BY <1>3 DEF AuthInv, AuthTypeOK
<1>7. /\ family' \in [RefreshTokens -> 0..MaxTokens] /\ family'[n] = family[o]
      /\ \A t \in RefreshTokens : t # n => family'[t] = family[t]
  BY <1>3 DEF AuthInv, AuthTypeOK
<1>8. Issued' = Issued \cup {n} /\ Issued \subseteq RefreshTokens
  BY <1>1, <1>2, <1>6 DEF Issued
<1>9. AuthTypeOK'
  BY <1>3, <1>5, <1>6, <1>7 DEF AuthInv, AuthTypeOK, deviceVars
<1>10. FamiliesKnown' /\ held' \in Issued' \cup {0} /\ Issued \subseteq Issued'
  <2>1. ASSUME NEW t \in Issued' PROVE family'[t] \in Issued'
    BY <1>2, <1>7, <1>8, <2>1 DEF AuthInv, FamiliesKnown
  <2> QED BY <1>3, <1>8, <2>1 DEF AuthInv, FamiliesKnown
<1>11. ASSUME NEW d \in Clients, d # c
       PROVE  /\ auth[d].pc = "insert" => auth[d].old \in Issued /\ auth[d].old # o
              /\ auth[d].pc \in {"mint", "answer"} =>
                    auth[d].new \in Issued /\ auth[d].new # o
  BY <1>2, <1>3, <1>11 DEF AuthInv, RequestKnown, RequestsApart
<1>12. OthersGoOn(c)
  <2>1. \A t \in Issued : t # o => refresh'[t] = refresh[t]
    BY <1>1, <1>6, <1>8
  <2>2. ASSUME NEW d \in Clients, d # c
        PROVE  /\ auth[d].pc = "insert" => refresh'[auth[d].old] = "live"
               /\ auth[d].pc \in {"mint", "answer"} =>
                     /\ auth[d].new # held'
                     /\ ~disturbed' => refresh'[auth[d].new] = "live"
    <3>1. RequestKnown(d)
      BY DEF AuthInv
    <3> QED BY <1>3, <1>11, <2>1, <2>2, <3>1 DEF RequestKnown
  <2> QED BY <1>5, <2>2 DEF OthersGoOn
<1>13. RequestKnown(c)'
  <2>1. n # held'
    BY <1>1, <1>3 DEF AuthInv
  <2> QED BY <1>4, <1>5, <1>6, <1>8, <2>1 DEF RequestKnown
<1>14. ASSUME NEW d \in Clients, d # c PROVE RequestsApart(c, d)' /\ RequestsApart(d, c)'
  BY <1>1, <1>4, <1>5, <1>11, <1>14 DEF RequestsApart
<1>15. ASSUME NEW s \in RefreshTokens, NEW t \in RefreshTokens,
              refresh'[s] = "live", refresh'[t] = "live", family'[s] = family'[t]
       PROVE  s = t
  <2>1. ASSUME NEW u \in RefreshTokens, u # n, refresh'[u] = "live" PROVE family'[u] # family[o]
    <3>1. u # o /\ refresh[u] = "live" /\ family'[u] = family[u]
      BY <1>6, <1>7, <2>1
    <3> QED BY <1>2, <3>1 DEF AuthInv
  <2>2. \A u \in RefreshTokens : u # n /\ refresh'[u] = "live" => refresh[u] = "live"
    BY <1>6
  <2> QED BY <1>7, <1>15, <2>1, <2>2 DEF AuthInv
<1>16. LoginKept'
  BY <1>4, <1>5 DEF LoginKept
<1> QED BY <1>3, <1>9, <1>10, <1>12, <1>13, <1>14, <1>15, <1>16, ClientStep

LEMMA AuthInitInv == AuthInit => AuthInv
<1> SUFFICES ASSUME AuthInit PROVE AuthInv
  OBVIOUS
<1>1. NoAuth \in AuthStates /\ NoAuth.pc = "idle" /\ 0 \in 0..MaxTokens
  <2>1. 0 \in 0..MaxTokens
    BY CodexAuthAssumption
  <2> QED BY <2>1 DEF NoAuth, AuthStates
<1>2. AuthTypeOK
  BY <1>1 DEF AuthInit, AuthTypeOK
<1>3. FamiliesKnown /\ CodesFresh /\ held \in Issued \cup {0} /\ LoginKept
  BY DEF AuthInit, FamiliesKnown, CodesFresh, Issued, LoginKept
<1>4. \A c, d \in Clients : RequestKnown(c) /\ RequestsApart(c, d)
  BY <1>1 DEF AuthInit, RequestKnown, RequestsApart
<1>5. \A s, t \in RefreshTokens :
         refresh[s] = "live" /\ refresh[t] = "live" /\ family[s] = family[t] => s = t
  BY DEF AuthInit
<1> QED BY <1>2, <1>3, <1>4, <1>5 DEF AuthInv

LEMMA AuthInvStep == AuthInv /\ [AuthNext]_authVars => AuthInv'
<1> SUFFICES ASSUME AuthInv, [AuthNext]_authVars PROVE AuthInv'
  OBVIOUS
<1>1. ASSUME NEW d \in Devices,
             \/ RequestDeviceCode(d) \/ DecideDeviceCode(d) \/ ExchangeDeviceCode(d)
             \/ InsertPkceRequest(d) \/ Authorize(d) \/ CodeExpires(d)
      PROVE  AuthInv'
  BY <1>1, CodeSteps
<1>2. ASSUME NEW d \in Devices, NEW c \in Clients, UseCode(c, d) PROVE AuthInv'
  BY <1>2, UseCodeStep
<1>3. CASE NextSecond
  <2>1. /\ minted' \in BOOLEAN
        /\ UNCHANGED <<device, devicePoll, code, refresh, family, auth, held, grants, disturbed>>
    BY <1>3 DEF NextSecond, deviceVars
  <2>2. AuthTypeOK'
    BY <2>1 DEF AuthInv, AuthTypeOK
  <2>3. CodesFresh'
    BY <2>1 DEF AuthInv, CodesFresh
  <2> QED BY <2>1, <2>2, <2>3, CodeStep
<1>4. ASSUME NEW c \in Clients,
             Rotate(c) \/ DetectReuse(c) \/ BurnFamily(c) \/ InsertRefreshToken(c)
      PROVE  AuthInv'
  BY <1>4, RotateStep, DetectReuseStep, BurnFamilyStep, InsertRefreshTokenStep
<1>5. ASSUME NEW c \in Clients,
             \/ RollBack(c) \/ MintFails(c) \/ AnswerIsLost(c)
             \/ InsertAccessToken(c) \/ AnswerToken(c)
      PROVE  AuthInv'
  BY <1>5, EndSteps, InsertAccessTokenStep, AnswerTokenStep
<1>6. CASE UNCHANGED authVars
  <2>1. AuthTypeOK' /\ CodesFresh'
    BY <1>6 DEF authVars, AuthInv, AuthTypeOK, CodesFresh, deviceVars
  <2> QED BY <1>6, <2>1, CodeStep DEF authVars
<1> QED BY <1>1, <1>2, <1>3, <1>4, <1>5, <1>6 DEF AuthNext

LEMMA AuthInvariance == AuthSpec => []AuthInv
  BY AuthInitInv, AuthInvStep, PTL DEF AuthSpec

\* Codes, tokens and requests are always of their types (codexauth/store.go).
THEOREM AuthAlwaysTyped == AuthSpec => []AuthTypeOK
<1>1. AuthInv => AuthTypeOK
  BY DEF AuthInv
<1> QED BY <1>1, AuthInvariance, PTL

\* For any number of clients that share an auth.json: of a family one refresh
\* token lives at most, a code founds one family at most, and the login goes on
\* working unless an answer was lost or refused or a token replayed
\* (RotateRefreshToken, ConsumePkceRequest, handleTokenRefresh).
THEOREM LoginsAlwaysSound == AuthSpec => []AuthSound
<1>1. AuthInv => AuthSound
  <2> SUFFICES ASSUME AuthInv PROVE AuthSound
    OBVIOUS
  <2>1. ASSUME NEW d \in Devices PROVE Cardinality(grants[d]) <= 1
    <3>1. \A s, t \in grants[d] : s = t
      BY DEF AuthInv, CodesFresh
    <3>2. CASE grants[d] = {}
      BY <3>2, FS_EmptySet
    <3>3. CASE grants[d] # {}
      <4>1. PICK t \in grants[d] : grants[d] = {t}
        BY <3>1, <3>3
      <4>2. Cardinality({t}) = 1
        BY FS_Singleton
      <4> QED BY <4>1, <4>2
    <3> QED BY <3>2, <3>3
  <2> QED BY <2>1 DEF AuthInv, AuthSound, OneLivePerFamily
<1> QED BY <1>1, AuthInvariance, PTL

-----------------------------------------------------------------------------
(* Registration of executors *)

\* Which calls of a request may still be under way, and what those that were answered have
\* done to the rows.
CallsKnown ==
    \A r \in Requests :
        /\ "register" \in underway[r] =>
              \/ request[r].pc = "register" /\ request[r].answer = "none"
              \/ request[r].pc = "done" /\ request[r].reply = "register failed"
        /\ "unregister" \in underway[r] =>
              \/ request[r].pc = "unregister" /\ request[r].answer = "none"
              \/ request[r].pc = "done" /\ request[r].reply = "cleanup failed"
        /\ request[r].pc = "unregister" /\ request[r].answer = "ok" =>
              r \notin executors /\ bound[r] = NoName
        /\ request[r].reply # "none" => request[r].pc = "done"

RegistrationInv == RegistrationTypeOK /\ CallsKnown /\ BindFailedIsClean

\* What one call does to the rows is about its own executor.
LEMMA EffectStep ==
    ASSUME RegistrationInv, NEW r \in Requests, NEW call \in CallNames, Effect(r, call)
    PROVE  /\ executors' \subseteq Requests
           /\ bound' \in [Requests -> ExeNames \cup {NoName}]
           /\ \A q \in Requests : q # r => /\ q \in executors' <=> q \in executors
                                          /\ bound'[q] = bound[q]
           /\ call = "bind" => r \in executors
           /\ call = "unregister" => r \notin executors' /\ bound'[r] = NoName
<1>1. request[r].name \in ExeNames
  BY Zenon DEF RegistrationInv, RegistrationTypeOK, RequestStates
<1>2. CASE call = "register"
  BY <1>2 DEF RegistrationInv, RegistrationTypeOK, Effect, CreateExecutor
<1>3. CASE call = "bind"
  BY <1>1, <1>3 DEF RegistrationInv, RegistrationTypeOK, Effect, BindWorkspaceExecutor
<1>4. CASE call = "unregister"
  BY <1>4 DEF RegistrationInv, RegistrationTypeOK, Effect, DeleteExecutor
<1> QED BY <1>2, <1>3, <1>4 DEF CallNames

\* A call that is executed or fails is no longer under way, and its answer is for the
\* handler that still waits for it.
LEMMA CallStep ==
    ASSUME RegistrationInv, NEW r \in Requests, NEW call \in CallNames,
           ExecuteCall(r, call) \/ CallFails(r, call)
    PROVE  RegistrationInv'
<1>1. PICK a \in {"ok", "error"} :
         /\ Answer(r, call, a)
         /\ IF a = "ok" THEN Effect(r, call) ELSE UNCHANGED <<executors, bound>>
  BY DEF ExecuteCall, CallFails
<1>2. /\ call \in underway[r]
      /\ underway' = [underway EXCEPT ![r] = @ \ {call}]
  BY DEF ExecuteCall, CallFails
<1>3. /\ underway' \in [Requests -> SUBSET CallNames]
      /\ underway'[r] = underway[r] \ {call}
      /\ \A q \in Requests : q # r => underway'[q] = underway[q]
  BY <1>2 DEF RegistrationInv, RegistrationTypeOK
<1>4. /\ request' \in [Requests -> RequestStates]
      /\ \A q \in Requests : /\ q # r => request'[q] = request[q]
                             /\ request'[q].pc = request[q].pc
                             /\ request'[q].reply = request[q].reply
      /\ request'[r].answer = IF request[r].pc = call THEN a ELSE request[r].answer
  BY <1>1, ZenonT(40) DEF RegistrationInv, RegistrationTypeOK, RequestStates, Answer
<1>5. /\ executors' \subseteq Requests /\ bound' \in [Requests -> ExeNames \cup {NoName}]
      /\ \A q \in Requests : q # r => /\ q \in executors' <=> q \in executors
                                     /\ bound'[q] = bound[q]
      /\ a = "ok" /\ call = "bind" => r \in executors
      /\ a = "ok" /\ call = "unregister" => r \notin executors' /\ bound'[r] = NoName
      /\ a = "error" => executors' = executors /\ bound' = bound
  BY <1>1, EffectStep DEF RegistrationInv, RegistrationTypeOK
<1>6. call \in {"register", "bind", "unregister"}
  BY DEF CallNames
<1>7. CallsKnown'
  <2>1. /\ underway'[r] \subseteq underway[r] /\ call \notin underway'[r]
        /\ request[r].pc # call => request'[r].answer = request[r].answer
        /\ request'[r].answer = "ok" => a = "ok" \/ request[r].pc # call
    BY <1>3, <1>4
  <2>2. \A q \in Requests : q # r =>
           /\ underway'[q] = underway[q] /\ request'[q] = request[q]
           /\ q \in executors' <=> q \in executors
           /\ bound'[q] = bound[q]
    BY <1>3, <1>4, <1>5
  <2>3. /\ "register" \in underway'[r] =>
              \/ request'[r].pc = "register" /\ request'[r].answer = "none"
              \/ request'[r].pc = "done" /\ request'[r].reply = "register failed"
        /\ "unregister" \in underway'[r] =>
              \/ request'[r].pc = "unregister" /\ request'[r].answer = "none"
              \/ request'[r].pc = "done" /\ request'[r].reply = "cleanup failed"
    BY <1>4, <1>6, <2>1, Zenon DEF RegistrationInv, CallsKnown
  <2>4. ASSUME request'[r].pc = "unregister", request'[r].answer = "ok"
        PROVE  r \notin executors' /\ bound'[r] = NoName
    <3>1. CASE call = "unregister"
      BY <1>4, <1>5, <2>1, <2>4, <3>1
    <3>2. CASE call # "unregister"
      <4>1. call # "register" /\ r \notin executors /\ bound[r] = NoName
        BY <1>2, <1>4, <2>1, <2>4, <3>2, Zenon DEF RegistrationInv, CallsKnown
      <4> QED BY <1>5, <1>6, <3>2, <4>1
    <3> QED BY <3>1, <3>2
  <2> QED BY <1>4, <2>2, <2>3, <2>4, ZenonT(40) DEF RegistrationInv, CallsKnown
<1>8. BindFailedIsClean'
  BY <1>2, <1>3, <1>4, <1>5, <1>6, ZenonT(40) DEF RegistrationInv, CallsKnown, BindFailedIsClean
<1> QED BY <1>3, <1>4, <1>5, <1>7, <1>8 DEF RegistrationInv, RegistrationTypeOK

\* The handler goes on only from an answer, or gives the call up.
LEMMA RegistrationSteps ==
    ASSUME RegistrationInv, NEW r \in Requests, RegistrationStep(r)
    PROVE  RegistrationInv'
<1>1. ASSUME NEW call \in CallNames, Send(r, call)
      PROVE  /\ request' \in [Requests -> RequestStates]
             /\ underway' \in [Requests -> SUBSET CallNames]
             /\ underway'[r] = underway[r] \cup {call}
             /\ request'[r].pc = call /\ request'[r].answer = "none"
             /\ request'[r].reply = request[r].reply
             /\ \A q \in Requests : q # r => request'[q] = request[q]
                                             /\ underway'[q] = underway[q]
  BY <1>1, ZenonT(40) DEF RegistrationInv, RegistrationTypeOK, RequestStates, Send
<1>2. ASSUME NEW reply \in {"created", "register failed", "bind failed", "cleanup failed",
                            "mint failed"}, Finish(r, reply)
      PROVE  /\ request' \in [Requests -> RequestStates]
             /\ underway' = underway
             /\ request'[r].pc = "done" /\ request'[r].answer = "none"
             /\ request'[r].reply = reply
             /\ \A q \in Requests : q # r => request'[q] = request[q]
  BY <1>2, ZenonT(40) DEF RegistrationInv, RegistrationTypeOK, RequestStates, Finish
<1>3. CASE RegisterExecutor(r)
  <2>1. request[r].pc = "none" /\ Send(r, "register") /\ UNCHANGED <<executors, bound>>
    BY <1>3 DEF RegisterExecutor
  <2> QED
    BY <1>1, <2>1, ZenonT(40)
       DEF RegistrationInv, RegistrationTypeOK, CallsKnown, BindFailedIsClean,
                      CallNames
<1>4. CASE AfterRegister(r)
  <2>1. /\ request[r].pc = "register" /\ UNCHANGED <<executors, bound>>
        /\ \/ request[r].answer = "ok" /\ Send(r, "bind")
           \/ Finish(r, "register failed")
    BY <1>4, Zenon DEF AfterRegister, Returned
  <2>2. CASE request[r].answer = "ok" /\ Send(r, "bind")
    BY <1>1, <2>1, <2>2, ZenonT(40) DEF RegistrationInv, RegistrationTypeOK, CallsKnown,
                            BindFailedIsClean, CallNames
  <2>3. CASE Finish(r, "register failed")
    BY <1>2, <2>1, <2>3, Zenon DEF RegistrationInv, RegistrationTypeOK, CallsKnown,
                            BindFailedIsClean
  <2> QED BY <2>1, <2>2, <2>3, Zenon
<1>5. CASE AfterBind(r)
  <2>1. /\ request[r].pc = "bind" /\ UNCHANGED <<executors, bound>>
        /\ \/ /\ request' = [request EXCEPT ![r].pc = "mint", ![r].answer = "none"]
              /\ UNCHANGED underway
           \/ Send(r, "unregister")
           \/ Finish(r, "cleanup failed")
    BY <1>5, Zenon DEF AfterBind, Returned
  <2>2. CASE /\ request' = [request EXCEPT ![r].pc = "mint", ![r].answer = "none"]
             /\ UNCHANGED underway
    <3>1. /\ request' \in [Requests -> RequestStates]
          /\ request'[r].pc = "mint" /\ request'[r].reply = request[r].reply
          /\ \A q \in Requests : q # r => request'[q] = request[q]
      BY <2>2, ZenonT(40) DEF RegistrationInv, RegistrationTypeOK, RequestStates
    <3> QED
      BY <2>1, <2>2, <3>1, Zenon DEF RegistrationInv, RegistrationTypeOK, CallsKnown,
                              BindFailedIsClean
  <2>3. CASE Send(r, "unregister")
    BY <1>1, <2>1, <2>3, ZenonT(40) DEF RegistrationInv, RegistrationTypeOK, CallsKnown,
                            BindFailedIsClean, CallNames
  <2>4. CASE Finish(r, "cleanup failed")
    BY <1>2, <2>1, <2>4, Zenon DEF RegistrationInv, RegistrationTypeOK, CallsKnown,
                            BindFailedIsClean
  <2> QED BY <2>1, <2>2, <2>3, <2>4, Zenon
<1>6. CASE AfterUnregister(r)
  <2>1. /\ request[r].pc = "unregister" /\ UNCHANGED <<executors, bound>>
        /\ \/ request[r].answer = "ok" /\ Finish(r, "bind failed")
           \/ Finish(r, "cleanup failed")
    BY <1>6, Zenon DEF AfterUnregister, Returned
  <2>2. CASE request[r].answer = "ok" /\ Finish(r, "bind failed")
    BY <1>2, <2>1, <2>2, Zenon DEF RegistrationInv, RegistrationTypeOK, CallsKnown,
                            BindFailedIsClean
  <2>3. CASE Finish(r, "cleanup failed")
    BY <1>2, <2>1, <2>3, Zenon DEF RegistrationInv, RegistrationTypeOK, CallsKnown,
                            BindFailedIsClean
  <2> QED BY <2>1, <2>2, <2>3, Zenon
<1>7. CASE MintIdentity(r)
  <2>1. /\ request[r].pc = "mint" /\ UNCHANGED <<executors, bound>>
        /\ \E reply \in {"created", "mint failed"} : Finish(r, reply)
    BY <1>7, Zenon DEF MintIdentity
  <2> QED
    BY <1>2, <2>1, Zenon DEF RegistrationInv, RegistrationTypeOK, CallsKnown, BindFailedIsClean
<1>8. CASE UnbindExecutor(r)
  <2>1. /\ bound' \in [Requests -> ExeNames \cup {NoName}]
        /\ bound'[r] = NoName /\ \A q \in Requests : q # r => bound'[q] = bound[q]
        /\ UNCHANGED <<request, underway, executors>>
    BY <1>8 DEF RegistrationInv, RegistrationTypeOK, UnbindExecutor
  <2> QED
    BY <2>1, Zenon DEF RegistrationInv, RegistrationTypeOK, CallsKnown, BindFailedIsClean
<1> QED BY <1>3, <1>4, <1>5, <1>6, <1>7, <1>8 DEF RegistrationStep

\* Every step of the registrations keeps the invariant, and it holds at the start.
LEMMA RegistrationKept ==
    /\ RegistrationInit => RegistrationInv
    /\ RegistrationInv /\ [RegistrationNext]_registrationVars => RegistrationInv'
<1>1. ASSUME RegistrationInit PROVE RegistrationInv
  <2>1. \A r \in Requests : \E n \in ExeNames :
           request[r] = [pc |-> "none", answer |-> "none", reply |-> "none", name |-> n]
    BY <1>1 DEF RegistrationInit
  <2>2. request \in [Requests -> RequestStates]
    <3>1. \A n \in ExeNames :
             [pc |-> "none", answer |-> "none", reply |-> "none", name |-> n] \in RequestStates
      BY DEF RequestStates
    <3> QED BY <1>1, <2>1, <3>1 DEF RegistrationInit
  <2>3. RegistrationTypeOK
    BY <1>1, <2>2 DEF RegistrationInit, RegistrationTypeOK
  <2> QED
    BY <1>1, <2>1, <2>3 DEF RegistrationInit, RegistrationInv, CallsKnown, BindFailedIsClean
<1>2. CASE UNCHANGED registrationVars
  BY <1>1, <1>2, Zenon DEF registrationVars, RegistrationInv, RegistrationTypeOK, CallsKnown,
              BindFailedIsClean
<1> QED BY <1>1, <1>2, CallStep, RegistrationSteps DEF RegistrationNext

\* Handlers, calls and rows are always of their types.
THEOREM RegistrationAlwaysTyped == RegistrationSpec => []RegistrationTypeOK
  BY RegistrationKept, PTL DEF RegistrationSpec, RegistrationInv

\* A reply that the executor could not be bound is the last of it, though calls that were
\* given up may still take effect, in any order.
THEOREM BindFailedAlwaysClean == RegistrationSpec => []BindFailedIsClean
  BY RegistrationKept, PTL DEF RegistrationSpec, RegistrationInv

-----------------------------------------------------------------------------
(* Connections and bridges of codex-exec-gateway *)

\* A connection that nobody is closing is registered, or its successor is about to close it.
OpenKnown(i) ==
    inbound[i].pc \in {"evict", "evicting", "mark", "reading"} /\ inbound[i].close = "no"
        => \/ registered = i
           \/ \E j \in Inbounds : inbound[j].pc = "evict" /\ inbound[j].evicts = i

GoesOn(b) ==
    /\ bridge[b].pc \in {"paired", "pump", "read", "write"}
    /\ bridge[b].ws = "open" /\ ~bridge[b].reset

\* A session under way has its connection; while it goes on it holds its route there until the
\* routes are swapped, and one that reads then has its turn in the closing to come.
SessionKnown(b) ==
    LET i == bridge[b].in IN
    /\ bridge[b].pc \notin {"none", "done"} => i \in Inbounds
    /\ GoesOn(b) /\ inbound[i].close \in {"no", "signalled"} =>
          inbound[i].routes[bridge[b].stream] = b
    /\ GoesOn(b) /\ bridge[b].pc = "read" =>
          inbound[i].close \in {"no", "signalled"} \/ b \in inbound[i].fanout

\* A route is that of a session of this connection and stream.
RoutesKnown(i) ==
    \A s \in Streams : LET b == inbound[i].routes[s] IN
        b # NoBridge => /\ bridge[b].in = i /\ bridge[b].stream = s
                        /\ bridge[b].pc \notin {"none", "resuming", "done"}

\* A route is dropped of a session that is over.
DropKnown(i) ==
    inbound[i].drop # NoBridge =>
        bridge[inbound[i].drop].ws = "closed" \/ bridge[inbound[i].drop].reset

ExecInv ==
    /\ ExecTypeOK
    /\ \A i \in Inbounds : OpenKnown(i) /\ RoutesKnown(i) /\ DropKnown(i)
    /\ \A b \in Bridges : SessionKnown(b)

\* A connection stays known while its handler goes on and nobody begins to close it.
LEMMA OpenKept ==
    ASSUME ExecInv, registered' = registered,
           \A j \in Inbounds :
              /\ inbound'[j].pc \in {"evict", "evicting", "mark", "reading"} =>
                    inbound[j].pc \in {"evict", "evicting", "mark", "reading"}
              /\ inbound'[j].close = "no" => inbound[j].close = "no"
              /\ inbound[j].pc = "evict" =>
                    inbound'[j].pc = "evict" /\ inbound'[j].evicts = inbound[j].evicts
    PROVE  \A j \in Inbounds : OpenKnown(j)'
<1> SUFFICES ASSUME NEW j \in Inbounds,
                    inbound'[j].pc \in {"evict", "evicting", "mark", "reading"},
                    inbound'[j].close = "no"
             PROVE  \/ registered' = j
                    \/ \E k \in Inbounds : inbound'[k].pc = "evict" /\ inbound'[k].evicts = j
  BY DEF OpenKnown
<1>1. \/ registered = j
      \/ \E k \in Inbounds : inbound[k].pc = "evict" /\ inbound[k].evicts = j
  BY DEF ExecInv, OpenKnown
<1> QED BY <1>1

\* The steps of the connections that leave the sessions alone.
LEMMA InboundsStep ==
    ASSUME ExecInv, UNCHANGED bridge, inbound' \in [Inbounds -> InboundStates],
           registered' \in Inbounds \cup {NoInbound}, online' \in BOOLEAN,
           \A j \in Inbounds : OpenKnown(j)',
           \A j \in Inbounds : \A s \in Streams :
              inbound'[j].routes[s] \in {inbound[j].routes[s], NoBridge},
           \A j \in Inbounds : inbound'[j].drop \in {inbound[j].drop, NoBridge},
           \A b \in Bridges : SessionKnown(b)'
    PROVE  ExecInv'
<1>1. ASSUME NEW j \in Inbounds PROVE RoutesKnown(j)'
  BY DEF ExecInv, RoutesKnown
<1>2. ASSUME NEW j \in Inbounds PROVE DropKnown(j)'
  <2>1. DropKnown(j)
    BY DEF ExecInv
  <2> QED BY <2>1 DEF DropKnown
<1>3. ExecTypeOK'
  BY DEF ExecInv, ExecTypeOK
<1> QED BY <1>1, <1>2, <1>3 DEF ExecInv

\* They leave the routes alone too, and close none further than that it is signalled.
Quiet(p, q) ==
    /\ q.routes = p.routes /\ q.drop = p.drop /\ q.fanout = p.fanout
    /\ \/ q.close = p.close
       \/ p.close = "no" /\ q.close = "signalled"

LEMMA QuietStep ==
    ASSUME ExecInv, bridge' = bridge, inbound' \in [Inbounds -> InboundStates],
           registered' \in Inbounds \cup {NoInbound}, online' \in BOOLEAN,
           \A j \in Inbounds : OpenKnown(j)',
           \A j \in Inbounds : Quiet(inbound[j], inbound'[j])
    PROVE  ExecInv'
<1>1. ASSUME NEW b \in Bridges PROVE SessionKnown(b)'
  <2>1. SessionKnown(b) /\ (bridge[b].pc \notin {"none", "done"} => bridge[b].in \in Inbounds)
    BY DEF ExecInv, SessionKnown
  <2>2. GoesOn(b)' => GoesOn(b) /\ bridge[b].in \in Inbounds
    BY <2>1 DEF GoesOn
  <2> QED BY <2>1, <2>2 DEF SessionKnown, Quiet
<1>2. \A j \in Inbounds :
        /\ inbound'[j].drop \in {inbound[j].drop, NoBridge}
        /\ \A s \in Streams : inbound'[j].routes[s] \in {inbound[j].routes[s], NoBridge}
  BY DEF Quiet
<1> QED BY <1>1, <1>2, InboundsStep

LEMMA ConnectStep ==
    ASSUME ExecInv, NEW i \in Inbounds, Connect(i)
    PROVE  ExecInv'
<1> DEFINE q == [inbound[i] EXCEPT !.pc = "evict", !.evicts = registered]
<1>1. /\ inbound[i].pc = "none" /\ inbound[i] \in InboundStates
      /\ registered' = i /\ registered \in Inbounds \cup {NoInbound}
      /\ inbound' = [inbound EXCEPT ![i] = q] /\ UNCHANGED <<bridge, online>>
  BY DEF Connect, ExecInv, ExecTypeOK
<1>2. /\ q \in InboundStates /\ q.pc = "evict" /\ q.evicts = registered
      /\ q.routes = inbound[i].routes /\ q.drop = inbound[i].drop
      /\ q.fanout = inbound[i].fanout /\ q.close = inbound[i].close
  BY <1>1 DEF InboundStates
<1> HIDE DEF q
<1>3. /\ inbound' \in [Inbounds -> InboundStates] /\ inbound'[i] = q
      /\ \A j \in Inbounds : j # i => inbound'[j] = inbound[j]
  BY <1>1, <1>2 DEF ExecInv, ExecTypeOK
<1>4. ASSUME NEW j \in Inbounds PROVE OpenKnown(j)'
  <2>1. CASE j = i
    BY <1>1, <2>1 DEF OpenKnown
  <2>2. CASE j # i /\ registered = j
    BY <1>2, <1>3, <2>2 DEF OpenKnown
  <2>3. CASE j # i /\ registered # j
    <3>1. ASSUME NEW k \in Inbounds, inbound[k].pc = "evict" PROVE inbound'[k] = inbound[k]
      BY <1>1, <1>3, <3>1
    <3> QED BY <1>3, <2>3, <3>1 DEF ExecInv, OpenKnown
  <2> QED BY <2>1, <2>2, <2>3
<1>5. \A j \in Inbounds : Quiet(inbound[j], inbound'[j])
  BY <1>2, <1>3 DEF Quiet
<1>6. online' \in BOOLEAN /\ bridge' = bridge /\ registered' \in Inbounds \cup {NoInbound}
  BY <1>1 DEF ExecInv, ExecTypeOK
<1> QED BY <1>1, <1>3, <1>4, <1>5, <1>6, QuietStep

LEMMA EvictStep ==
    ASSUME ExecInv, NEW i \in Inbounds, Evict(i)
    PROVE  ExecInv'
<1>1. /\ inbound[i].pc = "evict" /\ \A j \in Inbounds : inbound[j] \in InboundStates
      /\ inbound \in [Inbounds -> InboundStates] /\ UNCHANGED <<registered, bridge, online>>
      /\ online' \in BOOLEAN /\ registered' \in Inbounds \cup {NoInbound}
      /\ inbound[i].evicts \in Inbounds \cup {NoInbound}
  BY DEF Evict, ExecInv, ExecTypeOK, InboundStates
<1>2. CASE inbound[i].evicts = NoInbound
  <2> DEFINE q == [inbound[i] EXCEPT !.pc = "mark"]
  <2>1. inbound' = [inbound EXCEPT ![i] = q]
    BY <1>2 DEF Evict, InGoto
  <2>2. /\ q \in InboundStates /\ q.pc = "mark"
        /\ q.routes = inbound[i].routes /\ q.drop = inbound[i].drop
        /\ q.fanout = inbound[i].fanout /\ q.close = inbound[i].close
    BY <1>1 DEF InboundStates
  <2> HIDE DEF q
  <2>3. /\ inbound' \in [Inbounds -> InboundStates] /\ inbound'[i] = q
        /\ \A j \in Inbounds : j # i => inbound'[j] = inbound[j]
    BY <1>1, <2>1, <2>2
  <2>4. ASSUME NEW j \in Inbounds PROVE OpenKnown(j)'
    <3>1. \A k \in Inbounds : inbound[k].pc = "evict" /\ inbound[k].evicts = j => k # i
      BY <1>2, ExecGatewayAssumption
    <3>2. inbound'[j].pc \in {"evict", "evicting", "mark", "reading"} /\ inbound'[j].close = "no"
            => \/ registered = j
               \/ \E k \in Inbounds : inbound[k].pc = "evict" /\ inbound[k].evicts = j
      BY <1>1, <2>2, <2>3 DEF ExecInv, OpenKnown
    <3> QED BY <1>1, <2>3, <3>1, <3>2 DEF OpenKnown
  <2>5. \A j \in Inbounds : Quiet(inbound[j], inbound'[j])
    BY <2>2, <2>3 DEF Quiet
  <2>6. bridge' = bridge
    BY <1>1
  <2> QED BY <1>1, <2>3, <2>4, <2>5, <2>6, QuietStep
<1>3. CASE inbound[i].evicts # NoInbound
  <2>1. PICK e \in Inbounds : e = inbound[i].evicts
    BY <1>1, <1>3
  <2>2. inbound' = [CallClose(e) EXCEPT ![i].pc = "evicting"]
    BY <1>3, <2>1 DEF Evict
  <2> DEFINE f == CallClose(e)
  <2>3. /\ f \in [Inbounds -> InboundStates] /\ f[e].close # "no"
        /\ \A j \in Inbounds :
              /\ f[j].pc = inbound[j].pc /\ f[j].evicts = inbound[j].evicts
              /\ f[j].routes = inbound[j].routes /\ f[j].drop = inbound[j].drop
              /\ f[j].fanout = inbound[j].fanout
              /\ \/ f[j].close = inbound[j].close
                 \/ inbound[j].close = "no" /\ f[j].close = "signalled"
    <3> DEFINE r == [inbound[e] EXCEPT !.close = IF @ = "no" THEN "signalled" ELSE @]
    <3>1. f = [inbound EXCEPT ![e] = r]
      BY DEF CallClose
    <3>2. /\ r \in InboundStates /\ r.close # "no"
          /\ r.pc = inbound[e].pc /\ r.evicts = inbound[e].evicts
          /\ r.routes = inbound[e].routes /\ r.drop = inbound[e].drop
          /\ r.fanout = inbound[e].fanout
          /\ \/ r.close = inbound[e].close
             \/ inbound[e].close = "no" /\ r.close = "signalled"
      BY <1>1 DEF InboundStates
    <3> HIDE DEF r, f
    <3> QED BY <1>1, <3>1, <3>2
  <2> HIDE DEF f
  <2>4. /\ inbound' \in [Inbounds -> InboundStates] /\ inbound'[i].pc = "evicting"
        /\ inbound'[e].close # "no"
        /\ \A j \in Inbounds : j # i => inbound'[j].pc = inbound[j].pc
        /\ \A j \in Inbounds :
              /\ inbound'[j].evicts = inbound[j].evicts
              /\ inbound'[j].routes = inbound[j].routes /\ inbound'[j].drop = inbound[j].drop
              /\ inbound'[j].fanout = inbound[j].fanout
              /\ \/ inbound'[j].close = inbound[j].close
                 \/ inbound[j].close = "no" /\ inbound'[j].close = "signalled"
    <3> DEFINE q == [f[i] EXCEPT !.pc = "evicting"]
    <3>1. inbound' = [f EXCEPT ![i] = q]
      BY <2>2 DEF f
    <3>2. /\ q \in InboundStates /\ q.pc = "evicting" /\ q.evicts = f[i].evicts
          /\ q.routes = f[i].routes /\ q.drop = f[i].drop
          /\ q.fanout = f[i].fanout /\ q.close = f[i].close
      <4>1. f[i] \in InboundStates
        BY <2>3
      <4> QED BY <4>1 DEF InboundStates
    <3> HIDE DEF q
    <3>3. /\ inbound' \in [Inbounds -> InboundStates] /\ inbound'[i] = q
          /\ \A j \in Inbounds : j # i => inbound'[j] = f[j]
      BY <2>3, <3>1, <3>2
    <3> QED BY <2>3, <3>2, <3>3
  <2>5. ASSUME NEW j \in Inbounds PROVE OpenKnown(j)'
    <3>1. CASE j = e
      BY <2>4, <3>1 DEF OpenKnown
    <3>2. CASE j # e
      <4>1. \A k \in Inbounds : inbound[k].pc = "evict" /\ inbound[k].evicts = j => k # i
        BY <2>1, <3>2
      <4>2. \/ inbound[j].pc = inbound'[j].pc
            \/ inbound[j].pc = "evict"
        BY <1>1, <2>4
      <4>3. inbound'[j].close = "no" => inbound[j].close = "no"
        BY <2>4
      <4>4. inbound'[j].pc \in {"evict", "evicting", "mark", "reading"} /\ inbound'[j].close = "no"
              => \/ registered = j
                 \/ \E k \in Inbounds : inbound[k].pc = "evict" /\ inbound[k].evicts = j
        BY <4>2, <4>3 DEF ExecInv, OpenKnown
      <4>5. \A k \in Inbounds : inbound[k].pc = "evict" /\ inbound[k].evicts = j =>
                inbound'[k].pc = "evict" /\ inbound'[k].evicts = j
        BY <2>4, <4>1
      <4> QED BY <1>1, <4>4, <4>5 DEF OpenKnown
    <3> QED BY <3>1, <3>2
  <2>6. \A j \in Inbounds : Quiet(inbound[j], inbound'[j])
    BY <2>4 DEF Quiet
  <2>7. bridge' = bridge
    BY <1>1
  <2> QED BY <1>1, <2>4, <2>5, <2>6, <2>7, QuietStep
<1> QED BY <1>2, <1>3

\* The handler of a connection goes on, its connection breaks or its closing begins.
LEMMA ConnectionSteps ==
    ASSUME ExecInv, NEW i \in Inbounds,
           \/ Evicted(i) \/ MarkConnected(i) \/ InboundBreaks(i) \/ MarkDisconnected(i)
           \/ Unregister(i)
    PROVE  ExecInv'
<1>1. /\ \A j \in Inbounds : inbound[j] \in InboundStates
      /\ inbound \in [Inbounds -> InboundStates] /\ bridge' = bridge
      /\ online' \in BOOLEAN
  BY DEF ExecInv, ExecTypeOK, Evicted, MarkConnected, InboundBreaks, MarkDisconnected, Unregister
<1>2. \E q \in InboundStates :
        /\ inbound' = [inbound EXCEPT ![i] = q]
        /\ Quiet(inbound[i], q)
        /\ \/ q.pc = inbound[i].pc /\ q.evicts = inbound[i].evicts
           \/ inbound[i].pc = "evicting" /\ q.pc = "mark"
           \/ inbound[i].pc = "mark" /\ q.pc = "reading"
           \/ inbound[i].pc \in {"reading", "closing"} /\ q.pc \in {"closing", "gone"}
  <2>1. CASE Evicted(i)
    <3> DEFINE q == [inbound[i] EXCEPT !.pc = "mark", !.evicts = NoInbound]
    <3>1. inbound' = [inbound EXCEPT ![i] = q] /\ inbound[i].pc = "evicting"
      BY <2>1 DEF Evicted
    <3>2. q \in InboundStates /\ q.pc = "mark" /\ q.close = inbound[i].close
          /\ q.routes = inbound[i].routes /\ q.drop = inbound[i].drop
          /\ q.fanout = inbound[i].fanout
      BY <1>1 DEF InboundStates
    <3> HIDE DEF q
    <3> QED BY <3>1, <3>2 DEF Quiet
  <2>2. CASE MarkConnected(i)
    <3> DEFINE q == [inbound[i] EXCEPT !.pc = "reading"]
    <3>1. inbound' = [inbound EXCEPT ![i] = q] /\ inbound[i].pc = "mark"
      BY <2>2 DEF MarkConnected, InGoto
    <3>2. q \in InboundStates /\ q.pc = "reading" /\ q.close = inbound[i].close
          /\ q.routes = inbound[i].routes /\ q.drop = inbound[i].drop
          /\ q.fanout = inbound[i].fanout
      BY <1>1 DEF InboundStates
    <3> HIDE DEF q
    <3> QED BY <3>1, <3>2 DEF Quiet
  <2>3. CASE InboundBreaks(i)
    <3> DEFINE q == [inbound[i] EXCEPT !.ws = "closed"]
    <3>1. inbound' = [inbound EXCEPT ![i] = q]
      BY <2>3 DEF InboundBreaks
    <3>2. q \in InboundStates /\ q.pc = inbound[i].pc /\ q.close = inbound[i].close
          /\ q.evicts = inbound[i].evicts
          /\ q.routes = inbound[i].routes /\ q.drop = inbound[i].drop
          /\ q.fanout = inbound[i].fanout
      BY <1>1 DEF InboundStates
    <3> HIDE DEF q
    <3> QED BY <3>1, <3>2 DEF Quiet
  <2>4. CASE MarkDisconnected(i)
    <3> DEFINE q == [inbound[i] EXCEPT !.pc = "gone"]
    <3>1. inbound' = [inbound EXCEPT ![i] = q] /\ inbound[i].pc = "closing"
      BY <2>4 DEF MarkDisconnected, InGoto
    <3>2. q \in InboundStates /\ q.pc = "gone" /\ q.close = inbound[i].close
          /\ q.routes = inbound[i].routes /\ q.drop = inbound[i].drop
          /\ q.fanout = inbound[i].fanout
      BY <1>1 DEF InboundStates
    <3> HIDE DEF q
    <3> QED BY <3>1, <3>2 DEF Quiet
  <2>5. CASE Unregister(i)
    <3> DEFINE q == [inbound[i] EXCEPT !.close = IF @ = "no" THEN "signalled" ELSE @,
                                       !.pc = "closing"]
    <3>1. inbound' = [inbound EXCEPT ![i] = q] /\ inbound[i].pc = "reading"
      <4>1. inbound' = [CallClose(i) EXCEPT ![i].pc = "closing"] /\ inbound[i].pc = "reading"
        BY <2>5 DEF Unregister
      <4> QED BY <1>1, <4>1 DEF CallClose
    <3>2. q \in InboundStates /\ q.pc = "closing"
          /\ q.close = (IF inbound[i].close = "no" THEN "signalled" ELSE inbound[i].close)
          /\ q.routes = inbound[i].routes /\ q.drop = inbound[i].drop
          /\ q.fanout = inbound[i].fanout
      BY <1>1 DEF InboundStates
    <3> HIDE DEF q
    <3> QED BY <3>1, <3>2 DEF Quiet
  <2> QED BY <2>1, <2>2, <2>3, <2>4, <2>5
<1>3. PICK q \in InboundStates :
        /\ inbound' = [inbound EXCEPT ![i] = q]
        /\ Quiet(inbound[i], q)
        /\ \/ q.pc = inbound[i].pc /\ q.evicts = inbound[i].evicts
           \/ inbound[i].pc = "evicting" /\ q.pc = "mark"
           \/ inbound[i].pc = "mark" /\ q.pc = "reading"
           \/ inbound[i].pc \in {"reading", "closing"} /\ q.pc \in {"closing", "gone"}
  BY <1>2
<1>4. /\ inbound' \in [Inbounds -> InboundStates] /\ inbound'[i] = q
      /\ \A j \in Inbounds : j # i => inbound'[j] = inbound[j]
  BY <1>1, <1>3
<1>5. \A j \in Inbounds :
        /\ inbound'[j].pc \in {"evict", "evicting", "mark", "reading"} =>
              inbound[j].pc \in {"evict", "evicting", "mark", "reading"}
        /\ inbound'[j].close = "no" => inbound[j].close = "no"
        /\ inbound[j].pc = "evict" =>
              inbound'[j].pc = "evict" /\ inbound'[j].evicts = inbound[j].evicts
  BY <1>3, <1>4 DEF Quiet
<1>6. registered' \in Inbounds \cup {NoInbound} /\ \A j \in Inbounds : OpenKnown(j)'
  <2>1. CASE registered' = registered
    BY <1>5, <2>1, OpenKept DEF ExecInv, ExecTypeOK
  <2>2. CASE registered' # registered
    <3>1. Unregister(i) /\ registered = i /\ registered' = NoInbound
      BY <2>2 DEF Evicted, MarkConnected, InboundBreaks, MarkDisconnected, Unregister
    <3>2. inbound[i].pc = "reading" /\ inbound'[i].pc = "closing"
      BY <1>1, <3>1 DEF Unregister, CallClose
    <3>3. ASSUME NEW j \in Inbounds PROVE OpenKnown(j)'
      <4>1. CASE j = i
        BY <3>2, <4>1 DEF OpenKnown
      <4>2. CASE j # i
        BY <1>4, <1>5, <3>1, <4>2 DEF ExecInv, OpenKnown
      <4> QED BY <4>1, <4>2
    <3> QED BY <3>1, <3>3
  <2> QED BY <2>1, <2>2
<1>7. \A j \in Inbounds : Quiet(inbound[j], inbound'[j])
  BY <1>3, <1>4 DEF Quiet
<1> QED BY <1>1, <1>4, <1>6, <1>7, QuietStep

\* The one that closes swaps the routes, and closes the connection when it has closed what
\* they held; a reader drops a route.
LEMMA RoutesStep ==
    ASSUME ExecInv, NEW i \in Inbounds,
           SwapRoutes(i) \/ CloseInboundWs(i) \/ DropRoute(i)
    PROVE  ExecInv'
<1>1. /\ inbound \in [Inbounds -> InboundStates] /\ inbound[i] \in InboundStates
      /\ UNCHANGED <<registered, bridge, online>> /\ bridge \in [Bridges -> BridgeStates]
      /\ registered' \in Inbounds \cup {NoInbound} /\ online' \in BOOLEAN
  BY DEF ExecInv, ExecTypeOK, SwapRoutes, CloseInboundWs, DropRoute
<1>2. PICK q \in InboundStates :
        /\ inbound' = [inbound EXCEPT ![i] = q]
        /\ q.pc = inbound[i].pc /\ q.evicts = inbound[i].evicts
        /\ q.close = "no" => inbound[i].close = "no"
        /\ \A s \in Streams : q.routes[s] \in {inbound[i].routes[s], NoBridge}
        /\ q.drop \in {inbound[i].drop, NoBridge}
        /\ \/ /\ inbound[i].close = "signalled" /\ q.close = "swapped"
              /\ \A s \in Streams : inbound[i].routes[s] \in q.fanout \cup {NoBridge}
           \/ /\ inbound[i].close = "swapped" /\ inbound[i].fanout = {} /\ q.close = "closed"
           \/ /\ q.close = inbound[i].close /\ q.fanout = inbound[i].fanout
              /\ \A s \in Streams : \/ q.routes[s] = inbound[i].routes[s]
                                    \/ inbound[i].routes[s] = inbound[i].drop
  <2>1. CASE SwapRoutes(i)
    <3> DEFINE q == [inbound[i] EXCEPT !.close = "swapped", !.fanout = Routed(i),
                                       !.routes = NewInbound.routes]
    <3>1. inbound' = [inbound EXCEPT ![i] = q] /\ inbound[i].close = "signalled"
      BY <2>1 DEF SwapRoutes
    <3>2. /\ Routed(i) \subseteq Bridges
          /\ \A s \in Streams : inbound[i].routes[s] \in Routed(i) \cup {NoBridge}
      BY <1>1 DEF Routed, Route, InboundStates
    <3>3. NewInbound.routes = [s \in Streams |-> NoBridge]
      BY DEF NewInbound
    <3>4. /\ q \in InboundStates /\ q.pc = inbound[i].pc /\ q.evicts = inbound[i].evicts
          /\ q.close = "swapped" /\ q.fanout = Routed(i) /\ q.drop = inbound[i].drop
          /\ q.routes = [s \in Streams |-> NoBridge]
      BY <1>1, <3>2, <3>3 DEF InboundStates
    <3> HIDE DEF q
    <3>5. \A s \in Streams : q.routes[s] = NoBridge
      BY <3>4
    <3> QED BY <3>1, <3>2, <3>4, <3>5
  <2>2. CASE CloseInboundWs(i)
    <3> DEFINE q == [inbound[i] EXCEPT !.close = "closed", !.ws = "closed"]
    <3>1. /\ inbound' = [inbound EXCEPT ![i] = q] /\ inbound[i].close = "swapped"
          /\ inbound[i].fanout = {}
      BY <2>2 DEF CloseInboundWs
    <3>2. /\ q \in InboundStates /\ q.pc = inbound[i].pc /\ q.evicts = inbound[i].evicts
          /\ q.close = "closed" /\ q.routes = inbound[i].routes /\ q.drop = inbound[i].drop
      BY <1>1 DEF InboundStates
    <3> HIDE DEF q
    <3> QED BY <3>1, <3>2
  <2>3. CASE DropRoute(i)
    <3>1. PICK b \in Bridges : b = inbound[i].drop /\ b # NoBridge
      BY <1>1, <2>3 DEF DropRoute, InboundStates
    <3> DEFINE r == RemoveRoute(i, b)
               q == [inbound[i] EXCEPT !.drop = NoBridge, !.routes = r]
    <3>2. inbound' = [inbound EXCEPT ![i] = q]
      BY <2>3, <3>1 DEF DropRoute
    <3>3. /\ r \in [Streams -> Bridges \cup {NoBridge}]
          /\ \A s \in Streams :
                \/ r[s] = inbound[i].routes[s]
                \/ r[s] = NoBridge /\ inbound[i].routes[s] = b
      BY <1>1, <3>1 DEF RemoveRoute, InboundStates
    <3> HIDE DEF r
    <3>4. /\ q \in InboundStates /\ q.pc = inbound[i].pc /\ q.evicts = inbound[i].evicts
          /\ q.close = inbound[i].close /\ q.fanout = inbound[i].fanout
          /\ q.routes = r /\ q.drop = NoBridge
      BY <1>1, <3>3 DEF InboundStates
    <3> HIDE DEF q
    <3> QED BY <3>1, <3>2, <3>3, <3>4
  <2> QED BY <2>1, <2>2, <2>3
<1>3. /\ inbound' \in [Inbounds -> InboundStates] /\ inbound'[i] = q
      /\ \A j \in Inbounds : j # i => inbound'[j] = inbound[j]
  BY <1>1, <1>2
<1>4. \A j \in Inbounds :
        /\ inbound'[j].pc \in {"evict", "evicting", "mark", "reading"} =>
              inbound[j].pc \in {"evict", "evicting", "mark", "reading"}
        /\ inbound'[j].close = "no" => inbound[j].close = "no"
        /\ inbound[j].pc = "evict" =>
              inbound'[j].pc = "evict" /\ inbound'[j].evicts = inbound[j].evicts
  <2>1. /\ q.pc = inbound[i].pc /\ q.evicts = inbound[i].evicts
        /\ q.close = "no" => inbound[i].close = "no"
    BY <1>2
  <2> QED BY <1>3, <2>1
<1>5. \A j \in Inbounds : OpenKnown(j)'
  BY <1>1, <1>4, OpenKept
<1>6. ASSUME NEW b \in Bridges PROVE SessionKnown(b)'
  <2>1. /\ SessionKnown(b) /\ bridge'[b] = bridge[b] /\ GoesOn(b)' = GoesOn(b)
        /\ bridge[b] \in BridgeStates
    BY <1>1 DEF ExecInv, GoesOn
  <2>2. CASE bridge[b].in # i
    <3>1. GoesOn(b) => bridge[b].in \in Inbounds
      BY <2>1 DEF SessionKnown, GoesOn
    <3>2. GoesOn(b) => inbound'[bridge[b].in] = inbound[bridge[b].in]
      BY <1>3, <2>2, <3>1
    <3> QED BY <2>1, <3>2 DEF SessionKnown
  <2>3. CASE bridge[b].in = i
    <3>1. SUFFICES ASSUME GoesOn(b)
                   PROVE  /\ q.close \in {"no", "signalled"} => q.routes[bridge[b].stream] = b
                          /\ bridge[b].pc = "read" =>
                                q.close \in {"no", "signalled"} \/ b \in q.fanout
      BY <1>3, <2>1, <2>3 DEF SessionKnown
    <3>2. /\ inbound[i].close \in {"no", "signalled"} => inbound[i].routes[bridge[b].stream] = b
          /\ bridge[b].pc = "read" =>
                inbound[i].close \in {"no", "signalled"} \/ b \in inbound[i].fanout
      BY <2>1, <2>3, <3>1 DEF SessionKnown
    <3>3. bridge[b].stream \in Streams /\ b # NoBridge
      BY <2>1, ExecGatewayAssumption DEF BridgeStates
    <3>4. inbound[i].drop # b
      <4>1. DropKnown(i)
        BY DEF ExecInv
      <4> QED BY <3>1, <3>3, <4>1 DEF DropKnown, GoesOn
    <3> DEFINE st == bridge[b].stream
    <3>5. CASE inbound[i].close = "signalled" /\ q.close = "swapped"
               /\ inbound[i].routes[st] \in q.fanout \cup {NoBridge}
      BY <3>2, <3>3, <3>5
    <3>6. CASE inbound[i].close = "swapped" /\ inbound[i].fanout = {} /\ q.close = "closed"
      BY <3>2, <3>6
    <3>7. CASE /\ q.close = inbound[i].close /\ q.fanout = inbound[i].fanout
               /\ \/ q.routes[st] = inbound[i].routes[st]
                  \/ inbound[i].routes[st] = inbound[i].drop
      BY <3>2, <3>4, <3>7
    <3> QED BY <1>2, <3>3, <3>5, <3>6, <3>7
  <2> QED BY <2>2, <2>3
<1>7. /\ \A j \in Inbounds : \A s \in Streams :
            inbound'[j].routes[s] \in {inbound[j].routes[s], NoBridge}
      /\ \A j \in Inbounds : inbound'[j].drop \in {inbound[j].drop, NoBridge}
  <2>1. /\ \A s \in Streams : q.routes[s] \in {inbound[i].routes[s], NoBridge}
        /\ q.drop \in {inbound[i].drop, NoBridge}
    BY <1>2
  <2> QED BY <1>3, <2>1
<1> QED BY <1>1, <1>3, <1>5, <1>6, <1>7, InboundsStep

\* A step of one session that leaves the connections alone.
LEMMA SessionStep ==
    ASSUME ExecInv, NEW b \in Bridges, NEW r \in BridgeStates,
           bridge' = [bridge EXCEPT ![b] = r], UNCHANGED <<registered, inbound, online>>,
           SessionKnown(b)',
           bridge[b].pc \notin {"none", "resuming", "done"} =>
              /\ r.in = bridge[b].in /\ r.stream = bridge[b].stream
              /\ r.pc \notin {"none", "resuming", "done"},
           bridge[b].ws = "closed" \/ bridge[b].reset => r.ws = "closed" \/ r.reset
    PROVE  ExecInv'
<1>1. /\ bridge' \in [Bridges -> BridgeStates] /\ bridge'[b] = r
      /\ \A c \in Bridges : c # b => bridge'[c] = bridge[c]
  BY DEF ExecInv, ExecTypeOK
<1>2. ASSUME NEW c \in Bridges PROVE SessionKnown(c)'
  <2>1. CASE c # b
    <3>1. SessionKnown(c) /\ bridge'[c] = bridge[c] /\ GoesOn(c)' = GoesOn(c)
      BY <1>1, <2>1 DEF ExecInv, GoesOn
    <3> QED BY <3>1 DEF SessionKnown
  <2> QED BY <2>1
<1>3. ASSUME NEW i \in Inbounds PROVE OpenKnown(i)' /\ RoutesKnown(i)' /\ DropKnown(i)'
  <2>1. /\ OpenKnown(i) /\ RoutesKnown(i) /\ DropKnown(i) /\ inbound[i] \in InboundStates
        /\ inbound'[i] = inbound[i]
    BY DEF ExecInv, ExecTypeOK
  <2>2. OpenKnown(i)'
    BY <2>1 DEF OpenKnown
  <2>3. RoutesKnown(i)'
    <3> SUFFICES ASSUME NEW s \in Streams, inbound[i].routes[s] # NoBridge
                 PROVE  LET c == inbound[i].routes[s] IN
                        /\ bridge'[c].in = i /\ bridge'[c].stream = s
                        /\ bridge'[c].pc \notin {"none", "resuming", "done"}
      BY <2>1 DEF RoutesKnown
    <3> DEFINE c == inbound[i].routes[s]
    <3>1. /\ c \in Bridges /\ bridge[c].in = i /\ bridge[c].stream = s
          /\ bridge[c].pc \notin {"none", "resuming", "done"}
      BY <2>1 DEF RoutesKnown, InboundStates
    <3> HIDE DEF c
    <3> QED BY <1>1, <3>1 DEF c
  <2>4. DropKnown(i)'
    <3> SUFFICES ASSUME inbound[i].drop # NoBridge
                 PROVE  bridge'[inbound[i].drop].ws = "closed" \/ bridge'[inbound[i].drop].reset
      BY <2>1 DEF DropKnown
    <3>1. inbound[i].drop \in Bridges
      BY <2>1 DEF InboundStates
    <3> QED BY <1>1, <2>1, <3>1 DEF DropKnown
  <2> QED BY <2>2, <2>3, <2>4
<1>4. ExecTypeOK'
  BY <1>1 DEF ExecInv, ExecTypeOK
<1> QED BY <1>2, <1>3, <1>4 DEF ExecInv

LEMMA SessionSteps ==
    ASSUME ExecInv, NEW b \in Bridges,
           \/ OpenBridge(b) \/ BridgeBreaks(b) \/ NoResume(b) \/ ReadFrame(b)
           \/ CheckClosed(b) \/ ReadFails(b) \/ \E from \in {"paired", "write"} : Forward(b, from)
    PROVE  ExecInv'
<1>1. /\ bridge[b] \in BridgeStates /\ SessionKnown(b) /\ UNCHANGED <<inbound, online>>
      /\ UNCHANGED registered /\ registered \in Inbounds \cup {NoInbound}
  BY DEF ExecInv, ExecTypeOK, OpenBridge, BridgeBreaks, NoResume, ReadFrame, CheckClosed,
         ReadFails, Forward
<1> DEFINE P(r) ==
             /\ bridge' = [bridge EXCEPT ![b] = r]
             /\ bridge[b].ws = "closed" \/ bridge[b].reset => r.ws = "closed" \/ r.reset
             /\ r.stream = bridge[b].stream /\ r.reset = bridge[b].reset
             /\ \/ /\ bridge[b].pc = "none" /\ r.pc = "resuming" /\ r.in \in Inbounds
                \/ /\ bridge[b].pc # "none" /\ r.ws = "closed" /\ r.pc = bridge[b].pc
                   /\ r.in = bridge[b].in
                \/ /\ bridge[b].pc = "resuming" /\ r.pc = "done"
                \/ /\ bridge[b].pc \in {"paired", "pump", "read", "write"}
                   /\ r.pc \in {"pump", "write", "leave"}
                   /\ r.in = bridge[b].in /\ r.ws = bridge[b].ws
                \/ /\ bridge[b].pc = "pump" /\ r.pc = "read" /\ r.ws = bridge[b].ws
                   /\ r.in = bridge[b].in
                   /\ bridge[b].ws = "open" /\ inbound[bridge[b].in].close = "no"
<1>2. \E r \in BridgeStates : P(r)
  <2>1. CASE OpenBridge(b)
    <3> DEFINE r == [bridge[b] EXCEPT !.pc = "resuming", !.in = registered]
    <3>1. /\ bridge' = [bridge EXCEPT ![b] = r] /\ bridge[b].pc = "none"
          /\ registered \in Inbounds
      BY <1>1, <2>1 DEF OpenBridge
    <3>2. /\ r \in BridgeStates /\ r.pc = "resuming" /\ r.in = registered
          /\ r.stream = bridge[b].stream /\ r.reset = bridge[b].reset /\ r.ws = bridge[b].ws
      BY <1>1 DEF BridgeStates
    <3> HIDE DEF r
    <3> QED BY <3>1, <3>2
  <2>2. CASE BridgeBreaks(b)
    <3> DEFINE r == [bridge[b] EXCEPT !.ws = "closed"]
    <3>1. bridge' = [bridge EXCEPT ![b] = r] /\ bridge[b].pc # "none"
      BY <2>2 DEF BridgeBreaks
    <3>2. /\ r \in BridgeStates /\ r.pc = bridge[b].pc /\ r.in = bridge[b].in
          /\ r.stream = bridge[b].stream /\ r.reset = bridge[b].reset /\ r.ws = "closed"
      BY <1>1 DEF BridgeStates
    <3> HIDE DEF r
    <3> QED BY <3>1, <3>2
  <2>3. CASE NoResume(b)
    <3> DEFINE r == [bridge[b] EXCEPT !.pc = "done", !.ws = "closed", !.in = NoInbound]
    <3>1. bridge' = [bridge EXCEPT ![b] = r] /\ bridge[b].pc = "resuming"
      BY <2>3 DEF NoResume
    <3>2. /\ r \in BridgeStates /\ r.pc = "done"
          /\ r.stream = bridge[b].stream /\ r.reset = bridge[b].reset /\ r.ws = "closed"
      BY <1>1 DEF BridgeStates
    <3> HIDE DEF r
    <3> QED BY <3>1, <3>2
  <2>4. ASSUME NEW pc \in {"pump", "read", "write", "leave"},
               bridge' = [bridge EXCEPT ![b].pc = pc],
               bridge[b].pc \in {"paired", "pump", "read", "write"},
               pc = "read" => /\ bridge[b].pc = "pump" /\ bridge[b].ws = "open"
                              /\ inbound[bridge[b].in].close = "no"
        PROVE  \E r \in BridgeStates : P(r)
    <3> DEFINE r == [bridge[b] EXCEPT !.pc = pc]
    <3>1. bridge' = [bridge EXCEPT ![b] = r]
      BY <2>4
    <3>2. /\ r \in BridgeStates /\ r.pc = pc /\ r.in = bridge[b].in
          /\ r.stream = bridge[b].stream /\ r.reset = bridge[b].reset /\ r.ws = bridge[b].ws
      BY <1>1 DEF BridgeStates
    <3> HIDE DEF r
    <3> QED BY <2>4, <3>1, <3>2
  <2>5. CASE ReadFrame(b)
    BY <2>4, <2>5 DEF ReadFrame, BrGoto
  <2>6. CASE CheckClosed(b)
    <3>1. CASE bridge[b].ws = "closed" \/ inbound[bridge[b].in].close # "no"
      BY <2>4, <2>6, <3>1 DEF CheckClosed, BrGoto
    <3>2. CASE ~ (bridge[b].ws = "closed" \/ inbound[bridge[b].in].close # "no")
      <4>1. bridge[b].ws = "open" /\ inbound[bridge[b].in].close = "no"
        BY <1>1, <3>2 DEF BridgeStates
      <4>2. bridge' = [bridge EXCEPT ![b].pc = "read"] /\ bridge[b].pc = "pump"
        BY <2>6, <3>2 DEF CheckClosed, BrGoto
      <4> QED BY <2>4, <4>1, <4>2
    <3> QED BY <3>1, <3>2
  <2>7. CASE ReadFails(b)
    BY <2>4, <2>7 DEF ReadFails, BrGoto
  <2>8. ASSUME NEW from \in {"paired", "write"}, Forward(b, from)
        PROVE  \E r \in BridgeStates : P(r)
    BY <2>4, <2>8 DEF Forward, BrGoto
  <2> QED BY <2>1, <2>2, <2>3, <2>5, <2>6, <2>7, <2>8
<1>3. PICK r \in BridgeStates : P(r)
  BY <1>2
<1>4. bridge'[b] = r
  BY <1>3 DEF ExecInv, ExecTypeOK
<1>5. SessionKnown(b)'
  <2>1. r.pc \notin {"none", "done"} => r.in \in Inbounds
    BY <1>1, <1>3 DEF SessionKnown
  <2>2. GoesOn(b)' =>
          /\ GoesOn(b) /\ r.in = bridge[b].in /\ r.stream = bridge[b].stream
          /\ r.pc = "read" => inbound[bridge[b].in].close = "no"
    BY <1>3, <1>4 DEF GoesOn
  <2>3. GoesOn(b)' /\ inbound'[r.in].close \in {"no", "signalled"} =>
          inbound'[r.in].routes[r.stream] = b
    BY <1>1, <2>2 DEF SessionKnown
  <2>4. GoesOn(b)' /\ r.pc = "read" => inbound'[r.in].close \in {"no", "signalled"}
    BY <1>1, <2>2
  <2> QED BY <1>4, <2>1, <2>3, <2>4 DEF SessionKnown
<1>6. bridge[b].pc \notin {"none", "resuming", "done"} =>
        /\ r.in = bridge[b].in /\ r.stream = bridge[b].stream
        /\ r.pc \notin {"none", "resuming", "done"}
  BY <1>3
<1> QED BY <1>1, <1>3, <1>5, <1>6, SessionStep

\* A session is closed or its stream reset, by a connection that notes it.
LEMMA OverStep ==
    ASSUME ExecInv, NEW i \in Inbounds, NEW q \in InboundStates,
           NEW b \in Bridges, NEW r \in BridgeStates,
           inbound' = [inbound EXCEPT ![i] = q], bridge' = [bridge EXCEPT ![b] = r],
           UNCHANGED <<registered, online>>,
           q.pc = inbound[i].pc, q.evicts = inbound[i].evicts, q.close = inbound[i].close,
           q.routes = inbound[i].routes, q.drop \in {inbound[i].drop, b},
           inbound[i].fanout \subseteq q.fanout \cup {b},
           r.pc = bridge[b].pc, r.in = bridge[b].in, r.stream = bridge[b].stream,
           r.ws = "closed" \/ r.reset
    PROVE  ExecInv'
<1>1. /\ inbound' \in [Inbounds -> InboundStates] /\ inbound'[i] = q
      /\ \A j \in Inbounds : j # i => inbound'[j] = inbound[j]
      /\ bridge' \in [Bridges -> BridgeStates] /\ bridge'[b] = r
      /\ \A c \in Bridges : c # b => bridge'[c] = bridge[c]
  BY DEF ExecInv, ExecTypeOK
<1>2. ExecTypeOK'
  BY <1>1 DEF ExecInv, ExecTypeOK
<1>3. \A j \in Inbounds : OpenKnown(j)'
  BY <1>1, OpenKept
<1>4. ASSUME NEW j \in Inbounds PROVE RoutesKnown(j)'
  <2>1. /\ RoutesKnown(j) /\ inbound[j] \in InboundStates
        /\ inbound'[j].routes = inbound[j].routes
    BY <1>1 DEF ExecInv, ExecTypeOK
  <2>2. \A c \in Bridges : /\ bridge'[c].in = bridge[c].in /\ bridge'[c].pc = bridge[c].pc
                           /\ bridge'[c].stream = bridge[c].stream
    BY <1>1
  <2>3. \A s \in Streams : inbound[j].routes[s] \in Bridges \cup {NoBridge}
    BY <2>1 DEF InboundStates
  <2> QED BY <2>1, <2>2, <2>3 DEF RoutesKnown
<1>5. ASSUME NEW j \in Inbounds PROVE DropKnown(j)'
  <2>1. /\ DropKnown(j) /\ inbound[j].drop \in Bridges \cup {NoBridge}
        /\ inbound'[j].drop \in {inbound[j].drop, b}
    BY <1>1 DEF ExecInv, ExecTypeOK, InboundStates
  <2>2. CASE inbound'[j].drop = b
    BY <1>1, <2>2 DEF DropKnown
  <2>3. CASE inbound'[j].drop # b
    BY <1>1, <2>1, <2>3 DEF DropKnown
  <2> QED BY <2>2, <2>3
<1>6. ASSUME NEW c \in Bridges PROVE SessionKnown(c)'
  <2>1. CASE c = b
    <3>1. bridge'[c].pc \notin {"none", "done"} => bridge'[c].in \in Inbounds
      BY <1>1, <2>1 DEF ExecInv, SessionKnown
    <3>2. ~ GoesOn(c)'
      BY <1>1, <2>1 DEF GoesOn
    <3> QED BY <3>1, <3>2 DEF SessionKnown
  <2>2. CASE c # b
    <3>1. SessionKnown(c) /\ bridge'[c] = bridge[c] /\ (GoesOn(c)' <=> GoesOn(c))
      BY <1>1, <2>2 DEF ExecInv, GoesOn
    <3>2. GoesOn(c) => bridge[c].in \in Inbounds
      BY <3>1 DEF SessionKnown, GoesOn
    <3>3. \A j \in Inbounds :
            /\ inbound'[j].close = inbound[j].close /\ inbound'[j].routes = inbound[j].routes
            /\ c \in inbound[j].fanout => c \in inbound'[j].fanout
      BY <1>1, <2>2
    <3> QED BY <3>1, <3>2, <3>3 DEF SessionKnown
  <2> QED BY <2>1, <2>2
<1> QED BY <1>2, <1>3, <1>4, <1>5, <1>6 DEF ExecInv

LEMMA OverSteps ==
    ASSUME ExecInv, NEW i \in Inbounds,
           \/ \E b \in Bridges : CloseRouted(i, b)
           \/ \E s \in Streams : RouteFrame(i, s)
    PROVE  ExecInv'
<1>1. inbound[i] \in InboundStates /\ \A b \in Bridges : bridge[b] \in BridgeStates
  BY DEF ExecInv, ExecTypeOK
<1>2. ASSUME NEW b \in Bridges, CloseRouted(i, b) PROVE ExecInv'
  <2> DEFINE q == [inbound[i] EXCEPT !.fanout = @ \ {b}]
             r == [bridge[b] EXCEPT !.ws = "closed"]
  <2>1. /\ inbound' = [inbound EXCEPT ![i] = q] /\ bridge' = [bridge EXCEPT ![b] = r]
        /\ UNCHANGED <<registered, online>>
    BY <1>2 DEF CloseRouted
  <2>2. /\ q \in InboundStates /\ q.pc = inbound[i].pc /\ q.evicts = inbound[i].evicts
        /\ q.close = inbound[i].close /\ q.routes = inbound[i].routes
        /\ q.drop = inbound[i].drop /\ q.fanout = inbound[i].fanout \ {b}
    BY <1>1 DEF InboundStates
  <2>3. /\ r \in BridgeStates /\ r.pc = bridge[b].pc /\ r.in = bridge[b].in
        /\ r.stream = bridge[b].stream /\ r.ws = "closed"
    BY <1>1 DEF BridgeStates
  <2> HIDE DEF q, r
  <2>4. q.drop \in {inbound[i].drop, b} /\ inbound[i].fanout \subseteq q.fanout \cup {b}
    BY <2>2
  <2> QED BY <2>1, <2>2, <2>3, <2>4, OverStep
<1>3. ASSUME NEW s \in Streams, RouteFrame(i, s) PROVE ExecInv'
  <2>1. PICK b \in Bridges : b = Route(i, s)
    BY <1>1, <1>3 DEF RouteFrame, Route, InboundStates
  <2> DEFINE q == [inbound[i] EXCEPT !.drop = b]
             closed == [bridge[b] EXCEPT !.ws = "closed"]
             reset == [bridge[b] EXCEPT !.reset = TRUE]
  <2>2. /\ inbound' = [inbound EXCEPT ![i] = q] /\ UNCHANGED <<registered, online>>
        /\ \/ bridge' = [bridge EXCEPT ![b] = closed]
           \/ bridge' = [bridge EXCEPT ![b] = reset]
    BY <1>3, <2>1 DEF RouteFrame
  <2>3. /\ q \in InboundStates /\ q.pc = inbound[i].pc /\ q.evicts = inbound[i].evicts
        /\ q.close = inbound[i].close /\ q.routes = inbound[i].routes
        /\ q.drop = b /\ q.fanout = inbound[i].fanout
    BY <1>1 DEF InboundStates
  <2>4. /\ closed \in BridgeStates /\ closed.pc = bridge[b].pc /\ closed.in = bridge[b].in
        /\ closed.stream = bridge[b].stream /\ closed.ws = "closed"
    BY <1>1 DEF BridgeStates
  <2>5. /\ reset \in BridgeStates /\ reset.pc = bridge[b].pc /\ reset.in = bridge[b].in
        /\ reset.stream = bridge[b].stream /\ reset.reset
    BY <1>1 DEF BridgeStates
  <2> HIDE DEF q, closed, reset
  <2>6. q.drop \in {inbound[i].drop, b} /\ inbound[i].fanout \subseteq q.fanout \cup {b}
    BY <2>3
  <2>7. CASE bridge' = [bridge EXCEPT ![b] = closed]
    BY <2>2, <2>3, <2>4, <2>6, <2>7, OverStep
  <2>8. CASE bridge' = [bridge EXCEPT ![b] = reset]
    BY <2>2, <2>3, <2>5, <2>6, <2>8, OverStep
  <2> QED BY <2>2, <2>7, <2>8
<1> QED BY <1>2, <1>3

LEMMA LeaveStep ==
    ASSUME ExecInv, NEW b \in Bridges, Leave(b)
    PROVE  ExecInv'
<1>1. /\ bridge[b].pc = "leave" /\ bridge[b] \in BridgeStates
      /\ inbound \in [Inbounds -> InboundStates] /\ UNCHANGED <<registered, online>>
  BY DEF Leave, ExecInv, ExecTypeOK
<1>2. PICK i \in Inbounds : i = bridge[b].in
  BY <1>1 DEF ExecInv, SessionKnown
<1> DEFINE t == RemoveRoute(i, b)
           q == [inbound[i] EXCEPT !.routes = t]
           r == Ended(b)
<1>3. inbound' = [inbound EXCEPT ![i] = q] /\ bridge' = [bridge EXCEPT ![b] = r]
  BY <1>2 DEF Leave
<1>4. /\ inbound[i] \in InboundStates /\ t \in [Streams -> Bridges \cup {NoBridge}]
      /\ \A s \in Streams :
            \/ t[s] = inbound[i].routes[s] /\ (s = bridge[b].stream => t[s] # b)
            \/ t[s] = NoBridge /\ inbound[i].routes[s] = b
  BY <1>1, <1>2, ExecGatewayAssumption DEF RemoveRoute, InboundStates, BridgeStates
<1> HIDE DEF t
<1>5. /\ q \in InboundStates /\ q.pc = inbound[i].pc /\ q.evicts = inbound[i].evicts
      /\ q.close = inbound[i].close /\ q.routes = t
      /\ q.drop = inbound[i].drop /\ q.fanout = inbound[i].fanout
  BY <1>4 DEF InboundStates
<1>6. r \in BridgeStates /\ r.pc = "done" /\ r.ws = "closed"
  BY <1>1 DEF BridgeStates, Ended
<1> HIDE DEF q, r
<1>7. /\ inbound' \in [Inbounds -> InboundStates] /\ inbound'[i] = q
      /\ \A j \in Inbounds : j # i => inbound'[j] = inbound[j]
      /\ bridge' \in [Bridges -> BridgeStates] /\ bridge'[b] = r
      /\ \A c \in Bridges : c # b => bridge'[c] = bridge[c]
  BY <1>1, <1>3, <1>5, <1>6 DEF ExecInv, ExecTypeOK
<1>8. ExecTypeOK'
  BY <1>1, <1>7 DEF ExecInv, ExecTypeOK
<1>9. \A j \in Inbounds : OpenKnown(j)'
  BY <1>1, <1>5, <1>7, OpenKept
<1>10. ASSUME NEW j \in Inbounds PROVE RoutesKnown(j)'
  <2> SUFFICES ASSUME NEW s \in Streams, NEW c, c = inbound'[j].routes[s], c # NoBridge
               PROVE  /\ bridge'[c].in = j /\ bridge'[c].stream = s
                      /\ bridge'[c].pc \notin {"none", "resuming", "done"}
    BY DEF RoutesKnown
  <2>1. c = inbound[j].routes[s] /\ c \in Bridges
    BY <1>1, <1>4, <1>5, <1>7 DEF InboundStates
  <2>2. /\ bridge[c].in = j /\ bridge[c].stream = s
        /\ bridge[c].pc \notin {"none", "resuming", "done"}
    BY <2>1 DEF ExecInv, RoutesKnown
  <2>3. c # b
    <3>1. SUFFICES ASSUME c = b PROVE FALSE
      OBVIOUS
    <3>2. j = i /\ s = bridge[b].stream
      BY <1>2, <2>2, <3>1
    <3>3. t[s] = b
      BY <1>5, <1>7, <3>1, <3>2
    <3> QED BY <1>4, <3>2, <3>3, ExecGatewayAssumption
  <2> QED BY <1>7, <2>1, <2>2, <2>3
<1>11. ASSUME NEW j \in Inbounds PROVE DropKnown(j)'
  <2>1. /\ DropKnown(j) /\ inbound[j].drop \in Bridges \cup {NoBridge}
        /\ inbound'[j].drop = inbound[j].drop
    BY <1>1, <1>5, <1>7 DEF ExecInv, InboundStates
  <2> QED BY <1>6, <1>7, <2>1 DEF DropKnown
<1>12. ASSUME NEW c \in Bridges PROVE SessionKnown(c)'
  <2>1. CASE c = b
    BY <1>6, <1>7, <2>1 DEF SessionKnown, GoesOn
  <2>2. CASE c # b
    <3>1. /\ SessionKnown(c) /\ bridge'[c] = bridge[c] /\ (GoesOn(c)' <=> GoesOn(c))
          /\ bridge[c].stream \in Streams
      BY <1>7, <2>2 DEF ExecInv, ExecTypeOK, GoesOn, BridgeStates
    <3>2. GoesOn(c) => bridge[c].in \in Inbounds
      BY <3>1 DEF SessionKnown, GoesOn
    <3>3. \A j \in Inbounds :
            /\ inbound'[j].close = inbound[j].close /\ inbound'[j].fanout = inbound[j].fanout
            /\ \A s \in Streams : inbound[j].routes[s] = c => inbound'[j].routes[s] = c
      BY <1>4, <1>5, <1>7, <2>2
    <3> QED BY <3>1, <3>2, <3>3 DEF SessionKnown
  <2> QED BY <2>1, <2>2
<1> QED BY <1>8, <1>9, <1>10, <1>11, <1>12 DEF ExecInv

LEMMA AddRouteStep ==
    ASSUME ExecInv, NEW b \in Bridges, AddRoute(b)
    PROVE  ExecInv'
<1>1. /\ bridge[b].pc = "resuming" /\ bridge[b] \in BridgeStates
      /\ bridge \in [Bridges -> BridgeStates]
      /\ inbound \in [Inbounds -> InboundStates] /\ UNCHANGED <<registered, online>>
  BY DEF AddRoute, ExecInv, ExecTypeOK
<1>2. PICK i \in Inbounds : i = bridge[b].in
  BY <1>1 DEF ExecInv, SessionKnown
<1>3. PICK st \in Streams : st = bridge[b].stream
  BY <1>1 DEF BridgeStates
<1> DEFINE old == inbound[i].routes[st]
           t == [inbound[i].routes EXCEPT ![st] = b]
           q == [inbound[i] EXCEPT !.routes = t]
           r == [bridge[b] EXCEPT !.pc = "paired"]
<1>4. inbound' = [inbound EXCEPT ![i] = q]
  BY <1>2, <1>3 DEF AddRoute
<1>5. bridge' = [c \in Bridges |-> CASE c = b -> r
                                     [] c = old -> [bridge[c] EXCEPT !.ws = "closed"]
                                     [] OTHER -> bridge[c]]
  BY <1>2, <1>3 DEF AddRoute, Route
<1>6. /\ inbound[i] \in InboundStates /\ t \in [Streams -> Bridges \cup {NoBridge}]
      /\ t[st] = b /\ \A s \in Streams : s # st => t[s] = inbound[i].routes[s]
  BY <1>1 DEF InboundStates
<1>7. old # b
  <2>1. RoutesKnown(i) /\ b # NoBridge
    BY ExecGatewayAssumption DEF ExecInv
  <2> QED BY <1>1, <2>1 DEF RoutesKnown
<1> HIDE DEF t
<1>8. /\ q \in InboundStates /\ q.pc = inbound[i].pc /\ q.evicts = inbound[i].evicts
      /\ q.close = inbound[i].close /\ q.routes = t
      /\ q.drop = inbound[i].drop /\ q.fanout = inbound[i].fanout
  BY <1>6 DEF InboundStates
<1>9. /\ r \in BridgeStates /\ r.pc = "paired" /\ r.in = i /\ r.stream = st
      /\ r.ws = bridge[b].ws /\ r.reset = bridge[b].reset
  BY <1>1, <1>2, <1>3 DEF BridgeStates
<1> HIDE DEF q, r
<1>10. /\ inbound' \in [Inbounds -> InboundStates] /\ inbound'[i] = q
       /\ \A j \in Inbounds : j # i => inbound'[j] = inbound[j]
  BY <1>1, <1>4, <1>8
<1> HIDE DEF old
<1>11. bridge' \in [Bridges -> BridgeStates] /\ bridge'[b] = r
  <2>1. ASSUME NEW c \in Bridges
        PROVE  [bridge[c] EXCEPT !.ws = "closed"] \in BridgeStates /\ bridge[c] \in BridgeStates
    BY <1>1 DEF BridgeStates
  <2>2. \A c \in Bridges : bridge'[c] \in BridgeStates /\ (c = b => bridge'[c] = r)
    BY <1>5, <1>7, <1>9, <2>1
  <2> QED BY <1>5, <2>2
<1>12. ASSUME NEW c \in Bridges, c # b
       PROVE  /\ bridge'[c].pc = bridge[c].pc /\ bridge'[c].in = bridge[c].in
              /\ bridge'[c].stream = bridge[c].stream /\ bridge'[c].reset = bridge[c].reset
              /\ bridge'[c].ws = IF c = old THEN "closed" ELSE bridge[c].ws
  <2>1. bridge[c] \in BridgeStates
    BY <1>1
  <2> QED BY <1>5, <1>12, <2>1 DEF BridgeStates
<1>13. ExecTypeOK'
  BY <1>1, <1>10, <1>11 DEF ExecInv, ExecTypeOK
<1>14. \A j \in Inbounds : OpenKnown(j)'
  BY <1>1, <1>8, <1>10, OpenKept
<1>15. ASSUME NEW j \in Inbounds PROVE RoutesKnown(j)'
  <2> SUFFICES ASSUME NEW s \in Streams, NEW c, c = inbound'[j].routes[s], c # NoBridge
               PROVE  /\ bridge'[c].in = j /\ bridge'[c].stream = s
                      /\ bridge'[c].pc \notin {"none", "resuming", "done"}
    BY DEF RoutesKnown
  <2>1. CASE j = i /\ s = st
    BY <1>6, <1>8, <1>9, <1>10, <1>11, <2>1
  <2>2. CASE ~ (j = i /\ s = st)
    <3>1. c = inbound[j].routes[s] /\ c \in Bridges
      BY <1>1, <1>6, <1>8, <1>10, <2>2 DEF InboundStates
    <3>2. /\ bridge[c].in = j /\ bridge[c].stream = s
          /\ bridge[c].pc \notin {"none", "resuming", "done"}
      BY <3>1 DEF ExecInv, RoutesKnown
    <3>3. c # b
      BY <1>1, <3>2
    <3> QED BY <1>12, <3>1, <3>2, <3>3
  <2> QED BY <2>1, <2>2
<1>16. ASSUME NEW j \in Inbounds PROVE DropKnown(j)'
  <2>1. /\ DropKnown(j) /\ inbound[j].drop \in Bridges \cup {NoBridge}
        /\ inbound'[j].drop = inbound[j].drop
    BY <1>1, <1>8, <1>10 DEF ExecInv, InboundStates
  <2>2. CASE inbound[j].drop = b
    BY <1>9, <1>11, <2>1, <2>2 DEF DropKnown
  <2>3. CASE inbound[j].drop # b
    BY <1>12, <2>1, <2>3 DEF DropKnown
  <2> QED BY <2>2, <2>3
<1>17. ASSUME NEW c \in Bridges PROVE SessionKnown(c)'
  <2>1. CASE c = b
    <3>1. bridge'[c] = r /\ inbound'[i] = q /\ q.routes[st] = b
      BY <1>6, <1>8, <1>10, <1>11, <2>1
    <3> QED BY <1>9, <2>1, <3>1 DEF SessionKnown
  <2>2. CASE c # b /\ c = old
    <3>1. ~ GoesOn(c)'
      BY <1>12, <2>2 DEF GoesOn
    <3>2. bridge'[c].pc \notin {"none", "done"} => bridge'[c].in \in Inbounds
      BY <1>12, <2>2 DEF ExecInv, SessionKnown
    <3> QED BY <3>1, <3>2 DEF SessionKnown
  <2>3. CASE c # b /\ c # old
    <3>1. /\ SessionKnown(c) /\ bridge[c].stream \in Streams
          /\ bridge'[c].pc = bridge[c].pc /\ bridge'[c].in = bridge[c].in
          /\ bridge'[c].stream = bridge[c].stream /\ (GoesOn(c)' <=> GoesOn(c))
      BY <1>1, <1>12, <2>3 DEF ExecInv, GoesOn, BridgeStates
    <3>2. GoesOn(c) => bridge[c].in \in Inbounds
      BY <3>1 DEF SessionKnown, GoesOn
    <3>3. \A j \in Inbounds :
            /\ inbound'[j].close = inbound[j].close /\ inbound'[j].fanout = inbound[j].fanout
            /\ \A s \in Streams : inbound[j].routes[s] = c => inbound'[j].routes[s] = c
      BY <1>6, <1>8, <1>10, <2>3 DEF old
    <3> QED BY <3>1, <3>2, <3>3 DEF SessionKnown
  <2> QED BY <2>1, <2>2, <2>3
<1> QED BY <1>13, <1>14, <1>15, <1>16, <1>17 DEF ExecInv

LEMMA ExecInitInv == ExecInit => ExecInv
<1> SUFFICES ASSUME ExecInit PROVE ExecInv
  OBVIOUS
<1>1. /\ NewInbound \in InboundStates /\ NewInbound.pc = "none" /\ NewInbound.close = "no"
      /\ NewInbound.drop = NoBridge /\ NewInbound.routes = [s \in Streams |-> NoBridge]
  BY DEF NewInbound, InboundStates
<1>2. NewBridges \subseteq BridgeStates /\ \A b \in Bridges : bridge[b].pc = "none"
  BY DEF ExecInit, NewBridges, BridgeStates
<1>3. inbound = [i \in Inbounds |-> NewInbound] /\ bridge \in [Bridges -> NewBridges]
  BY DEF ExecInit
<1>4. ExecTypeOK
  BY <1>1, <1>2, <1>3 DEF ExecInit, ExecTypeOK
<1>5. \A i \in Inbounds : OpenKnown(i) /\ RoutesKnown(i) /\ DropKnown(i)
  BY <1>1, <1>3, Zenon DEF OpenKnown, RoutesKnown, DropKnown
<1>6. \A b \in Bridges : SessionKnown(b)
  BY <1>2 DEF SessionKnown, GoesOn
<1> QED BY <1>4, <1>5, <1>6 DEF ExecInv

LEMMA ExecInvStep == ExecInv /\ [ExecNext]_execVars => ExecInv'
<1> SUFFICES ASSUME ExecInv, [ExecNext]_execVars PROVE ExecInv'
  OBVIOUS
<1>1. ASSUME NEW i \in Inbounds,
             \/ Connect(i) \/ InboundBreaks(i) \/ InboundStep(i)
             \/ \E s \in Streams : RouteFrame(i, s)
      PROVE  ExecInv'
  BY <1>1, ConnectStep, EvictStep, ConnectionSteps, RoutesStep, OverSteps DEF InboundStep
<1>2. ASSUME NEW b \in Bridges,
             \/ OpenBridge(b) \/ BridgeBreaks(b) \/ NoResume(b) \/ AddRoute(b) \/ ReadFrame(b)
             \/ BridgeStep(b)
      PROVE  ExecInv'
  BY <1>2, SessionSteps, LeaveStep, AddRouteStep DEF BridgeStep
<1>3. CASE UNCHANGED execVars
  BY <1>3 DEF execVars, ExecInv, ExecTypeOK, OpenKnown, RoutesKnown, DropKnown, SessionKnown,
              GoesOn
<1> QED BY <1>1, <1>2, <1>3 DEF ExecNext

\* Of what is proved, what the gateway promises.
LEMMA ExecInvSound == ExecInv => ExecTypeOK /\ RoutesSound
<1> SUFFICES ASSUME ExecInv PROVE ExecTypeOK /\ RoutesSound
  OBVIOUS
<1>1. LiveIsRegistered
  BY DEF ExecInv, OpenKnown, LiveIsRegistered
<1>2. NoStrandedBridge
  BY DEF ExecInv, SessionKnown, GoesOn, NoStrandedBridge
<1>3. RoutesAreLive
  BY DEF ExecInv, RoutesKnown, RoutesAreLive, Routed, Route
<1> QED BY <1>1, <1>2, <1>3 DEF ExecInv, RoutesSound

\* For any number of connections, sessions and streams: bridges find the live connection, a
\* session that reads is woken when its executor goes, a route leads to a session that is
\* there (ConnRegistry, inboundConn.close, runBridgePump).
THEOREM RoutesAlwaysSound == ExecSpec => [](ExecTypeOK /\ RoutesSound)
  BY ExecInitInv, ExecInvStep, ExecInvSound, PTL DEF ExecSpec

-----------------------------------------------------------------------------
(* Tunnels of local agents *)

TunnelInv == TunnelTypeOK /\ OpenIsActive

\* The steps of the handlers.
LEMMA HandlerStepInv ==
    ASSUME TunnelInv, NEW h \in Handlers, NewTunnel(h) \/ HandlerStep(h)
    PROVE  TunnelInv'
<1>1. PICK pc \in {"accepted", "registered", "serving", "offlining", "done"} :
        handler' = [handler EXCEPT ![h] = pc]
  BY DEF NewTunnel, HandlerStep, RegisterTunnel, MarkRunning, UnregisterTunnel, MarkOffline,
         Handle
<1>2. /\ handler' \in [Handlers -> {"none", "accepted", "registered", "serving", "offlining",
                                    "done"}]
      /\ handler'[h] = pc /\ \A g \in Handlers : g # h => handler'[g] = handler[g]
  BY <1>1 DEF TunnelInv, TunnelTypeOK
<1>3. TunnelTypeOK'
  BY <1>2 DEF TunnelInv, TunnelTypeOK, NewTunnel, HandlerStep, RegisterTunnel, MarkRunning,
              UnregisterTunnel, MarkOffline, SetRow
<1>4. CASE NewTunnel(h)
  BY <1>2, <1>4 DEF TunnelInv, TunnelTypeOK, OpenIsActive, NewTunnel, Handle
<1>5. CASE RegisterTunnel(h)
  BY <1>2, <1>5 DEF TunnelInv, TunnelTypeOK, OpenIsActive, RegisterTunnel, Handle
<1>6. CASE MarkRunning(h)
  BY <1>2, <1>6 DEF TunnelInv, TunnelTypeOK, OpenIsActive, MarkRunning, SetRow, Handle
<1>7. CASE UnregisterTunnel(h)
  BY <1>2, <1>7 DEF TunnelInv, TunnelTypeOK, OpenIsActive, UnregisterTunnel, Handle
<1>8. CASE MarkOffline(h)
  BY <1>2, <1>8 DEF TunnelInv, TunnelTypeOK, OpenIsActive, MarkOffline, SetRow, Handle
<1> QED BY <1>3, <1>4, <1>5, <1>6, <1>7, <1>8 DEF TunnelInv, HandlerStep

\* What hangs on a tunnel, and what closes one.
LEMMA AroundTunnelsStep ==
    ASSUME TunnelInv,
           \/ \E h \in Handlers : Heartbeat(h) \/ TunnelBreaks(h) \/ AgentInfo(h)
           \/ \E q \in Proxied : OpenStream(q) \/ AgentResponds(q) \/ StreamEnds(q)
           \/ GoStale \/ MarkStale \/ RegisterCard \/ DeleteLocalSandbox \/ ProxyRestart
    PROVE  TunnelInv'
<1>1. TunnelTypeOK'
  BY DEF TunnelInv, TunnelTypeOK, Heartbeat, TunnelBreaks, AgentInfo, OpenStream,
         AgentResponds, StreamEnds, GoStale, MarkStale, RegisterCard, DeleteLocalSandbox,
         ProxyRestart
<1>2. \/ tunnelOpen' \subseteq tunnelOpen /\ UNCHANGED <<tunnels, handler>>
      \/ tunnelOpen' = {}
  BY DEF Heartbeat, TunnelBreaks, AgentInfo, OpenStream, AgentResponds, StreamEnds, GoStale,
         MarkStale, RegisterCard, DeleteLocalSandbox, ProxyRestart
<1>3. OpenIsActive'
  BY <1>2 DEF TunnelInv, OpenIsActive
<1> QED BY <1>1, <1>3 DEF TunnelInv

LEMMA TunnelInitInv == TunnelInit => TunnelInv
  BY DEF TunnelInit, TunnelInv, TunnelTypeOK, OpenIsActive

LEMMA TunnelInvStep == TunnelInv /\ [TunnelNext]_tunnelVars => TunnelInv'
<1> SUFFICES ASSUME TunnelInv, [TunnelNext]_tunnelVars PROVE TunnelInv'
  OBVIOUS
<1>1. CASE UNCHANGED tunnelVars
  BY <1>1 DEF tunnelVars, TunnelInv, TunnelTypeOK, OpenIsActive
<1> QED BY <1>1, HandlerStepInv, AroundTunnelsStep DEF TunnelNext

\* However connections of an agent replace each other, break and end, an open tunnel that
\* was registered is the one requests go through (Registry.Register, Registry.Unregister).
THEOREM OpenIsAlwaysActive == TunnelSpec => [](TunnelTypeOK /\ OpenIsActive)
<1>1. TunnelInv => TunnelTypeOK /\ OpenIsActive
  BY DEF TunnelInv
<1> QED BY <1>1, TunnelInitInv, TunnelInvStep, PTL DEF TunnelSpec

-----------------------------------------------------------------------------
(* The front of codex-app-gateway *)

\* A request that has come to an end was answered once, the others not yet.
AnsweredAt(frame, ends) == frame.answers = IF frame.at \in ends THEN 1 ELSE 0

FramesKnown(q) ==
    /\ AnsweredAt(q.ask, {"client", "dropped"})
    /\ AnsweredAt(q.prompt, {"server", "dropped"})

\* Until its row is inserted a connection has no session; what is being closed was opened and
\* has no connection.
FrontInv ==
    /\ FrontTypeOK /\ OnlineIsAccounted /\ ConnectedIsOnline
    /\ \A f \in Fronts :
          /\ front[f].pc \in {"idle", "verify", "open"} => front[f].session = NoRowId
          /\ FramesKnown(front[f])
    /\ \A s \in closing : sessionRow[s].state # "none" /\ s \notin Connected

\* A connection goes on with the session it has.
LEMMA FrontGoes ==
    ASSUME FrontInv, NEW f \in Fronts, NEW q \in FrontStates,
           front' = [front EXCEPT ![f] = q],
           q.session = front[f].session, FramesKnown(q),
           q.pc \in {"idle", "verify", "open"} => q.session = NoRowId,
           sessionRow' \in [SessionRows -> [state : {"none", "open", "closed"},
                                            token : RemoteTokens \cup {NoToken}, meta : BOOLEAN]],
           \A s \in SessionRows : sessionRow'[s].state = sessionRow[s].state,
           UNCHANGED <<remoteToken, closing, unclosed>>
    PROVE  FrontInv'
<1>1. /\ front' \in [Fronts -> FrontStates] /\ front'[f] = q
      /\ \A g \in Fronts : g # f => front'[g] = front[g]
  BY DEF FrontInv, FrontTypeOK
<1>2. FrontTypeOK'
  BY <1>1 DEF FrontInv, FrontTypeOK
<1>3. \A g \in Fronts : front'[g].session = front[g].session
  BY <1>1
<1>4. Connected' = Connected /\ Connected \subseteq SessionRows
  BY <1>3 DEF Connected, FrontInv, FrontTypeOK, FrontStates
<1>5. OnlineIsAccounted' /\ ConnectedIsOnline'
  BY <1>3, <1>4 DEF FrontInv, OnlineIsAccounted, ConnectedIsOnline
<1>6. ASSUME NEW g \in Fronts
      PROVE  /\ front'[g].pc \in {"idle", "verify", "open"} => front'[g].session = NoRowId
             /\ FramesKnown(front'[g])
  BY <1>1 DEF FrontInv
<1>7. \A s \in closing' : sessionRow'[s].state # "none" /\ s \notin Connected'
  BY <1>4 DEF FrontInv, FrontTypeOK
<1> QED BY <1>2, <1>5, <1>6, <1>7 DEF FrontInv

\* A frame of a connection moves, or is answered.
LEMMA FrameGoes ==
    ASSUME FrontInv, NEW f \in Fronts, NEW side \in {"ask", "prompt"}, NEW fr \in Frames,
           front' = [front EXCEPT ![f] = [front[f] EXCEPT ![side] = fr]],
           front[f].pc = "proxy",
           AnsweredAt(fr, {"dropped", IF side = "ask" THEN "client" ELSE "server"}),
           sessionRow' \in [SessionRows -> [state : {"none", "open", "closed"},
                                            token : RemoteTokens \cup {NoToken}, meta : BOOLEAN]],
           \A s \in SessionRows : sessionRow'[s].state = sessionRow[s].state,
           UNCHANGED <<remoteToken, closing, unclosed>>
    PROVE  FrontInv'
<1>1. front[f] \in FrontStates /\ FramesKnown(front[f])
  BY DEF FrontInv, FrontTypeOK
<1>2. CASE side = "ask"
  <2> DEFINE q == [front[f] EXCEPT !.ask = fr]
  <2>1. front' = [front EXCEPT ![f] = q]
    BY <1>2
  <2>2. /\ q \in FrontStates /\ q.session = front[f].session /\ q.pc = front[f].pc
        /\ q.ask = fr /\ q.prompt = front[f].prompt
    BY <1>1 DEF FrontStates
  <2> HIDE DEF q
  <2>3. FramesKnown(q)
    BY <1>1, <1>2, <2>2 DEF FramesKnown, AnsweredAt
  <2> QED BY <2>1, <2>2, <2>3, FrontGoes
<1>3. CASE side = "prompt"
  <2> DEFINE q == [front[f] EXCEPT !.prompt = fr]
  <2>1. front' = [front EXCEPT ![f] = q]
    BY <1>3
  <2>2. /\ q \in FrontStates /\ q.session = front[f].session /\ q.pc = front[f].pc
        /\ q.prompt = fr /\ q.ask = front[f].ask
    BY <1>1 DEF FrontStates
  <2> HIDE DEF q
  <2>3. FramesKnown(q)
    BY <1>1, <1>3, <2>2 DEF FramesKnown, AnsweredAt
  <2> QED BY <2>1, <2>2, <2>3, FrontGoes
<1> QED BY <1>2, <1>3

LEMMA FrameMovesStep ==
    ASSUME FrontInv, NEW f \in Fronts, NEW side \in {"ask", "prompt"}, NEW from \in Places,
           NEW to \in Places, Proxying(f, side, from), FrameMoves(f, side, to),
           {from, to} \cap {"dropped", IF side = "ask" THEN "client" ELSE "server"} = {}
    PROVE  FrontInv'
<1> DEFINE fr == [front[f][side] EXCEPT !.at = to]
<1>1. /\ front[f] \in FrontStates /\ FramesKnown(front[f]) /\ front[f].pc = "proxy"
      /\ front[f][side].at = from
  BY DEF FrontInv, FrontTypeOK, Proxying, FrontAt
<1>2. front[f][side] \in Frames
  BY <1>1 DEF FrontStates
<1>3. front' = [front EXCEPT ![f] = [front[f] EXCEPT ![side] = fr]]
  BY DEF FrameMoves
<1>4. /\ UNCHANGED <<remoteToken, sessionRow, closing, unclosed>>
      /\ sessionRow' \in [SessionRows -> [state : {"none", "open", "closed"},
                                          token : RemoteTokens \cup {NoToken}, meta : BOOLEAN]]
  BY DEF FrameMoves, FrontInv, FrontTypeOK
<1>5. fr \in Frames /\ fr.at = to /\ fr.answers = front[f][side].answers
  BY <1>2, Zenon DEF Frames
<1>6. front[f][side].answers = 0
  BY <1>1 DEF FramesKnown, AnsweredAt
<1> HIDE DEF fr
<1>7. AnsweredAt(fr, {"dropped", IF side = "ask" THEN "client" ELSE "server"})
  BY <1>5, <1>6 DEF AnsweredAt
<1> QED BY <1>1, <1>3, <1>4, <1>5, <1>7, FrameGoes

LEMMA AnswersStep ==
    ASSUME FrontInv, NEW f \in Fronts, NEW side \in {"ask", "prompt"}, NEW from \in Places,
           NEW to \in Places, Proxying(f, side, from), Answers(f, side, to),
           from \notin {"dropped", IF side = "ask" THEN "client" ELSE "server"},
           to \in {"dropped", IF side = "ask" THEN "client" ELSE "server"}
    PROVE  FrontInv'
<1> DEFINE fr == [front[f][side] EXCEPT !.at = to, !.answers = @ + 1]
<1>1. /\ front[f] \in FrontStates /\ FramesKnown(front[f]) /\ front[f].pc = "proxy"
      /\ front[f][side].at = from
  BY DEF FrontInv, FrontTypeOK, Proxying, FrontAt
<1>2. front[f][side] \in Frames
  BY <1>1 DEF FrontStates
<1>3. front' = [front EXCEPT ![f] = [front[f] EXCEPT ![side] = fr]]
  BY <1>1, <1>2, Zenon DEF Answers, FrontInv, FrontTypeOK, FrontStates, Frames
<1>4. /\ UNCHANGED <<remoteToken, sessionRow, closing, unclosed>>
      /\ sessionRow' \in [SessionRows -> [state : {"none", "open", "closed"},
                                          token : RemoteTokens \cup {NoToken}, meta : BOOLEAN]]
  BY DEF Answers, FrontInv, FrontTypeOK
<1>5. fr \in Frames /\ fr.at = to /\ fr.answers = front[f][side].answers + 1
  <2>1. ASSUME NEW old \in Frames
        PROVE  LET new == [old EXCEPT !.at = to, !.answers = @ + 1] IN
               new \in Frames /\ new.at = to /\ new.answers = old.answers + 1
    <3> DEFINE new == [old EXCEPT !.at = to, !.answers = @ + 1]
    <3>0. old.answers \in Nat
      BY Zenon DEF Frames
    <3>1. old.answers + 1 \in Nat
      BY <3>0
    <3>2. new \in Frames
      BY <3>1, Zenon DEF Frames
    <3>3. new.at = to /\ new.answers = old.answers + 1
      BY Zenon DEF Frames
    <3> QED BY <3>2, <3>3
  <2> QED BY <1>2, <2>1, Zenon
<1>6. front[f][side].answers = 0
  BY <1>1 DEF FramesKnown, AnsweredAt
<1> HIDE DEF fr
<1>7. AnsweredAt(fr, {"dropped", IF side = "ask" THEN "client" ELSE "server"})
  BY <1>5, <1>6 DEF AnsweredAt
<1> QED BY <1>1, <1>3, <1>4, <1>5, <1>7, FrameGoes

LEMMA FrameSteps ==
    ASSUME FrontInv, NEW f \in Fronts,
           \/ ClientAsks(f) \/ UpdateSessionMeta(f) \/ PumpClientFrame(f)
           \/ ServerAnswers(f) \/ PumpAnswer(f)
           \/ ServerPrompts(f) \/ PumpServerFrame(f) \/ ClientReplies(f) \/ PumpReply(f)
    PROVE  FrontInv'
<1>1. /\ front[f] \in FrontStates /\ FramesKnown(front[f])
      /\ sessionRow \in [SessionRows -> [state : {"none", "open", "closed"},
                                         token : RemoteTokens \cup {NoToken}, meta : BOOLEAN]]
  BY DEF FrontInv, FrontTypeOK
<1>2. {"nowhere", "client pump", "server pump", "client", "server", "dropped"} = Places
  BY DEF Places
<1>3. CASE ClientAsks(f)
  <2>1. PICK kind \in {"initialize", "local io", "other"} :
          front' = [front EXCEPT ![f].ask = [kind |-> kind, at |-> "client pump", answers |-> 0]]
    BY <1>3, Zenon DEF ClientAsks
  <2> DEFINE fr == [kind |-> kind, at |-> "client pump", answers |-> 0]
  <2>2. fr \in Frames /\ AnsweredAt(fr, {"dropped", "client"})
    BY <1>2, Zenon DEF Frames, AnsweredAt
  <2>3. front' = [front EXCEPT ![f] = [front[f] EXCEPT !["ask"] = fr]]
    BY <2>1, Zenon
  <2>4. front[f].pc = "proxy" /\ UNCHANGED <<remoteToken, sessionRow, closing, unclosed>>
    BY <1>3, Zenon DEF ClientAsks, Proxying, FrontAt
  <2> HIDE DEF fr
  <2> QED BY <1>1, <2>2, <2>3, <2>4, FrameGoes, Zenon
<1>4. CASE ServerPrompts(f)
  <2>1. PICK kind \in {"approval", "other"} :
          front' = [front EXCEPT ![f].prompt =
                      [kind |-> kind, at |-> "server pump", answers |-> 0]]
    BY <1>4, Zenon DEF ServerPrompts
  <2> DEFINE fr == [kind |-> kind, at |-> "server pump", answers |-> 0]
  <2>2. fr \in Frames /\ AnsweredAt(fr, {"dropped", "server"})
    BY <1>2, Zenon DEF Frames, AnsweredAt
  <2>3. front' = [front EXCEPT ![f] = [front[f] EXCEPT !["prompt"] = fr]]
    BY <2>1, Zenon
  <2>4. front[f].pc = "proxy" /\ UNCHANGED <<remoteToken, sessionRow, closing, unclosed>>
    BY <1>4, Zenon DEF ServerPrompts, Proxying, FrontAt
  <2> HIDE DEF fr
  <2> QED BY <1>1, <2>2, <2>3, <2>4, FrameGoes
<1>5. CASE UpdateSessionMeta(f)
  <2> DEFINE fr == [front[f].ask EXCEPT !.at = "server"]
             s == front[f].session
  <2>1. /\ front[f].pc = "proxy" /\ front[f].ask.at = "client pump" /\ s \in SessionRows
        /\ front' = [front EXCEPT ![f] = [front[f] EXCEPT !["ask"] = fr]]
        /\ sessionRow' = [sessionRow EXCEPT ![s].meta = TRUE]
        /\ UNCHANGED <<remoteToken, closing, unclosed>>
    BY <1>1, <1>5, Zenon DEF UpdateSessionMeta, Proxying, FrontAt, FrontStates
  <2>2. /\ sessionRow' \in [SessionRows -> [state : {"none", "open", "closed"},
                                            token : RemoteTokens \cup {NoToken}, meta : BOOLEAN]]
        /\ \A x \in SessionRows : sessionRow'[x].state = sessionRow[x].state
    BY <1>1, <2>1, Zenon
  <2>3. /\ fr \in Frames /\ fr.at = "server" /\ fr.answers = 0
    BY <1>1, <1>2, <2>1, Zenon DEF FrontStates, Frames, FramesKnown, AnsweredAt
  <2> HIDE DEF fr
  <2>4. AnsweredAt(fr, {"dropped", "client"})
    BY <2>3 DEF AnsweredAt
  <2> QED BY <2>1, <2>2, <2>3, <2>4, FrameGoes, Zenon
<1>6. CASE PumpClientFrame(f)
  <2>1. CASE Answers(f, "ask", "dropped")
    BY <1>2, <1>6, <2>1, AnswersStep, Zenon DEF PumpClientFrame
  <2>2. CASE FrameMoves(f, "ask", "server")
    BY <1>2, <1>6, <2>2, FrameMovesStep, Zenon DEF PumpClientFrame
  <2> QED BY <1>6, <2>1, <2>2, Zenon DEF PumpClientFrame
<1>7. CASE ServerAnswers(f)
  BY <1>2, <1>7, FrameMovesStep, Zenon DEF ServerAnswers
<1>8. CASE PumpAnswer(f)
  BY <1>2, <1>8, AnswersStep, Zenon DEF PumpAnswer
<1>9. CASE PumpServerFrame(f)
  <2>1. CASE Answers(f, "prompt", "dropped")
    BY <1>2, <1>9, <2>1, AnswersStep, Zenon DEF PumpServerFrame
  <2>2. CASE FrameMoves(f, "prompt", "client")
    BY <1>2, <1>9, <2>2, FrameMovesStep, Zenon DEF PumpServerFrame
  <2> QED BY <1>9, <2>1, <2>2, Zenon DEF PumpServerFrame
<1>10. CASE ClientReplies(f)
  BY <1>2, <1>10, FrameMovesStep, Zenon DEF ClientReplies
<1>11. CASE PumpReply(f)
  BY <1>2, <1>11, AnswersStep, Zenon DEF PumpReply
<1> QED BY <1>3, <1>4, <1>5, <1>6, <1>7, <1>8, <1>9, <1>10, <1>11

\* The handler of a connection goes on, up to the proxy.
LEMMA HandlerSteps ==
    ASSUME FrontInv, NEW f \in Fronts,
           \/ \E t \in RemoteTokens : DialIn(f, t)
           \/ VerifyToken(f) /\ FrontStep(f, "open")
           \/ VerifyToken(f) /\ front' = [front EXCEPT ![f] = Closed]
           \/ OpenUntracked(f)
           \/ /\ front[f].pc \in DOMAIN Following /\ FrontStep(f, Following[front[f].pc])
              /\ UNCHANGED <<remoteToken, sessionRow, closing, unclosed>>
    PROVE  FrontInv'
<1>1. /\ front[f] \in FrontStates /\ FramesKnown(front[f])
      /\ front[f].pc \in {"idle", "verify", "open"} => front[f].session = NoRowId
      /\ sessionRow \in [SessionRows -> [state : {"none", "open", "closed"},
                                         token : RemoteTokens \cup {NoToken}, meta : BOOLEAN]]
  BY DEF FrontInv, FrontTypeOK
<1>2. UNCHANGED <<remoteToken, sessionRow, closing, unclosed>>
  BY Zenon DEF DialIn, VerifyToken, OpenUntracked
<1>3. DOMAIN Following = {"accept", "ensure", "dial"}
      /\ \A pc \in DOMAIN Following : Following[pc] \in {"ensure", "dial", "proxy"}
  BY DEF Following
<1>4. /\ Closed \in FrontStates /\ Closed.pc = "idle" /\ Closed.session = NoRowId
      /\ FramesKnown(Closed)
  BY <1>3 DEF Closed, NoFrame, FrontStates, Frames, Places, FramesKnown, AnsweredAt
<1>5. ASSUME NEW pc \in {"open", "accept", "ensure", "dial", "proxy"}, FrontStep(f, pc),
             pc = "open" => front[f].pc = "verify"
      PROVE  FrontInv'
  <2> DEFINE q == [front[f] EXCEPT !.pc = pc]
  <2>1. front' = [front EXCEPT ![f] = q]
    BY <1>5 DEF FrontStep
  <2>2. /\ q \in FrontStates /\ q.session = front[f].session /\ q.pc = pc
        /\ q.ask = front[f].ask /\ q.prompt = front[f].prompt
    BY <1>1, <1>3 DEF FrontStates
  <2> HIDE DEF q
  <2>3. FramesKnown(q) /\ (q.pc \in {"idle", "verify", "open"} => q.session = NoRowId)
    BY <1>1, <1>5, <2>2 DEF FramesKnown, AnsweredAt
  <2> QED BY <1>1, <1>2, <2>1, <2>2, <2>3, FrontGoes
<1>6. ASSUME NEW t \in RemoteTokens, DialIn(f, t) PROVE FrontInv'
  <2> DEFINE q == [Closed EXCEPT !.pc = "verify", !.token = t]
  <2>1. front' = [front EXCEPT ![f] = q] /\ front[f].pc = "idle"
    BY <1>6, Zenon DEF DialIn, FrontAt
  <2>2. /\ q \in FrontStates /\ q.session = NoRowId /\ q.pc = "verify"
        /\ q.ask = Closed.ask /\ q.prompt = Closed.prompt
    BY <1>4 DEF FrontStates
  <2> HIDE DEF q
  <2>3. FramesKnown(q) /\ q.session = front[f].session
    BY <1>1, <1>4, <2>1, <2>2 DEF FramesKnown, AnsweredAt
  <2> QED BY <1>1, <1>2, <2>1, <2>2, <2>3, FrontGoes
<1>7. CASE VerifyToken(f) /\ FrontStep(f, "open")
  BY <1>5, <1>7 DEF VerifyToken, FrontAt
<1>8. CASE VerifyToken(f) /\ front' = [front EXCEPT ![f] = Closed]
  <2>1. Closed.session = front[f].session
    BY <1>1, <1>4, <1>8 DEF VerifyToken, FrontAt
  <2> QED BY <1>1, <1>2, <1>4, <1>8, <2>1, FrontGoes
<1>9. CASE OpenUntracked(f)
  BY <1>5, <1>9 DEF OpenUntracked
<1>10. CASE front[f].pc \in DOMAIN Following /\ FrontStep(f, Following[front[f].pc])
  <2>1. Following[front[f].pc] \in {"ensure", "dial", "proxy"}
    BY <1>3, <1>10
  <2> QED BY <1>5, <1>10, <2>1
<1> QED BY <1>6, <1>7, <1>8, <1>9, <1>10

\* The handler ends: its session is closed by a goroutine.
LEMMA EndHandlerStep ==
    ASSUME FrontInv, NEW f \in Fronts, EndHandler(f)
    PROVE  FrontInv'
<1>1. /\ front' = [front EXCEPT ![f] = Closed]
      /\ closing' = closing \cup ({front[f].session} \ {NoRowId})
      /\ UNCHANGED <<remoteToken, sessionRow, unclosed>>
  BY DEF EndHandler
<1>2. /\ Closed \in FrontStates /\ Closed.pc = "idle" /\ Closed.session = NoRowId
      /\ FramesKnown(Closed)
  BY DEF Closed, NoFrame, FrontStates, Following, Frames, Places, FramesKnown, AnsweredAt
<1>3. /\ front' \in [Fronts -> FrontStates] /\ front'[f] = Closed
      /\ \A g \in Fronts : g # f => front'[g] = front[g]
  BY <1>1, <1>2 DEF FrontInv, FrontTypeOK
<1>4. front[f].session \in SessionRows \cup {NoRowId}
  BY DEF FrontInv, FrontTypeOK, FrontStates
<1>5. FrontTypeOK'
  BY <1>1, <1>3, <1>4 DEF FrontInv, FrontTypeOK
<1>6. /\ Connected' \subseteq Connected /\ Connected \subseteq Connected' \cup {front[f].session}
      /\ front[f].session # NoRowId => front[f].session \in Connected
      /\ NoRowId \notin Connected
  BY <1>2, <1>3 DEF Connected
<1>7. front[f].session \notin Connected'
  <2>1. ASSUME NEW g \in Fronts, g # f, front[f].session # NoRowId
        PROVE  front[g].session # front[f].session
    BY <2>1 DEF FrontInv, ConnectedIsOnline
  <2> QED BY <1>2, <1>3, <2>1 DEF Connected
<1>8. OnlineIsAccounted'
  BY <1>1, <1>6 DEF FrontInv, OnlineIsAccounted
<1>9. ConnectedIsOnline'
  <2>1. \A g, h \in Fronts :
          (front'[g].session = front'[h].session /\ front'[g].session # NoRowId) => g = h
    BY <1>2, <1>3 DEF FrontInv, ConnectedIsOnline
  <2> QED BY <1>1, <1>6, <2>1 DEF FrontInv, ConnectedIsOnline
<1>10. \A s \in closing' : sessionRow'[s].state # "none" /\ s \notin Connected'
  BY <1>1, <1>6, <1>7 DEF FrontInv, ConnectedIsOnline
<1>11. \A g \in Fronts :
         /\ front'[g].pc \in {"idle", "verify", "open"} => front'[g].session = NoRowId
         /\ FramesKnown(front'[g])
  BY <1>2, <1>3 DEF FrontInv
<1> QED BY <1>5, <1>8, <1>9, <1>10, <1>11 DEF FrontInv

LEMMA OpenSessionStep ==
    ASSUME FrontInv, NEW f \in Fronts, NEW s \in SessionRows, OpenSession(f, s)
    PROVE  FrontInv'
<1> DEFINE new == [state |-> "open", token |-> front[f].token, meta |-> FALSE]
<1>1. /\ front[f].pc = "open" /\ front[f] \in FrontStates /\ FramesKnown(front[f])
      /\ front[f].session = NoRowId /\ sessionRow[s].state = "none"
      /\ sessionRow' = [sessionRow EXCEPT ![s] = new] /\ UNCHANGED <<remoteToken, closing>>
  BY DEF OpenSession, FrontAt, FrontInv, FrontTypeOK
<1>2. /\ sessionRow' \in [SessionRows -> [state : {"none", "open", "closed"},
                                          token : RemoteTokens \cup {NoToken}, meta : BOOLEAN]]
      /\ sessionRow'[s].state = "open"
      /\ \A x \in SessionRows : x # s => sessionRow'[x] = sessionRow[x]
  BY <1>1 DEF FrontInv, FrontTypeOK, FrontStates
<1>3. s \notin Connected /\ s \notin closing /\ s # NoRowId
  BY <1>1, CodexFrontAssumption DEF FrontInv, ConnectedIsOnline
<1>4. PICK q \in FrontStates :
        /\ front' = [front EXCEPT ![f] = q] /\ FramesKnown(q)
        /\ \/ q.pc = "accept" /\ q.session = s /\ unclosed' = unclosed
           \/ q.pc = "idle" /\ q.session = NoRowId /\ unclosed' = unclosed \cup {s}
  <2>1. CASE front' = [front EXCEPT ![f].pc = "accept", ![f].session = s] /\ UNCHANGED unclosed
    <3> DEFINE q == [front[f] EXCEPT !.pc = "accept", !.session = s]
    <3>1. front' = [front EXCEPT ![f] = q]
      BY <2>1 DEF FrontInv, FrontTypeOK
    <3>2. /\ q \in FrontStates /\ q.session = s /\ q.pc = "accept"
          /\ q.ask = front[f].ask /\ q.prompt = front[f].prompt
      BY <1>1 DEF FrontStates, Following
    <3> HIDE DEF q
    <3>3. FramesKnown(q)
      BY <1>1, <3>2 DEF FramesKnown, AnsweredAt
    <3> QED BY <2>1, <3>1, <3>2, <3>3
  <2>2. CASE front' = [front EXCEPT ![f] = Closed] /\ unclosed' = unclosed \cup {s}
    <3>1. /\ Closed \in FrontStates /\ Closed.pc = "idle" /\ Closed.session = NoRowId
          /\ FramesKnown(Closed)
      BY DEF Closed, NoFrame, FrontStates, Following, Frames, Places, FramesKnown, AnsweredAt
    <3> QED BY <2>2, <3>1
  <2> QED BY <2>1, <2>2 DEF OpenSession
<1>5. /\ front' \in [Fronts -> FrontStates] /\ front'[f] = q
      /\ \A g \in Fronts : g # f => front'[g] = front[g]
  BY <1>4 DEF FrontInv, FrontTypeOK
<1>6. FrontTypeOK'
  BY <1>1, <1>2, <1>4, <1>5 DEF FrontInv, FrontTypeOK
<1>7. Connected \subseteq Connected' /\ Connected' \subseteq Connected \cup {s}
      /\ (q.session = s => s \in Connected')
  BY <1>1, <1>3, <1>4, <1>5 DEF Connected
<1>8. OnlineIsAccounted'
  BY <1>1, <1>2, <1>4, <1>7 DEF FrontInv, OnlineIsAccounted
<1>9. ConnectedIsOnline'
  <2>1. \A g \in Fronts : front[g].session # s
    BY <1>3 DEF Connected
  <2>2. \A g, h \in Fronts :
          (front'[g].session = front'[h].session /\ front'[g].session # NoRowId) => g = h
    BY <1>4, <1>5, <2>1 DEF FrontInv, ConnectedIsOnline
  <2>3. \A x \in Connected' : sessionRow'[x].state = "open"
    <3>1. Connected \subseteq SessionRows
      BY DEF Connected, FrontInv, FrontTypeOK, FrontStates
    <3> QED BY <1>2, <1>3, <1>7, <3>1 DEF FrontInv, ConnectedIsOnline
  <2> QED BY <2>2, <2>3 DEF ConnectedIsOnline
<1>10. \A x \in closing' : sessionRow'[x].state # "none" /\ x \notin Connected'
  BY <1>1, <1>2, <1>3, <1>7 DEF FrontInv, FrontTypeOK
<1>11. \A g \in Fronts :
         /\ front'[g].pc \in {"idle", "verify", "open"} => front'[g].session = NoRowId
         /\ FramesKnown(front'[g])
  BY <1>4, <1>5 DEF FrontInv
<1> QED BY <1>6, <1>8, <1>9, <1>10, <1>11 DEF FrontInv

LEMMA CloseSessionStep ==
    ASSUME FrontInv, NEW s \in SessionRows, CloseSession(s)
    PROVE  FrontInv'
<1>1. /\ s \in closing /\ closing' = closing \ {s} /\ UNCHANGED <<remoteToken, front>>
      /\ \/ sessionRow' = [sessionRow EXCEPT ![s].state = "closed"] /\ unclosed' = unclosed
         \/ sessionRow' = sessionRow /\ unclosed' = unclosed \cup {s}
  BY DEF CloseSession
<1>2. /\ sessionRow' \in [SessionRows -> [state : {"none", "open", "closed"},
                                          token : RemoteTokens \cup {NoToken}, meta : BOOLEAN]]
      /\ \A x \in SessionRows : x # s => sessionRow'[x] = sessionRow[x]
      /\ sessionRow'[s].state = "open" => unclosed' = unclosed \cup {s}
  BY <1>1 DEF FrontInv, FrontTypeOK
<1>3. FrontTypeOK' /\ Connected' = Connected /\ s \notin Connected /\ unclosed \subseteq unclosed'
  BY <1>1, <1>2 DEF FrontInv, FrontTypeOK, Connected
<1>4. Connected \subseteq SessionRows
  BY DEF Connected, FrontInv, FrontTypeOK, FrontStates
<1>5. OnlineIsAccounted'
  BY <1>1, <1>2, <1>3 DEF FrontInv, OnlineIsAccounted
<1>6. ConnectedIsOnline'
  BY <1>1, <1>2, <1>3, <1>4 DEF FrontInv, ConnectedIsOnline
<1>7. \A x \in closing' : sessionRow'[x].state # "none" /\ x \notin Connected'
  BY <1>1, <1>2, <1>3 DEF FrontInv, FrontTypeOK
<1> QED BY <1>1, <1>3, <1>5, <1>6, <1>7 DEF FrontInv

LEMMA CrashStep ==
    ASSUME FrontInv, GatewayCrashes
    PROVE  FrontInv'
<1>1. /\ unclosed' = unclosed \cup Connected \cup closing /\ closing' = {}
      /\ front' = [f \in Fronts |-> Closed] /\ UNCHANGED <<remoteToken, sessionRow>>
  BY DEF GatewayCrashes
<1>2. /\ Closed \in FrontStates /\ Closed.pc = "idle" /\ Closed.session = NoRowId
      /\ FramesKnown(Closed)
  BY DEF Closed, NoFrame, FrontStates, Following, Frames, Places, FramesKnown, AnsweredAt
<1>3. Connected' = {} /\ Connected \subseteq SessionRows
  BY <1>1, <1>2 DEF Connected, FrontInv, FrontTypeOK, FrontStates
<1>4. FrontTypeOK'
  BY <1>1, <1>2, <1>3 DEF FrontInv, FrontTypeOK
<1>5. OnlineIsAccounted' /\ ConnectedIsOnline'
  BY <1>1, <1>2, <1>3 DEF FrontInv, OnlineIsAccounted, ConnectedIsOnline
<1> QED BY <1>1, <1>2, <1>4, <1>5 DEF FrontInv

LEMMA FrontInitInv == FrontInit => FrontInv
<1> SUFFICES ASSUME FrontInit PROVE FrontInv
  OBVIOUS
<1>1. /\ Closed \in FrontStates /\ Closed.session = NoRowId /\ FramesKnown(Closed)
  BY DEF Closed, NoFrame, FrontStates, Following, Frames, Places, FramesKnown, AnsweredAt
<1>2. \A f \in Fronts : front[f] = Closed
  BY DEF FrontInit
<1>3. FrontTypeOK
  BY <1>1 DEF FrontInit, FrontTypeOK
<1>4. Connected = {}
  BY <1>1, <1>2 DEF Connected
<1>5. OnlineIsAccounted /\ ConnectedIsOnline
  BY <1>1, <1>2, <1>4 DEF FrontInit, OnlineIsAccounted, ConnectedIsOnline
<1>6. closing = {}
  BY DEF FrontInit
<1> QED BY <1>1, <1>2, <1>3, <1>5, <1>6 DEF FrontInv

LEMMA FrontInvStep == FrontInv /\ [FrontNext]_frontVars => FrontInv'
<1> SUFFICES ASSUME FrontInv, [FrontNext]_frontVars PROVE FrontInv'
  OBVIOUS
<1>1. ASSUME UNCHANGED <<sessionRow, front, closing, unclosed>>,
             remoteToken' \in [RemoteTokens -> {"none", "live", "expired", "revoked"}]
      PROVE  FrontInv'
  BY <1>1 DEF FrontInv, FrontTypeOK, OnlineIsAccounted, ConnectedIsOnline, Connected,
              FramesKnown, AnsweredAt
<1>2. ASSUME NEW t \in RemoteTokens,
             MintCodexToken(t) \/ RevokeCodexToken(t) \/ RemoteTokenExpires(t)
      PROVE  FrontInv'
  <2>1. /\ UNCHANGED <<sessionRow, front, closing, unclosed>>
        /\ remoteToken' \in [RemoteTokens -> {"none", "live", "expired", "revoked"}]
    BY <1>2 DEF MintCodexToken, RevokeCodexToken, RemoteTokenExpires, FrontInv, FrontTypeOK
  <2> QED BY <1>1, <2>1
<1>3. ASSUME NEW f \in Fronts,
             \/ \E t \in RemoteTokens : DialIn(f, t)
             \/ VerifyToken(f) \/ OpenUntracked(f) \/ HandleCodexAppWS(f) \/ RunProxyEnds(f)
      PROVE  FrontInv'
  <2>1. VerifyToken(f) => FrontStep(f, "open") \/ front' = [front EXCEPT ![f] = Closed]
    BY DEF VerifyToken
  <2>2. HandleCodexAppWS(f) =>
          \/ /\ front[f].pc \in DOMAIN Following /\ FrontStep(f, Following[front[f].pc])
             /\ UNCHANGED <<remoteToken, sessionRow, closing, unclosed>>
          \/ EndHandler(f)
    BY DEF HandleCodexAppWS
  <2>3. RunProxyEnds(f) => EndHandler(f)
    BY DEF RunProxyEnds
  <2> QED BY <1>3, <2>1, <2>2, <2>3, HandlerSteps, EndHandlerStep
<1>4. ASSUME NEW f \in Fronts, NEW s \in SessionRows, OpenSession(f, s) PROVE FrontInv'
  BY <1>4, OpenSessionStep
<1>5. CASE UNCHANGED frontVars
  <2>1. /\ UNCHANGED <<sessionRow, front, closing, unclosed>>
        /\ remoteToken' \in [RemoteTokens -> {"none", "live", "expired", "revoked"}]
    BY <1>5 DEF frontVars, FrontInv, FrontTypeOK
  <2> QED BY <1>1, <2>1
<1> QED BY <1>2, <1>3, <1>4, <1>5, FrameSteps, CloseSessionStep, CrashStep DEF FrontNext

\* Of what is proved, what the front promises.
LEMMA FrontInvSound == FrontInv => FrontTypeOK /\ FrontSound
<1> SUFFICES ASSUME FrontInv PROVE AnsweredOnce
  BY DEF FrontInv, FrontSound
<1> QED BY DEF FrontInv, FramesKnown, AnsweredAt, AnsweredOnce

\* However connections come, break and end: a session is shown online only of a connection or
\* of one whose close is under way or was lost, a connected one is shown, and a request is
\* answered once (handleCodexAppWS, OpenSession, CloseSession, RunProxy).
THEOREM FrontAlwaysSound == FrontSpec => [](FrontTypeOK /\ FrontSound)
  BY FrontInitInv, FrontInvStep, FrontInvSound, PTL DEF FrontSpec

-----------------------------------------------------------------------------
(* Turns of a user with Codex *)

\* Turns of a user: the worker takes messages that have no turn yet, a thread is
\* named by nobody before the turn that begins it, and without an overlap the
\* thread of the row is the one the turn works in, or one that Codex has lost.

QueuedOnce ==
    /\ \A i, j \in 1..Len(queue) : queue[i] = queue[j] => i = j
    /\ \A i \in 1..Len(queue) : message[queue[i]] = "queued"
    /\ \A m \in Messages : message[m] \in {"none", "sending", "queued", "dropped"}
                              => turn[m].pc = "none"

HasBegun(t) == turn[t].pc \in {"persist", "status", "reply", "done"}

NamesBegun ==
    /\ \A s \in spent : HasBegun(s)
    /\ thread # NoThread => HasBegun(thread)
    /\ \A t \in ImTurns : /\ turn[t].view # NoThread => HasBegun(turn[t].view)
                          /\ turn[t].used # NoThread => HasBegun(turn[t].used)

ViewsFollow ==
    /\ \A t \in ImTurns :
          /\ turn[t].pc \in {"none", "resolve", "create", "retry", "done"}
                => turn[t].view = NoThread
          /\ turn[t].pc \in {"run", "retry", "persist", "status"} => session # NoSession
          /\ turn[t].pc \in {"persist", "status"} => turn[t].used # NoThread
    /\ session = NoSession => thread = NoThread

ThreadGone == thread = NoThread \/ thread \notin live

TurnAlone == \A s, t \in ImTurns : InTurn(s) /\ InTurn(t) => s = t

WorksInThread(t) ==
    /\ turn[t].pc = "run" => thread = turn[t].view
    /\ turn[t].pc = "retry" => ThreadGone
    /\ turn[t].pc = "persist" => IF turn[t].used = turn[t].view THEN thread = turn[t].view
                                 ELSE ThreadGone
    /\ turn[t].pc = "status" => thread = turn[t].used \/ ThreadGone

NotSpent(t) ==
    /\ turn[t].pc = "run" => turn[t].view \notin spent
    /\ turn[t].pc \in {"persist", "status"} => turn[t].used \notin spent

TurnsInv ==
    /\ ImTypeOK /\ OneTurnPerUser
    /\ QueuedOnce /\ NamesBegun /\ ViewsFollow
    /\ ~overlapped => TurnAlone /\ \A t \in ImTurns : WorksInThread(t)
    /\ ~overlapped /\ ~unwritten => thread \notin spent /\ \A t \in ImTurns : NotSpent(t)

TurnStates == [pc : {"none", "resolve", "create", "run", "retry",
                     "persist", "status", "reply", "done"},
               view : ImTurns \cup {NoThread}, used : ImTurns \cup {NoThread}]

LEMMA TurnsInitInv == ImInit => TurnsInv
<1> SUFFICES ASSUME ImInit PROVE TurnsInv
  OBVIOUS
<1>1. /\ slot = FALSE /\ queue = << >> /\ Len(queue) = 0 /\ queue \in Seq(Messages)
      /\ overlapped = FALSE /\ unwritten = FALSE /\ live = {} /\ spent = {}
      /\ session = NoSession /\ thread = NoThread
      /\ message \in [Messages -> {"none"}]
  BY DEF ImInit
<1>2. /\ turn \in [ImTurns -> TurnStates]
      /\ \A t \in ImTurns : turn[t].pc = "none" /\ turn[t].view = NoThread
                            /\ turn[t].used = NoThread
  BY DEF ImInit, TurnStates
<1>3. ImTypeOK
  <2>1. Len(queue) <= QueueCap
    BY <1>1, ImCodexAssumption
  <2>2. message \in [Messages -> {"none", "sending", "queued", "dropped", "turn", "answered"}]
    BY <1>1
  <2>3. slot \in BOOLEAN /\ overlapped \in BOOLEAN /\ unwritten \in BOOLEAN
    BY <1>1
  <2> QED BY <1>1, <1>2, <2>1, <2>2, <2>3 DEF ImTypeOK, TurnStates
<1>4. \A t \in ImTurns : ~InTurn(t)
  BY <1>2 DEF InTurn
<1>5. OneTurnPerUser /\ TurnAlone
  BY <1>4 DEF OneTurnPerUser, TurnAlone, ImTurns
<1>6. QueuedOnce
  BY <1>1, <1>2 DEF QueuedOnce, ImTurns
<1>7. NamesBegun /\ ViewsFollow
  BY <1>1, <1>2 DEF NamesBegun, ViewsFollow
<1>8. \A t \in ImTurns : WorksInThread(t) /\ NotSpent(t)
  BY <1>2 DEF WorksInThread, NotSpent
<1> QED BY <1>1, <1>3, <1>5, <1>6, <1>7, <1>8 DEF TurnsInv

\* A step of a turn that is under way, by what it leaves behind.
TurnMove(t, q) ==
    /\ InTurn(t) /\ turn' = [turn EXCEPT ![t] = q] /\ q.pc # "none"
    /\ HasBegun(t) => q.pc \in {"persist", "status", "reply", "done"}
    /\ slot' = slot /\ queue' = queue /\ overlapped' = overlapped
    /\ \/ message' = message
       \/ message' = [m \in Messages |-> IF m = t THEN "answered" ELSE message[m]]
    /\ session' \in ImTurns \cup {NoSession}
    /\ thread' \in ImTurns \cup {NoThread}
    /\ live' \subseteq ImTurns /\ spent' \subseteq ImTurns
    /\ unwritten' \in BOOLEAN /\ (unwritten => unwritten')
    /\ \A n \in spent' : HasBegun(n)'
    /\ thread' # NoThread => HasBegun(thread)'
    /\ q.view # NoThread => HasBegun(q.view)'
    /\ q.used # NoThread => HasBegun(q.used)'
    /\ q.pc \in {"resolve", "create", "retry", "done"} => q.view = NoThread
    /\ q.pc \in {"run", "retry", "persist", "status"} => session' # NoSession
    /\ q.pc \in {"persist", "status"} => q.used # NoThread
    /\ session # NoSession => session' = session
    /\ session' = NoSession => thread' = NoThread
    /\ ~overlapped => WorksInThread(t)'
    /\ (~overlapped /\ ~unwritten') => (thread' \notin spent' /\ NotSpent(t)')

LEMMA TurnMoves ==
    ASSUME TurnsInv, NEW t \in ImTurns, NEW q \in TurnStates, TurnMove(t, q)
    PROVE  TurnsInv'
<1> USE DEF TurnMove
<1>1. /\ turn \in [ImTurns -> TurnStates]
      /\ message \in [Messages -> {"none", "sending", "queued", "dropped", "turn", "answered"}]
      /\ slot \in BOOLEAN /\ overlapped \in BOOLEAN
  BY DEF TurnsInv, ImTypeOK, TurnStates
<1>2. /\ turn' \in [ImTurns -> TurnStates] /\ turn'[t] = q
      /\ \A s \in ImTurns \ {t} : turn'[s] = turn[s]
  BY <1>1
<1>3. message' \in [Messages -> {"none", "sending", "queued", "dropped", "turn", "answered"}]
  BY <1>1
<1>4. ImTypeOK'
  <2>1. queue' \in Seq(Messages) /\ Len(queue') <= QueueCap
    BY DEF TurnsInv, ImTypeOK
  <2>2. slot' \in BOOLEAN /\ overlapped' \in BOOLEAN
    BY <1>1
  <2> QED BY <1>2, <1>3, <2>1, <2>2 DEF ImTypeOK, TurnStates
<1>5. \A s \in ImTurns : InTurn(s)' => InTurn(s)
  BY <1>2 DEF InTurn
<1>6. OneTurnPerUser'
  BY <1>5 DEF TurnsInv, OneTurnPerUser, ImTurns
<1>7. turn[t].pc # "none"
  BY DEF InTurn
<1>8. QueuedOnce'
  <2>1. /\ \A i, j \in 1..Len(queue) : queue[i] = queue[j] => i = j
        /\ \A i \in 1..Len(queue) : message[queue[i]] = "queued" /\ queue[i] \in Messages
        /\ \A m \in Messages : message[m] \in {"none", "sending", "queued", "dropped"}
                              => turn[m].pc = "none"
    BY DEF TurnsInv, QueuedOnce, ImTypeOK
  <2>2. ASSUME NEW m \in Messages, message[m] \in {"none", "sending", "queued", "dropped"}
        PROVE  m # t /\ message'[m] = message[m]
    <3>1. m # t
      BY <1>7, <2>1, <2>2
    <3> QED BY <1>1, <3>1
  <2>3. \A i \in 1..Len(queue') : message'[queue'[i]] = "queued"
    BY <2>1, <2>2
  <2>4. ASSUME NEW m \in Messages, message'[m] \in {"none", "sending", "queued", "dropped"}
        PROVE  turn'[m].pc = "none"
    <3>1. message'[m] = message[m]
      BY <1>1, <2>4
    <3>2. turn[m].pc = "none" /\ m # t
      BY <2>1, <2>2, <2>4, <3>1
    <3> QED BY <1>2, <3>2 DEF ImTurns
  <2> QED BY <2>1, <2>3, <2>4 DEF QueuedOnce
<1>9. \A s \in ImTurns : HasBegun(s) => HasBegun(s)'
  BY <1>2 DEF HasBegun
<1>10. NamesBegun'
  <2>1. ASSUME NEW s \in ImTurns
        PROVE  /\ turn'[s].view # NoThread => HasBegun(turn[s].view)'
               /\ turn'[s].used # NoThread => HasBegun(turn[s].used)'
    <3>1. CASE s = t
      BY <1>2, <3>1
    <3>2. CASE s # t
      <4>1. /\ turn[s].view # NoThread => HasBegun(turn[s].view)
            /\ turn[s].used # NoThread => HasBegun(turn[s].used)
        BY DEF TurnsInv, NamesBegun
      <4>2. turn[s].view \in ImTurns \cup {NoThread} /\ turn[s].used \in ImTurns \cup {NoThread}
        BY <1>1 DEF TurnStates
      <4>3. turn'[s] = turn[s]
        BY <1>2, <3>2
      <4> QED BY <1>9, <4>1, <4>2, <4>3
    <3> QED BY <3>1, <3>2
  <2> QED BY <2>1 DEF NamesBegun
<1>11. ViewsFollow'
  <2>1. \A s \in ImTurns :
          /\ turn[s].pc \in {"none", "resolve", "create", "retry", "done"}
                => turn[s].view = NoThread
          /\ turn[s].pc \in {"run", "retry", "persist", "status"} => session # NoSession
          /\ turn[s].pc \in {"persist", "status"} => turn[s].used # NoThread
    BY DEF TurnsInv, ViewsFollow
  <2> QED BY <1>2, <2>1 DEF ViewsFollow
<1>12. ASSUME ~overlapped PROVE TurnAlone' /\ \A s \in ImTurns : WorksInThread(s)'
  <2>1. TurnAlone
    BY <1>12 DEF TurnsInv
  <2>2. TurnAlone'
    BY <1>5, <2>1 DEF TurnAlone
  <2>3. ASSUME NEW s \in ImTurns PROVE WorksInThread(s)'
    <3>1. CASE s = t
      BY <1>12, <3>1
    <3>2. CASE s # t
      <4>1. ~InTurn(s) /\ turn'[s] = turn[s]
        BY <1>2, <2>1, <3>2 DEF TurnAlone
      <4> QED BY <4>1 DEF InTurn, WorksInThread
    <3> QED BY <3>1, <3>2
  <2> QED BY <2>2, <2>3
<1>13. ASSUME ~overlapped, ~unwritten'
       PROVE  thread' \notin spent' /\ \A s \in ImTurns : NotSpent(s)'
  <2>1. TurnAlone
    BY <1>13 DEF TurnsInv
  <2>2. ASSUME NEW s \in ImTurns PROVE NotSpent(s)'
    <3>1. CASE s = t
      BY <1>13, <3>1
    <3>2. CASE s # t
      <4>1. ~InTurn(s) /\ turn'[s] = turn[s]
        BY <1>2, <2>1, <3>2 DEF TurnAlone
      <4> QED BY <4>1 DEF InTurn, NotSpent
    <3> QED BY <3>1, <3>2
  <2> QED BY <1>13, <2>2
<1>14. overlapped' = overlapped
  OBVIOUS
<1> QED BY <1>4, <1>6, <1>8, <1>10, <1>11, <1>12, <1>13, <1>14 DEF TurnsInv

\* What a step of a turn may rely on.
LEMMA TurnFacts ==
    ASSUME TurnsInv, NEW t \in ImTurns
    PROVE  /\ turn \in [ImTurns -> TurnStates] /\ turn[t] \in TurnStates
           /\ session \in ImTurns \cup {NoSession} /\ thread \in ImTurns \cup {NoThread}
           /\ live \subseteq ImTurns /\ spent \subseteq ImTurns /\ unwritten \in BOOLEAN
           /\ NoThread \notin ImTurns /\ NoSession \notin ImTurns
           /\ \A s \in spent : HasBegun(s)
           /\ thread # NoThread => HasBegun(thread)
           /\ turn[t].view # NoThread => HasBegun(turn[t].view)
           /\ turn[t].used # NoThread => HasBegun(turn[t].used)
           /\ turn[t].pc \in {"none", "resolve", "create", "retry", "done"}
                => turn[t].view = NoThread
           /\ turn[t].pc \in {"run", "retry", "persist", "status"} => session # NoSession
           /\ turn[t].pc \in {"persist", "status"} => turn[t].used # NoThread
           /\ session = NoSession => thread = NoThread
           /\ ~overlapped => WorksInThread(t)
           /\ ~overlapped /\ ~unwritten => thread \notin spent /\ NotSpent(t)
<1>1. turn \in [ImTurns -> TurnStates]
  BY DEF TurnsInv, ImTypeOK, TurnStates
<1>2. NamesBegun /\ ViewsFollow /\ ImTypeOK
  BY DEF TurnsInv
<1>3. /\ ~overlapped => WorksInThread(t)
      /\ ~overlapped /\ ~unwritten => thread \notin spent /\ NotSpent(t)
  BY DEF TurnsInv
<1> QED BY <1>1, <1>2, <1>3, ImCodexAssumption DEF NamesBegun, ViewsFollow, ImTypeOK

\* A step that begins from a turn's state and keeps names: those that had begun have.
LEMMA BegunStays ==
    ASSUME TurnsInv, NEW t \in ImTurns, NEW q \in TurnStates, turn' = [turn EXCEPT ![t] = q],
           HasBegun(t) => q.pc \in {"persist", "status", "reply", "done"},
           NEW s \in ImTurns, HasBegun(s)
    PROVE  HasBegun(s)'
BY DEF TurnsInv, ImTypeOK, HasBegun

\* A turn that ends its work: the thread of the row stays, or is cleared because the
\* turn found it lost or full.
LEMMA GoesToReply ==
    ASSUME TurnsInv, NEW t \in ImTurns, InTurn(t), Goto(t, "reply"),
           UNCHANGED <<slot, queue, message, overlapped, session, live>>,
           \/ UNCHANGED <<thread, unwritten, spent>>
           \/ /\ SetThread(NoThread) /\ turn[t].pc = "status"
              /\ spent' = spent \/ spent' = spent \cup {turn[t].used}
    PROVE  TurnsInv'
<1>0. PICK q : q = [turn[t] EXCEPT !.pc = "reply"]
  OBVIOUS
<1>1. /\ turn \in [ImTurns -> TurnStates] /\ turn[t] \in TurnStates
      /\ session \in ImTurns \cup {NoSession} /\ thread \in ImTurns \cup {NoThread}
      /\ live \subseteq ImTurns /\ spent \subseteq ImTurns /\ unwritten \in BOOLEAN
      /\ NoThread \notin ImTurns
      /\ \A s \in spent : HasBegun(s)
      /\ thread # NoThread => HasBegun(thread)
      /\ turn[t].view # NoThread => HasBegun(turn[t].view)
      /\ turn[t].used # NoThread => HasBegun(turn[t].used)
      /\ turn[t].pc \in {"persist", "status"} => turn[t].used # NoThread
      /\ session = NoSession => thread = NoThread
      /\ ~overlapped /\ ~unwritten => thread \notin spent
  BY TurnFacts
<1>2. /\ q \in TurnStates /\ q.pc = "reply"
      /\ q.view = turn[t].view /\ q.used = turn[t].used
      /\ turn' = [turn EXCEPT ![t] = q]
  BY <1>0, <1>1 DEF TurnStates, Goto
<1>3. \A s \in ImTurns : HasBegun(s) => HasBegun(s)'
  BY <1>2, BegunStays
<1>4. /\ turn[t].view \in ImTurns \cup {NoThread} /\ turn[t].used \in ImTurns \cup {NoThread}
  BY <1>1 DEF TurnStates
<1>5. /\ thread' \in {thread, NoThread} /\ unwritten' \in BOOLEAN /\ (unwritten => unwritten')
      /\ spent' \subseteq spent \cup {turn[t].used} /\ spent' \subseteq ImTurns
  BY <1>1, <1>4 DEF SetThread
<1>6. \A n \in spent' : HasBegun(n)'
  <2>1. \A n \in spent' : n \in ImTurns /\ HasBegun(n)
    BY <1>1, <1>5
  <2> QED BY <1>3, <2>1
<1>7. thread' # NoThread => HasBegun(thread)'
  <2>1. thread' # NoThread => thread' \in ImTurns /\ HasBegun(thread')
    BY <1>1, <1>5 DEF HasBegun
  <2>2. thread' = NoThread \/ thread' = thread
    BY <1>5
  <2> QED BY <1>1, <1>3, <2>1, <2>2 DEF HasBegun
<1>8. /\ q.view # NoThread => HasBegun(q.view)'
      /\ q.used # NoThread => HasBegun(q.used)'
  <2>1. /\ q.view \in ImTurns \cup {NoThread} /\ q.used \in ImTurns \cup {NoThread}
        /\ q.view # NoThread => HasBegun(q.view)
        /\ q.used # NoThread => HasBegun(q.used)
    BY <1>1, <1>2, <1>4
  <2> QED BY <1>3, <2>1
<1>9. WorksInThread(t)' /\ NotSpent(t)'
  <2>1. turn'[t].pc = "reply"
    BY <1>1, <1>2
  <2> QED BY <2>1 DEF WorksInThread, NotSpent
<1>10. ~overlapped /\ ~unwritten' => thread' \notin spent'
  BY <1>1, <1>5 DEF SetThread
<1>11. session' = NoSession => thread' = NoThread
  BY <1>1, <1>5
<1>12. /\ session' \in ImTurns \cup {NoSession} /\ thread' \in ImTurns \cup {NoThread}
       /\ live' \subseteq ImTurns /\ (session # NoSession => session' = session)
  BY <1>1, <1>5
<1>13. /\ q.pc # "none" /\ q.pc \notin {"resolve", "create", "retry", "done"}
       /\ q.pc \notin {"run", "retry", "persist", "status"}
       /\ q.pc \in {"persist", "status", "reply", "done"}
  BY <1>2
<1>14. /\ ~overlapped => WorksInThread(t)'
       /\ ~overlapped /\ ~unwritten' => thread' \notin spent' /\ NotSpent(t)'
  BY <1>9, <1>10
<1>15. /\ spent' \subseteq ImTurns /\ unwritten' \in BOOLEAN /\ (unwritten => unwritten')
       /\ q \in TurnStates /\ turn' = [turn EXCEPT ![t] = q]
  BY <1>2, <1>5
<1>16. slot' = slot /\ queue' = queue /\ overlapped' = overlapped /\ message' = message
  OBVIOUS
<1>17. TurnMove(t, q)
  BY <1>6, <1>7, <1>8, <1>11, <1>12, <1>13, <1>14, <1>15, <1>16 DEF TurnMove
<1> QED BY <1>15, <1>17, TurnMoves

LEMMA ResolveSessionKeeps ==
    ASSUME TurnsInv, NEW t \in ImTurns, ResolveSession(t) PROVE TurnsInv'
<1>1. InTurn(t)
  BY DEF ResolveSession, InTurn
<1>2. CASE Goto(t, "reply")
  <2>1. UNCHANGED <<slot, queue, message, overlapped, session, live, thread, unwritten, spent>>
    BY DEF ResolveSession, dispatcherVars, rowVars
  <2> QED BY <1>1, <1>2, <2>1, GoesToReply
<1>3. ASSUME NEW q \in TurnStates, turn' = [turn EXCEPT ![t] = q], q.used = turn[t].used,
             \/ session = NoSession /\ q.pc = "create" /\ q.view = NoThread
             \/ session # NoSession /\ q.pc = "run" /\ q.view = thread
      PROVE  TurnsInv'
  <2>1. /\ UNCHANGED <<slot, queue, message, overlapped, session, live, thread, unwritten, spent>>
        /\ turn[t].pc = "resolve"
    BY DEF ResolveSession, dispatcherVars, rowVars
  <2>2. /\ turn \in [ImTurns -> TurnStates] /\ turn[t] \in TurnStates
        /\ session \in ImTurns \cup {NoSession} /\ thread \in ImTurns \cup {NoThread}
        /\ live \subseteq ImTurns /\ spent \subseteq ImTurns /\ unwritten \in BOOLEAN
        /\ \A s \in spent : HasBegun(s)
        /\ thread # NoThread => HasBegun(thread)
        /\ turn[t].used # NoThread => HasBegun(turn[t].used)
        /\ session = NoSession => thread = NoThread
        /\ ~overlapped /\ ~unwritten => thread \notin spent
    BY TurnFacts
  <2>3. ~HasBegun(t)
    BY <2>1 DEF HasBegun
  <2>4. \A s \in ImTurns : HasBegun(s) => HasBegun(s)'
    BY <1>3, <2>3, BegunStays
  <2>5. q.used \in ImTurns \cup {NoThread} /\ q.view \in ImTurns \cup {NoThread}
    BY DEF TurnStates
  <2>6. /\ \A n \in spent' : HasBegun(n)'
        /\ thread' # NoThread => HasBegun(thread)'
    BY <2>1, <2>2, <2>4
  <2>7. /\ q.view # NoThread => HasBegun(q.view)'
        /\ q.used # NoThread => HasBegun(q.used)'
    BY <1>3, <2>2, <2>4, <2>5
  <2>8. turn'[t] = q
    BY <1>3, <2>2
  <2>9. WorksInThread(t)'
    BY <1>3, <2>1, <2>8 DEF WorksInThread
  <2>10. (~overlapped /\ ~unwritten') => (thread' \notin spent' /\ NotSpent(t)')
    BY <1>3, <2>1, <2>2, <2>8 DEF NotSpent
  <2>11. TurnMove(t, q)
    BY <1>1, <1>3, <2>1, <2>2, <2>3, <2>6, <2>7, <2>9, <2>10 DEF TurnMove
  <2> QED BY <2>11, TurnMoves
<1>4. CASE session = NoSession /\ Goto(t, "create")
  <2>1. turn[t] \in TurnStates /\ turn[t].view = NoThread /\ turn[t].pc = "resolve"
    BY TurnFacts DEF ResolveSession
  <2>2. PICK q : q = [turn[t] EXCEPT !.pc = "create"]
    OBVIOUS
  <2>3. q \in TurnStates /\ q.pc = "create" /\ q.view = NoThread /\ q.used = turn[t].used
    BY <2>1, <2>2 DEF TurnStates
  <2>4. turn' = [turn EXCEPT ![t] = q]
    BY <1>4, <2>2 DEF Goto
  <2> QED BY <1>3, <1>4, <2>3, <2>4
<1>5. CASE session # NoSession /\ turn' = [turn EXCEPT ![t].pc = "run", ![t].view = thread]
  <2>1. /\ turn[t] \in TurnStates /\ thread \in ImTurns \cup {NoThread}
        /\ turn \in [ImTurns -> TurnStates]
    BY TurnFacts
  <2>2. PICK q : q = [turn[t] EXCEPT !.pc = "run", !.view = thread]
    OBVIOUS
  <2>3. q \in TurnStates /\ q.pc = "run" /\ q.view = thread /\ q.used = turn[t].used
    BY <2>1, <2>2 DEF TurnStates
  <2>4. turn' = [turn EXCEPT ![t] = q]
    BY <1>5, <2>1, <2>2
  <2> QED BY <1>3, <1>5, <2>3, <2>4
<1> QED BY <1>2, <1>4, <1>5 DEF ResolveSession

LEMMA CreateSessionKeeps ==
    ASSUME TurnsInv, NEW t \in ImTurns, CreateSession(t) PROVE TurnsInv'
<1>1. InTurn(t) /\ turn[t].pc = "create"
  BY DEF CreateSession, InTurn
<1>2. UNCHANGED <<slot, queue, message, overlapped, live, thread, unwritten, spent>>
  BY DEF CreateSession, dispatcherVars
<1>3. CASE Goto(t, "reply") /\ UNCHANGED session
  BY <1>1, <1>2, <1>3, GoesToReply
<1>4. CASE session = NoSession /\ session' = t /\ Goto(t, "run")
  <2>2. /\ turn \in [ImTurns -> TurnStates] /\ turn[t] \in TurnStates
        /\ thread \in ImTurns \cup {NoThread}
        /\ live \subseteq ImTurns /\ spent \subseteq ImTurns /\ unwritten \in BOOLEAN
        /\ NoThread \notin ImTurns /\ NoSession \notin ImTurns
        /\ \A s \in spent : HasBegun(s)
        /\ turn[t].used # NoThread => HasBegun(turn[t].used)
        /\ turn[t].view = NoThread
        /\ thread = NoThread
        /\ ~overlapped /\ ~unwritten => thread \notin spent
    BY <1>1, <1>4, TurnFacts
  <2>3. PICK q : q = [turn[t] EXCEPT !.pc = "run"]
    OBVIOUS
  <2>4. /\ q \in TurnStates /\ q.pc = "run" /\ q.view = NoThread /\ q.used = turn[t].used
        /\ turn' = [turn EXCEPT ![t] = q]
    BY <1>4, <2>2, <2>3 DEF TurnStates, Goto
  <2>5. ~HasBegun(t)
    BY <1>1 DEF HasBegun
  <2>6. \A s \in ImTurns : HasBegun(s) => HasBegun(s)'
    BY <2>4, <2>5, BegunStays
  <2>7. q.used \in ImTurns \cup {NoThread}
    BY <2>4 DEF TurnStates
  <2>8. \A n \in spent' : HasBegun(n)'
    BY <1>2, <2>2, <2>6
  <2>9. q.used # NoThread => HasBegun(q.used)'
    BY <2>2, <2>4, <2>6, <2>7
  <2>10. turn'[t] = q
    BY <2>2, <2>4
  <2>11. WorksInThread(t)'
    BY <1>2, <2>2, <2>4, <2>10 DEF WorksInThread
  <2>12. (~overlapped /\ ~unwritten') => (thread' \notin spent' /\ NotSpent(t)')
    BY <1>2, <2>2, <2>4, <2>10 DEF NotSpent
  <2>13. session' # NoSession /\ session' \in ImTurns \cup {NoSession}
    BY <1>4, <2>2
  <2>14. TurnMove(t, q)
    BY <1>1, <1>2, <1>4, <2>2, <2>4, <2>5, <2>8, <2>9, <2>11, <2>12, <2>13 DEF TurnMove
  <2> QED BY <2>4, <2>14, TurnMoves
<1> QED BY <1>3, <1>4 DEF CreateSession

LEMMA RunTurnKeeps == ASSUME TurnsInv, NEW t \in ImTurns, RunTurn(t) PROVE TurnsInv'
<1> DEFINE used == IF turn[t].view = NoThread THEN t ELSE turn[t].view
<1>1. /\ InTurn(t) /\ turn[t].pc \in {"run", "retry"} /\ ~HasBegun(t)
      /\ UNCHANGED <<slot, queue, message, overlapped, session, thread, unwritten, spent>>
      /\ live' = live \cup {used}
      /\ turn' = [turn EXCEPT ![t].pc = "persist", ![t].used = used]
  BY DEF RunTurn, InTurn, HasBegun, dispatcherVars, rowVars
<1>2. /\ turn \in [ImTurns -> TurnStates] /\ turn[t] \in TurnStates
      /\ session \in ImTurns \cup {NoSession} /\ thread \in ImTurns \cup {NoThread}
      /\ live \subseteq ImTurns /\ spent \subseteq ImTurns /\ unwritten \in BOOLEAN
      /\ NoThread \notin ImTurns
      /\ \A s \in spent : HasBegun(s)
      /\ thread # NoThread => HasBegun(thread)
      /\ turn[t].view # NoThread => HasBegun(turn[t].view)
      /\ turn[t].pc = "retry" => turn[t].view = NoThread
      /\ session # NoSession
      /\ ~overlapped => WorksInThread(t)
      /\ (~overlapped /\ ~unwritten) => (thread \notin spent /\ NotSpent(t))
  BY <1>1, TurnFacts
<1>3. turn[t].view \in ImTurns \cup {NoThread}
  BY <1>2 DEF TurnStates
<1>4. PICK q : q = [turn[t] EXCEPT !.pc = "persist", !.used = used]
  OBVIOUS
<1>5. used \in ImTurns
  BY <1>3
<1>6. /\ q \in TurnStates /\ q.pc = "persist" /\ q.view = turn[t].view /\ q.used = used
      /\ turn' = [turn EXCEPT ![t] = q] /\ turn'[t] = q
  BY <1>1, <1>2, <1>4, <1>5 DEF TurnStates
<1>7. \A s \in ImTurns : HasBegun(s) => HasBegun(s)'
  BY <1>1, <1>6, BegunStays
<1>8. HasBegun(t)'
  BY <1>6 DEF HasBegun
<1>9. /\ \A n \in spent' : HasBegun(n)'
      /\ thread' # NoThread => HasBegun(thread)'
  BY <1>1, <1>2, <1>7
<1>10. /\ q.view # NoThread => HasBegun(q.view)'
       /\ q.used # NoThread => HasBegun(q.used)'
  <2>1. q.view # NoThread => HasBegun(q.view)'
    BY <1>2, <1>3, <1>6, <1>7
  <2>2. q.used = t \/ q.used = q.view
    BY <1>6
  <2> QED BY <1>8, <2>1, <2>2
<1>11. ~overlapped => WorksInThread(t)'
  <2> SUFFICES ASSUME ~overlapped PROVE WorksInThread(t)'
    OBVIOUS
  <2>1. /\ turn[t].pc = "run" => thread = turn[t].view
        /\ turn[t].pc = "retry" => thread = NoThread \/ thread \notin live
    BY <1>2 DEF WorksInThread, ThreadGone
  <2>2. thread # t
    BY <1>1, <1>2
  <2>3. CASE turn[t].view # NoThread
    <3>1. thread = turn[t].view /\ used = turn[t].view
      BY <1>1, <1>2, <2>1, <2>3
    <3> QED BY <1>1, <1>6, <3>1 DEF WorksInThread
  <2>4. CASE turn[t].view = NoThread
    <3>1. used = t /\ q.used # q.view
      BY <1>2, <1>6, <2>4
    <3>2. thread' = NoThread \/ thread' \notin live'
      BY <1>1, <2>1, <2>2, <2>4, <3>1
    <3> QED BY <1>6, <3>1, <3>2 DEF WorksInThread, ThreadGone
  <2> QED BY <2>3, <2>4
<1>12. (~overlapped /\ ~unwritten') => (thread' \notin spent' /\ NotSpent(t)')
  <2> SUFFICES ASSUME ~overlapped, ~unwritten PROVE thread \notin spent /\ NotSpent(t)'
    BY <1>1
  <2>1. thread \notin spent /\ NotSpent(t)
    BY <1>2
  <2>2. t \notin spent
    BY <1>1, <1>2
  <2>3. used \notin spent
    BY <1>1, <1>2, <2>1, <2>2 DEF NotSpent
  <2> QED BY <1>1, <1>6, <2>1, <2>3 DEF NotSpent
<1>13. live' \subseteq ImTurns
  BY <1>1, <1>2, <1>5
<1>14. q.used # NoThread
  BY <1>2, <1>5, <1>6
<1>15. TurnMove(t, q)
  <2> HIDE DEF used
  <2> QED BY <1>1, <1>2, <1>6, <1>9, <1>10, <1>11, <1>12, <1>13, <1>14 DEF TurnMove
<1> QED BY <1>6, <1>15, TurnMoves

LEMMA ThreadNotFoundKeeps ==
    ASSUME TurnsInv, NEW t \in ImTurns, ThreadNotFound(t) PROVE TurnsInv'
<1>1. /\ InTurn(t) /\ turn[t].pc = "run" /\ ~HasBegun(t)
      /\ turn[t].view \notin live \cup {NoThread}
      /\ UNCHANGED <<slot, queue, message, overlapped, session, live, spent>>
      /\ turn' = [turn EXCEPT ![t].pc = "retry", ![t].view = NoThread]
      /\ (thread' = NoThread /\ unwritten' = unwritten) \/ (thread' = thread /\ unwritten' = TRUE)
  BY DEF ThreadNotFound, SetThread, InTurn, HasBegun, dispatcherVars
<1>2. /\ turn \in [ImTurns -> TurnStates] /\ turn[t] \in TurnStates
      /\ session \in ImTurns \cup {NoSession} /\ thread \in ImTurns \cup {NoThread}
      /\ live \subseteq ImTurns /\ spent \subseteq ImTurns /\ unwritten \in BOOLEAN
      /\ NoThread \notin ImTurns
      /\ \A s \in spent : HasBegun(s)
      /\ thread # NoThread => HasBegun(thread)
      /\ turn[t].used # NoThread => HasBegun(turn[t].used)
      /\ session # NoSession
      /\ ~overlapped => WorksInThread(t)
  BY <1>1, TurnFacts
<1>3. PICK q : q = [turn[t] EXCEPT !.pc = "retry", !.view = NoThread]
  OBVIOUS
<1>4. /\ q \in TurnStates /\ q.pc = "retry" /\ q.view = NoThread /\ q.used = turn[t].used
      /\ turn' = [turn EXCEPT ![t] = q] /\ turn'[t] = q
  BY <1>1, <1>2, <1>3 DEF TurnStates
<1>5. \A s \in ImTurns : HasBegun(s) => HasBegun(s)'
  BY <1>1, <1>4, BegunStays
<1>6. \A n \in spent' : HasBegun(n)'
  BY <1>1, <1>2, <1>5
<1>7. thread' # NoThread => HasBegun(thread)'
  <2>1. thread' # NoThread => thread' = thread
    BY <1>1
  <2> QED BY <1>2, <1>5, <2>1 DEF HasBegun
<1>8. q.used # NoThread => HasBegun(q.used)'
  <2>1. q.used \in ImTurns \cup {NoThread}
    BY <1>4 DEF TurnStates
  <2> QED BY <1>2, <1>4, <1>5, <2>1
<1>9. ~overlapped => WorksInThread(t)'
  <2>1. ~overlapped => thread = turn[t].view
    BY <1>1, <1>2 DEF WorksInThread
  <2>2. ~overlapped => (thread' = NoThread \/ thread' \notin live')
    BY <1>1, <2>1
  <2> QED BY <1>4, <2>2 DEF WorksInThread, ThreadGone
<1>10. (~overlapped /\ ~unwritten') => (thread' \notin spent' /\ NotSpent(t)')
  BY <1>1, <1>2, <1>4 DEF NotSpent
<1>11. /\ thread' \in ImTurns \cup {NoThread} /\ unwritten' \in BOOLEAN
       /\ (unwritten => unwritten') /\ session' # NoSession
  BY <1>1, <1>2
<1>12. TurnMove(t, q)
  BY <1>1, <1>2, <1>4, <1>6, <1>7, <1>8, <1>9, <1>10, <1>11 DEF TurnMove
<1> QED BY <1>4, <1>12, TurnMoves

LEMMA PersistThreadKeeps ==
    ASSUME TurnsInv, NEW t \in ImTurns, PersistThread(t) PROVE TurnsInv'
<1>1. /\ InTurn(t) /\ turn[t].pc = "persist" /\ HasBegun(t)
      /\ UNCHANGED <<slot, queue, message, overlapped, session, live, spent>>
      /\ turn' = [turn EXCEPT ![t].pc = "status"]
      /\ IF turn[t].used # turn[t].view
         THEN (thread' = turn[t].used /\ unwritten' = unwritten)
              \/ (thread' = thread /\ unwritten' = TRUE)
         ELSE thread' = thread /\ unwritten' = unwritten
  BY DEF PersistThread, SetThread, Goto, InTurn, HasBegun, dispatcherVars
<1>2. /\ turn \in [ImTurns -> TurnStates] /\ turn[t] \in TurnStates
      /\ session \in ImTurns \cup {NoSession} /\ thread \in ImTurns \cup {NoThread}
      /\ live \subseteq ImTurns /\ spent \subseteq ImTurns /\ unwritten \in BOOLEAN
      /\ \A s \in spent : HasBegun(s)
      /\ thread # NoThread => HasBegun(thread)
      /\ turn[t].view # NoThread => HasBegun(turn[t].view)
      /\ turn[t].used # NoThread => HasBegun(turn[t].used)
      /\ turn[t].used # NoThread /\ session # NoSession
      /\ ~overlapped => WorksInThread(t)
      /\ (~overlapped /\ ~unwritten) => (thread \notin spent /\ NotSpent(t))
  BY <1>1, TurnFacts
<1>3. PICK q : q = [turn[t] EXCEPT !.pc = "status"]
  OBVIOUS
<1>4. /\ q \in TurnStates /\ q.pc = "status" /\ q.view = turn[t].view /\ q.used = turn[t].used
      /\ turn' = [turn EXCEPT ![t] = q] /\ turn'[t] = q
  BY <1>1, <1>2, <1>3 DEF TurnStates
<1>5. \A s \in ImTurns : HasBegun(s) => HasBegun(s)'
  BY <1>4, BegunStays
<1>6. q.view \in ImTurns \cup {NoThread} /\ q.used \in ImTurns
  BY <1>2, <1>4 DEF TurnStates
<1>7. \A n \in spent' : HasBegun(n)'
  BY <1>1, <1>2, <1>5
<1>8. thread' # NoThread => HasBegun(thread)'
  <2>1. thread' = thread \/ thread' = q.used
    BY <1>1, <1>4
  <2> QED BY <1>2, <1>4, <1>5, <1>6, <2>1 DEF HasBegun
<1>9. /\ q.view # NoThread => HasBegun(q.view)'
      /\ q.used # NoThread => HasBegun(q.used)'
  BY <1>2, <1>4, <1>5, <1>6
<1>10. ~overlapped => WorksInThread(t)'
  <2>1. ~overlapped => IF q.used = q.view THEN thread = q.view
                       ELSE thread = NoThread \/ thread \notin live
    BY <1>1, <1>2, <1>4 DEF WorksInThread, ThreadGone
  <2>2. ~overlapped => thread' = q.used \/ thread' = NoThread \/ thread' \notin live'
    BY <1>1, <1>4, <2>1
  <2> QED BY <1>4, <2>2 DEF WorksInThread, ThreadGone
<1>11. (~overlapped /\ ~unwritten') => (thread' \notin spent' /\ NotSpent(t)')
  <2>1. (~overlapped /\ ~unwritten) => thread \notin spent /\ q.used \notin spent
    BY <1>1, <1>2, <1>4 DEF NotSpent
  <2>2. ~unwritten' => ~unwritten
    BY <1>1
  <2>3. thread' = thread \/ thread' = q.used
    BY <1>1, <1>4
  <2> QED BY <1>1, <1>4, <2>1, <2>2, <2>3 DEF NotSpent
<1>12. /\ thread' \in ImTurns \cup {NoThread} /\ unwritten' \in BOOLEAN
       /\ (unwritten => unwritten') /\ session' # NoSession /\ q.used # NoThread
  BY <1>1, <1>2, <1>4, <1>6
<1>13. TurnMove(t, q)
  <2>1. /\ HasBegun(t) => q.pc \in {"persist", "status", "reply", "done"}
        /\ q.pc # "none" /\ q.pc \notin {"resolve", "create", "retry", "done"}
    BY <1>4
  <2>2. /\ session' \in ImTurns \cup {NoSession} /\ live' \subseteq ImTurns
        /\ spent' \subseteq ImTurns /\ (session # NoSession => session' = session)
        /\ slot' = slot /\ queue' = queue /\ overlapped' = overlapped /\ message' = message
    BY <1>1, <1>2
  <2> QED BY <1>1, <1>4, <1>7, <1>8, <1>9, <1>10, <1>11, <1>12, <2>1, <2>2 DEF TurnMove
<1> QED BY <1>4, <1>13, TurnMoves

LEMMA ReplyToUserKeeps ==
    ASSUME TurnsInv, NEW t \in ImTurns, ReplyToUser(t) PROVE TurnsInv'
<1>1. /\ InTurn(t) /\ turn[t].pc = "reply"
      /\ UNCHANGED <<slot, queue, overlapped, session, thread, unwritten, live, spent>>
      /\ turn' = [turn EXCEPT ![t] = [pc |-> "done", view |-> NoThread, used |-> NoThread]]
      /\ message' = [m \in Messages |-> IF m = t THEN "answered" ELSE message[m]]
  BY DEF ReplyToUser, InTurn, rowVars
<1>2. /\ turn \in [ImTurns -> TurnStates]
      /\ session \in ImTurns \cup {NoSession} /\ thread \in ImTurns \cup {NoThread}
      /\ live \subseteq ImTurns /\ spent \subseteq ImTurns /\ unwritten \in BOOLEAN
      /\ \A s \in spent : HasBegun(s)
      /\ thread # NoThread => HasBegun(thread)
      /\ session = NoSession => thread = NoThread
      /\ (~overlapped /\ ~unwritten) => thread \notin spent
  BY TurnFacts
<1>3. PICK q : q = [pc |-> "done", view |-> NoThread, used |-> NoThread]
  OBVIOUS
<1>4. /\ q \in TurnStates /\ q.pc = "done" /\ q.view = NoThread /\ q.used = NoThread
      /\ turn' = [turn EXCEPT ![t] = q] /\ turn'[t] = q
  BY <1>1, <1>2, <1>3 DEF TurnStates
<1>5. \A s \in ImTurns : HasBegun(s) => HasBegun(s)'
  BY <1>4, BegunStays
<1>6. /\ \A n \in spent' : HasBegun(n)'
      /\ thread' # NoThread => HasBegun(thread)'
  BY <1>1, <1>2, <1>5
<1>7. WorksInThread(t)' /\ NotSpent(t)'
  BY <1>4 DEF WorksInThread, NotSpent
<1>8. TurnMove(t, q)
  BY <1>1, <1>2, <1>4, <1>6, <1>7 DEF TurnMove
<1> QED BY <1>4, <1>8, TurnMoves

LEMMA TurnStepKeeps == ASSUME TurnsInv, NEW t \in ImTurns, TurnStep(t) PROVE TurnsInv'
<1>1. CASE RunTurnFails(t)
  <2>1. /\ InTurn(t) /\ Goto(t, "reply")
        /\ UNCHANGED <<slot, queue, message, overlapped, session, live, thread, unwritten, spent>>
    BY <1>1 DEF RunTurnFails, InTurn, dispatcherVars, rowVars
  <2> QED BY <2>1, GoesToReply
<1>2. CASE ReadStatus(t)
  <2>1. /\ InTurn(t) /\ Goto(t, "reply")
        /\ UNCHANGED <<slot, queue, message, overlapped, session, live, thread, unwritten, spent>>
    BY <1>2 DEF ReadStatus, InTurn, dispatcherVars, rowVars
  <2> QED BY <2>1, GoesToReply
<1>3. CASE ContextExceeded(t)
  <2>1. /\ InTurn(t) /\ Goto(t, "reply") /\ turn[t].pc = "status" /\ SetThread(NoThread)
        /\ UNCHANGED <<slot, queue, message, overlapped, session, live>>
        /\ spent' = spent \cup {turn[t].used}
    BY <1>3 DEF ContextExceeded, InTurn, dispatcherVars
  <2> QED BY <2>1, GoesToReply
<1>4. CASE NotFoundInTurn(t)
  <2>1. /\ InTurn(t) /\ Goto(t, "reply") /\ turn[t].pc = "status" /\ SetThread(NoThread)
        /\ UNCHANGED <<slot, queue, message, overlapped, session, live, spent>>
    BY <1>4 DEF NotFoundInTurn, InTurn, dispatcherVars
  <2> QED BY <2>1, GoesToReply
<1> QED BY <1>1, <1>2, <1>3, <1>4, ResolveSessionKeeps, CreateSessionKeeps, RunTurnKeeps,
           ThreadNotFoundKeeps, PersistThreadKeeps, ReplyToUserKeeps DEF TurnStep

MessageStates == [Messages -> {"none", "sending", "queued", "dropped", "turn", "answered"}]

\* What the dispatcher does without beginning a turn, and the loss of threads.
LEMMA DispatchKeeps ==
    ASSUME TurnsInv, turn' = turn, session' = session, thread' = thread, spent' = spent,
           overlapped' = overlapped, unwritten' = unwritten, live' \in {live, {}},
           slot' \in BOOLEAN, queue' \in Seq(Messages), Len(queue') <= QueueCap,
           message' \in MessageStates, QueuedOnce'
    PROVE  TurnsInv'
<1>1. ImTypeOK'
  <2>1. live' \subseteq ImTurns
    BY DEF TurnsInv, ImTypeOK
  <2> QED BY <2>1 DEF TurnsInv, ImTypeOK, MessageStates
<1>2. OneTurnPerUser' /\ NamesBegun' /\ ViewsFollow'
  BY DEF TurnsInv, OneTurnPerUser, NamesBegun, ViewsFollow, InTurn, HasBegun
<1>3. ~overlapped' => TurnAlone' /\ \A t \in ImTurns : WorksInThread(t)'
  <2> SUFFICES ASSUME ~overlapped PROVE TurnAlone' /\ \A t \in ImTurns : WorksInThread(t)'
    OBVIOUS
  <2>1. TurnAlone /\ \A t \in ImTurns : WorksInThread(t)
    BY DEF TurnsInv
  <2>2. TurnAlone'
    BY <2>1 DEF TurnAlone, InTurn
  <2>3. ThreadGone => ThreadGone'
    BY DEF ThreadGone
  <2>4. ASSUME NEW t \in ImTurns PROVE WorksInThread(t)'
    BY <2>1, <2>3 DEF WorksInThread
  <2> QED BY <2>2, <2>4
<1>4. (~overlapped' /\ ~unwritten') => (thread' \notin spent' /\ \A t \in ImTurns : NotSpent(t)')
  BY DEF TurnsInv, NotSpent
<1> QED BY <1>1, <1>2, <1>3, <1>4 DEF TurnsInv

\* A turn that begins.
LEMMA BeginKeeps ==
    ASSUME TurnsInv, NEW t \in ImTurns, turn[t].pc = "none", Begin(t),
           t \in Messages => ~WorkerBusy,
           session' = session, thread' = thread, spent' = spent, unwritten' = unwritten,
           live' = live, slot' = slot, queue' \in Seq(Messages), Len(queue') <= QueueCap,
           message' \in MessageStates, QueuedOnce'
    PROVE  TurnsInv'
<1>1. /\ turn' = [turn EXCEPT ![t].pc = "resolve"]
      /\ overlapped' = (overlapped \/ \E u \in ImTurns : InTurn(u))
  BY DEF Begin
<1>2. /\ turn \in [ImTurns -> TurnStates] /\ turn[t] \in TurnStates
      /\ overlapped \in BOOLEAN
  BY TurnFacts DEF TurnsInv, ImTypeOK
<1>3. PICK q : q = [turn[t] EXCEPT !.pc = "resolve"]
  OBVIOUS
<1>4. /\ q \in TurnStates /\ q.pc = "resolve" /\ q.view = turn[t].view /\ q.used = turn[t].used
      /\ turn' = [turn EXCEPT ![t] = q]
  BY <1>1, <1>2, <1>3 DEF TurnStates
<1>5. /\ turn' \in [ImTurns -> TurnStates] /\ turn'[t] = q
      /\ \A s \in ImTurns \ {t} : turn'[s] = turn[s]
  BY <1>2, <1>4
<1>6. ImTypeOK'
  <2>1. overlapped' \in BOOLEAN
    BY <1>1, <1>2
  <2>2. slot' \in BOOLEAN /\ session' \in ImTurns \cup {NoSession}
        /\ thread' \in ImTurns \cup {NoThread} /\ live' \subseteq ImTurns
        /\ spent' \subseteq ImTurns /\ unwritten' \in BOOLEAN
    BY DEF TurnsInv, ImTypeOK
  <2> QED BY <1>5, <2>1, <2>2 DEF ImTypeOK, MessageStates, TurnStates
<1>7. OneTurnPerUser'
  <2>1. ASSUME NEW m \in Messages, NEW n \in Messages, InTurn(m)', InTurn(n)' PROVE m = n
    <3>1. m # t => InTurn(m)
      BY <1>5, <2>1 DEF InTurn, ImTurns
    <3>2. n # t => InTurn(n)
      BY <1>5, <2>1 DEF InTurn, ImTurns
    <3>3. CASE t \in Messages
      BY <2>1, <3>1, <3>2, <3>3 DEF WorkerBusy
    <3>4. CASE t \notin Messages
      BY <2>1, <3>1, <3>2, <3>4 DEF TurnsInv, OneTurnPerUser
    <3> QED BY <3>3, <3>4
  <2> QED BY <2>1 DEF OneTurnPerUser
<1>8. ~HasBegun(t)
  BY DEF HasBegun
<1>9. \A s \in ImTurns : HasBegun(s) => HasBegun(s)'
  BY <1>4, <1>8, BegunStays
<1>10. NamesBegun'
  <2>1. ASSUME NEW s \in ImTurns
        PROVE  /\ turn'[s].view # NoThread => HasBegun(turn[s].view)'
               /\ turn'[s].used # NoThread => HasBegun(turn[s].used)'
    <3>1. /\ turn[s].view # NoThread => HasBegun(turn[s].view)
          /\ turn[s].used # NoThread => HasBegun(turn[s].used)
      BY DEF TurnsInv, NamesBegun
    <3>2. turn[s].view \in ImTurns \cup {NoThread} /\ turn[s].used \in ImTurns \cup {NoThread}
      BY <1>2 DEF TurnStates
    <3>3. turn'[s].view = turn[s].view /\ turn'[s].used = turn[s].used
      BY <1>4, <1>5
    <3> QED BY <1>9, <3>1, <3>2, <3>3 DEF HasBegun
  <2>2. \A n \in spent' : HasBegun(n)'
    <3>1. spent \subseteq ImTurns /\ \A n \in spent : HasBegun(n)
      BY TurnFacts
    <3> QED BY <1>9, <3>1
  <2>3. thread' # NoThread => HasBegun(thread)'
    <3>1. thread \in ImTurns \cup {NoThread} /\ (thread # NoThread => HasBegun(thread))
      BY TurnFacts
    <3> QED BY <1>9, <3>1 DEF HasBegun
  <2> QED BY <2>1, <2>2, <2>3 DEF NamesBegun
<1>11. ViewsFollow'
  <2>1. turn[t].view = NoThread
    BY TurnFacts
  <2>2. \A s \in ImTurns :
          /\ turn[s].pc \in {"none", "resolve", "create", "retry", "done"}
                => turn[s].view = NoThread
          /\ turn[s].pc \in {"run", "retry", "persist", "status"} => session # NoSession
          /\ turn[s].pc \in {"persist", "status"} => turn[s].used # NoThread
    BY DEF TurnsInv, ViewsFollow
  <2>3. session' = NoSession => thread' = NoThread
    BY DEF TurnsInv, ViewsFollow
  <2> QED BY <1>4, <1>5, <2>1, <2>2, <2>3 DEF ViewsFollow
<1>12. ASSUME ~overlapped' PROVE TurnAlone' /\ \A s \in ImTurns : WorksInThread(s)'
  <2>1. \A s \in ImTurns : ~InTurn(s)
    BY <1>1, <1>12
  <2>2. \A s \in ImTurns \ {t} : turn'[s].pc \in {"none", "done"}
    BY <1>5, <2>1 DEF InTurn
  <2>3. TurnAlone'
    BY <2>2 DEF TurnAlone, InTurn
  <2>4. ASSUME NEW s \in ImTurns PROVE WorksInThread(s)'
    BY <1>4, <1>5, <2>2 DEF WorksInThread
  <2> QED BY <2>3, <2>4
<1>13. ASSUME ~overlapped', ~unwritten'
       PROVE  thread' \notin spent' /\ \A s \in ImTurns : NotSpent(s)'
  <2>1. \A s \in ImTurns : ~InTurn(s)
    BY <1>1, <1>13
  <2>2. \A s \in ImTurns \ {t} : turn'[s].pc \in {"none", "done"}
    BY <1>5, <2>1 DEF InTurn
  <2>3. thread \notin spent
    BY <1>1, <1>13, TurnFacts
  <2>4. ASSUME NEW s \in ImTurns PROVE NotSpent(s)'
    BY <1>4, <1>5, <2>2 DEF NotSpent
  <2> QED BY <2>3, <2>4
<1> QED BY <1>6, <1>7, <1>10, <1>11, <1>12, <1>13 DEF TurnsInv

\* The queue without its oldest entry.
LEMMA QueueTail ==
    ASSUME TurnsInv, queue # << >>
    PROVE  /\ Head(queue) \in Messages /\ message[Head(queue)] = "queued"
           /\ Tail(queue) \in Seq(Messages) /\ Len(Tail(queue)) = Len(queue) - 1
           /\ Len(queue) \in Nat
           /\ \A i \in 1..Len(Tail(queue)) :
                 /\ i + 1 \in 1..Len(queue) /\ Tail(queue)[i] = queue[i + 1]
                 /\ Tail(queue)[i] # Head(queue)
                 /\ message[Tail(queue)[i]] = "queued" /\ Tail(queue)[i] \in Messages
           /\ \A i, j \in 1..Len(Tail(queue)) : Tail(queue)[i] = Tail(queue)[j] => i = j
<1>1. /\ queue \in Seq(Messages)
      /\ \A i, j \in 1..Len(queue) : queue[i] = queue[j] => i = j
      /\ \A i \in 1..Len(queue) : message[queue[i]] = "queued"
  BY DEF TurnsInv, ImTypeOK, QueuedOnce
<1>2. /\ Head(queue) = queue[1] /\ Tail(queue) \in Seq(Messages)
      /\ Len(Tail(queue)) = Len(queue) - 1 /\ Len(queue) \in Nat /\ Len(queue) >= 1
      /\ \A i \in 1..Len(Tail(queue)) : Tail(queue)[i] = queue[i + 1]
  BY <1>1
<1>3. 1 \in 1..Len(queue)
  BY <1>2
<1>4. \A i \in 1..Len(Tail(queue)) : i + 1 \in 1..Len(queue) /\ i + 1 # 1
  BY <1>2
<1>5. queue[1] \in Messages /\ \A i \in 1..Len(queue) : queue[i] \in Messages
  BY <1>1, <1>3
<1> QED BY <1>1, <1>2, <1>3, <1>4, <1>5

LEMMA TurnsInvStep == TurnsInv /\ [ImNext]_imVars => TurnsInv'
<1> SUFFICES ASSUME TurnsInv, [ImNext]_imVars PROVE TurnsInv'
  OBVIOUS
<1>1. /\ queue \in Seq(Messages) /\ Len(queue) <= QueueCap /\ QueueCap \in Nat \ {0}
      /\ message \in MessageStates /\ slot \in BOOLEAN
      /\ \A i, j \in 1..Len(queue) : queue[i] = queue[j] => i = j
      /\ \A i \in 1..Len(queue) : message[queue[i]] = "queued" /\ queue[i] \in Messages
      /\ \A m \in Messages : message[m] \in {"none", "sending", "queued", "dropped"}
                              => turn[m].pc = "none"
  BY ImCodexAssumption DEF TurnsInv, ImTypeOK, QueuedOnce, MessageStates
<1>2. ASSUME NEW m \in Messages, Enqueue(m) PROVE TurnsInv'
  <2>1. /\ message[m] = "none" /\ slot' = TRUE
        /\ UNCHANGED <<turn, session, thread, unwritten, live, spent, overlapped>>
    BY <1>2 DEF Enqueue, rowVars
  <2>2. CASE slot
    <3>1. message' = [message EXCEPT ![m] = "sending"] /\ queue' = queue
      BY <1>2, <2>2 DEF Enqueue
    <3>2. message' \in MessageStates
      BY <1>1, <3>1 DEF MessageStates
    <3>3. \A n \in Messages : message'[n] = IF n = m THEN "sending" ELSE message[n]
      BY <1>1, <3>1 DEF MessageStates
    <3>4. QueuedOnce'
      BY <1>1, <2>1, <3>1, <3>3 DEF QueuedOnce
    <3> QED BY <1>1, <2>1, <3>1, <3>2, <3>4, DispatchKeeps
  <2>3. CASE ~slot
    <3>1. message' = [message EXCEPT ![m] = "queued"] /\ queue' = <<m>>
      BY <1>2, <2>3 DEF Enqueue
    <3>2. message' \in MessageStates
      BY <1>1, <3>1 DEF MessageStates
    <3>3. \A n \in Messages : message'[n] = IF n = m THEN "queued" ELSE message[n]
      BY <1>1, <3>1 DEF MessageStates
    <3>4. queue' \in Seq(Messages) /\ Len(queue') = 1 /\ queue'[1] = m
      BY <3>1
    <3>5. QueuedOnce'
      BY <1>1, <2>1, <3>3, <3>4 DEF QueuedOnce
    <3>6. Len(queue') <= QueueCap
      BY <1>1, <3>4
    <3> QED BY <2>1, <3>2, <3>4, <3>5, <3>6, DispatchKeeps
  <2> QED BY <2>2, <2>3
<1>3. ASSUME NEW m \in Messages, SendToSlot(m) PROVE TurnsInv'
  <2>1. /\ message[m] = "sending" /\ Len(queue) < QueueCap
        /\ queue' = Append(queue, m) /\ message' = [message EXCEPT ![m] = "queued"]
        /\ UNCHANGED <<slot, turn, session, thread, unwritten, live, spent, overlapped>>
    BY <1>3 DEF SendToSlot, rowVars
  <2>2. message' \in MessageStates
    BY <1>1, <2>1 DEF MessageStates
  <2>3. \A n \in Messages : message'[n] = IF n = m THEN "queued" ELSE message[n]
    BY <1>1, <2>1 DEF MessageStates
  <2>4. /\ queue' \in Seq(Messages) /\ Len(queue') = Len(queue) + 1
        /\ queue'[Len(queue) + 1] = m /\ Len(queue) \in Nat
        /\ \A i \in 1..Len(queue) : queue'[i] = queue[i]
    BY <1>1, <2>1
  <2>5. \A i \in 1..Len(queue) : queue[i] # m
    BY <1>1, <2>1
  <2>6. \A i \in 1..Len(queue') : i \in 1..Len(queue) \/ i = Len(queue) + 1
    BY <2>4
  <2>7. QueuedOnce'
    <3>1. \A i, j \in 1..Len(queue') : queue'[i] = queue'[j] => i = j
      BY <1>1, <2>4, <2>5, <2>6
    <3>2. \A i \in 1..Len(queue') : message'[queue'[i]] = "queued"
      BY <1>1, <2>3, <2>4, <2>6
    <3>3. \A n \in Messages : message'[n] \in {"none", "sending", "queued", "dropped"}
                              => turn'[n].pc = "none"
      BY <1>1, <2>1, <2>3
    <3> QED BY <3>1, <3>2, <3>3 DEF QueuedOnce
  <2>8. Len(queue') <= QueueCap
    BY <1>1, <2>1, <2>4
  <2> QED BY <1>1, <2>1, <2>2, <2>4, <2>7, <2>8, DispatchKeeps
<1>4. ASSUME queue # << >>, NEW s \in {"dropped", "turn"}, queue' = Tail(queue),
             message' = [message EXCEPT ![Head(queue)] = s]
      PROVE  /\ message' \in MessageStates /\ queue' \in Seq(Messages) /\ Len(queue') <= QueueCap
             /\ \A i, j \in 1..Len(queue') : queue'[i] = queue'[j] => i = j
             /\ \A i \in 1..Len(queue') : message'[queue'[i]] = "queued"
             /\ \A n \in Messages \ {Head(queue)} : message'[n] = message[n]
             /\ message'[Head(queue)] = s
             /\ Head(queue) \in Messages /\ turn[Head(queue)].pc = "none"
  <2> DEFINE h == Head(queue)
  <2>1. /\ h \in Messages /\ message[h] = "queued" /\ queue' \in Seq(Messages)
        /\ Len(queue') = Len(queue) - 1 /\ Len(queue) \in Nat
        /\ \A i \in 1..Len(queue') : /\ queue'[i] # h /\ queue'[i] \in Messages
                                     /\ message[queue'[i]] = "queued"
        /\ \A i, j \in 1..Len(queue') : queue'[i] = queue'[j] => i = j
    BY <1>4, QueueTail
  <2>2. message' = [message EXCEPT ![h] = s]
    BY <1>4
  <2> HIDE DEF h
  <2>3. /\ message' \in MessageStates /\ message'[h] = s
        /\ \A n \in Messages \ {h} : message'[n] = message[n]
    BY <1>1, <2>1, <2>2 DEF MessageStates
  <2>4. Len(queue') <= QueueCap
    BY <1>1, <2>1
  <2>5. turn[h].pc = "none"
    BY <1>1, <2>1
  <2>6. \A i \in 1..Len(queue') : message'[queue'[i]] = "queued"
    BY <2>1, <2>3
  <2> USE DEF h
  <2> QED BY ONLY <2>1, <2>3, <2>4, <2>5, <2>6
<1>5. ASSUME NEW m \in Messages, DropOldest(m) PROVE TurnsInv'
  <2>1. /\ queue # << >> /\ queue' = Tail(queue)
        /\ message' = [message EXCEPT ![Head(queue)] = "dropped"]
        /\ UNCHANGED <<slot, turn, session, thread, unwritten, live, spent, overlapped>>
    <3>1. Len(queue) = QueueCap
      BY <1>5 DEF DropOldest
    <3> QED BY <1>1, <1>5, <3>1 DEF DropOldest, rowVars
  <2>2. /\ message' \in MessageStates /\ queue' \in Seq(Messages) /\ Len(queue') <= QueueCap
        /\ \A i, j \in 1..Len(queue') : queue'[i] = queue'[j] => i = j
        /\ \A i \in 1..Len(queue') : message'[queue'[i]] = "queued"
        /\ \A n \in Messages \ {Head(queue)} : message'[n] = message[n]
        /\ turn[Head(queue)].pc = "none"
    BY <1>4, <2>1
  <2>3. QueuedOnce'
    BY <1>1, <2>1, <2>2 DEF QueuedOnce
  <2> QED BY <1>1, <2>1, <2>2, <2>3, DispatchKeeps
<1>6. CASE Dequeue
  <2>1. /\ queue # << >> /\ ~WorkerBusy /\ queue' = Tail(queue)
        /\ message' = [message EXCEPT ![Head(queue)] = "turn"] /\ Begin(Head(queue))
        /\ UNCHANGED <<slot, session, thread, unwritten, live, spent>>
    BY <1>6 DEF Dequeue, rowVars
  <2>2. /\ message' \in MessageStates /\ queue' \in Seq(Messages) /\ Len(queue') <= QueueCap
        /\ \A i, j \in 1..Len(queue') : queue'[i] = queue'[j] => i = j
        /\ \A i \in 1..Len(queue') : message'[queue'[i]] = "queued"
        /\ \A n \in Messages \ {Head(queue)} : message'[n] = message[n]
        /\ message'[Head(queue)] = "turn"
        /\ Head(queue) \in Messages /\ turn[Head(queue)].pc = "none"
    BY <1>4, <2>1
  <2>3. PICK h \in Messages : h = Head(queue)
    BY <2>2
  <2>4. Begin(h) /\ turn[h].pc = "none" /\ h \in ImTurns
    BY <2>1, <2>2, <2>3 DEF ImTurns
  <2>5. \A n \in Messages \ {h} : turn'[n] = turn[n]
    <3>1. turn \in [ImTurns -> TurnStates]
      BY <2>4, TurnFacts
    <3> QED BY <2>4, <3>1 DEF Begin, ImTurns
  <2>6. \A n \in Messages : message'[n] \in {"none", "sending", "queued", "dropped"}
                              => turn'[n].pc = "none"
    BY <1>1, <2>2, <2>3, <2>5
  <2>7. QueuedOnce'
    BY <2>2, <2>6 DEF QueuedOnce
  <2> QED BY <2>1, <2>2, <2>4, <2>7, BeginKeeps
<1>7. ASSUME NEW t \in Runs, AutomationTurn(t) PROVE TurnsInv'
  <2>1. /\ turn[t].pc = "none" /\ Begin(t) /\ t \in ImTurns /\ t \notin Messages
        /\ UNCHANGED <<slot, queue, message, session, thread, unwritten, live, spent>>
    BY <1>7, ImCodexAssumption DEF AutomationTurn, dispatcherVars, rowVars, ImTurns
  <2>2. \A n \in Messages : turn'[n] = turn[n]
    <3>1. turn \in [ImTurns -> TurnStates]
      BY <2>1, TurnFacts
    <3> QED BY <2>1, <3>1 DEF Begin, ImTurns
  <2>3. QueuedOnce'
    BY <1>1, <2>1, <2>2 DEF QueuedOnce
  <2> QED BY <1>1, <2>1, <2>3, BeginKeeps
<1>8. CASE ThreadsLost
  <2>1. /\ UNCHANGED <<slot, queue, message, turn, session, thread, unwritten, spent, overlapped>>
        /\ live' = {}
    BY <1>8 DEF ThreadsLost, dispatcherVars, rowVars
  <2>2. QueuedOnce'
    BY <1>1, <2>1 DEF QueuedOnce
  <2> QED BY <1>1, <2>1, <2>2, DispatchKeeps
<1>9. CASE UNCHANGED imVars
  <2>1. UNCHANGED <<slot, queue, message, turn, session, thread, unwritten, live, spent,
                    overlapped>>
    BY <1>9 DEF imVars
  <2>2. QueuedOnce'
    BY <1>1, <2>1 DEF QueuedOnce
  <2> QED BY <1>1, <2>1, <2>2, DispatchKeeps
<1> QED BY <1>2, <1>3, <1>5, <1>6, <1>7, <1>8, <1>9, TurnStepKeeps DEF ImNext

LEMMA TurnsInvSound == TurnsInv => ImTypeOK /\ TurnsSound
<1> SUFFICES ASSUME TurnsInv PROVE SpentIsLeft
  BY DEF TurnsInv, TurnsSound
<1> QED BY TurnFacts DEF SpentIsLeft

\* Of the messages of a user one is worked on at a time, and the session does not
\* go on naming a thread that a turn has found full, for any number of messages
\* and automations (codexDispatcher, runTurnSync).
THEOREM TurnsAlwaysSound == ImSpec => [](ImTypeOK /\ TurnsSound)
  BY TurnsInitInv, TurnsInvStep, TurnsInvSound, PTL DEF ImSpec

\* The thread of a row changes where it was lost or is full, or where turns overlap.
LEMMA ThreadChanges ==
    ASSUME TurnsInv, [ImNext]_imVars, thread' # thread, thread # NoThread
    PROVE  thread \notin live \/ thread \in spent' \/ overlapped
<1>1. PICK t \in ImTurns : ThreadNotFound(t) \/ PersistThread(t) \/ ContextExceeded(t)
                           \/ NotFoundInTurn(t)
  <2>1. \A m \in Messages : ~Enqueue(m) /\ ~SendToSlot(m) /\ ~DropOldest(m)
    BY DEF Enqueue, SendToSlot, DropOldest, rowVars
  <2>2. ~Dequeue /\ ~ThreadsLost /\ ~UNCHANGED imVars /\ \A t \in Runs : ~AutomationTurn(t)
    BY DEF Dequeue, ThreadsLost, AutomationTurn, rowVars, imVars
  <2>3. PICK t \in ImTurns : TurnStep(t)
    BY <2>1, <2>2 DEF ImNext
  <2>4. ~ResolveSession(t) /\ ~CreateSession(t) /\ ~RunTurn(t) /\ ~RunTurnFails(t)
        /\ ~ReadStatus(t) /\ ~ReplyToUser(t)
    BY DEF ResolveSession, CreateSession, RunTurn, RunTurnFails, ReadStatus, ReplyToUser, rowVars
  <2> QED BY <2>3, <2>4 DEF TurnStep
<1> SUFFICES ASSUME ~overlapped PROVE thread \notin live \/ thread \in spent'
  OBVIOUS
<1>2. WorksInThread(t)
  BY TurnFacts
<1>3. CASE ThreadNotFound(t)
  BY <1>2, <1>3 DEF ThreadNotFound, WorksInThread
<1>4. CASE PersistThread(t)
  <2>1. turn[t].pc = "persist" /\ turn[t].used # turn[t].view
    BY <1>4 DEF PersistThread
  <2> QED BY <1>2, <2>1 DEF WorksInThread, ThreadGone
<1>5. CASE ContextExceeded(t)
  BY <1>2, <1>5 DEF ContextExceeded, WorksInThread, ThreadGone
<1>6. CASE NotFoundInTurn(t)
  BY <1>2, <1>6 DEF NotFoundInTurn, WorksInThread, ThreadGone
<1> QED BY <1>1, <1>3, <1>4, <1>5, <1>6

\* The conversation is not cut: as long as turns do not overlap, the session leaves
\* a thread only when Codex has lost it or its context is full (SetSessionCodexThreadID).
THEOREM ThreadAlwaysKept == ImSpec => ThreadKept
<1>1. TurnsInv /\ [ImNext]_imVars =>
        [thread' # thread /\ thread # NoThread
           => thread \notin live \/ thread \in spent' \/ overlapped]_imVars
  BY ThreadChanges
<1> QED BY <1>1, TurnsInitInv, TurnsInvStep, PTL DEF ImSpec, ThreadKept

-----------------------------------------------------------------------------
(* The poll loops of a channel *)

LoopStates ==
    [pc : {"ended", "poll", "advance", "forward"}, cancelled : BOOLEAN,
     cursor : 0..MaxMessages, next : 0..MaxMessages, to : 0..MaxMessages]

\* A loop that may still hand on messages.
Alive(q) == q.pc # "ended" /\ ~q.cancelled

\* A loop that hands on nothing up to the m-th message any more.
Beyond(q, m) ==
    /\ q.pc \in {"poll", "advance"} => m <= q.cursor
    /\ q.pc = "forward" => m < q.next

LoopKnown(q, highest) ==
    /\ q.pc = "advance" => q.cursor < q.to
    /\ q.pc = "forward" => q.next \in 1..q.to /\ q.to <= highest /\ q.cursor = q.to

\* A message was handed on once, and what lives lies behind it.
HandedKnown(m) ==
    /\ handed[m] <= 1
    /\ handed[m] = 1 => m <= top /\ \A l \in Loops : Alive(loop[l]) => Beyond(loop[l], m)

\* One loop lives that was not cancelled, the poller; a message that was handed on
\* and not rewound lies behind it.
BridgeInv ==
    /\ BridgeTypeOK /\ top \in 0..MaxMessages
    /\ \A l \in Loops : Alive(loop[l]) => poller = l
    /\ poller # NoLoop => Alive(loop[poller])
    /\ \A l \in Loops : LoopKnown(loop[l], top)
    /\ \A m \in Numbers \ rewound : HandedKnown(m)

\* Where a loop starts.
LEMMA Started ==
    ASSUME NEW from \in 0..MaxMessages, NEW c \in BOOLEAN
    PROVE  /\ NoPollLoop \in LoopStates /\ NoPollLoop.pc = "ended"
           /\ [NoPollLoop EXCEPT !.pc = "poll", !.cursor = from] \in LoopStates
           /\ [NoPollLoop EXCEPT !.pc = "poll", !.cursor = from].pc = "poll"
           /\ [NoPollLoop EXCEPT !.pc = "poll", !.cursor = from].cancelled = FALSE
           /\ [NoPollLoop EXCEPT !.pc = "poll", !.cursor = from].cursor = from
           /\ [NoPollLoop EXCEPT !.pc = "poll", !.cancelled = c, !.cursor = from] \in LoopStates
           /\ [NoPollLoop EXCEPT !.pc = "poll", !.cancelled = c, !.cursor = from].pc = "poll"
           /\ [NoPollLoop EXCEPT !.pc = "poll", !.cancelled = c, !.cursor = from].cancelled = c
           /\ [NoPollLoop EXCEPT !.pc = "poll", !.cancelled = c, !.cursor = from].cursor = from
<1>1. NoPollLoop \in LoopStates /\ NoPollLoop.pc = "ended" /\ NoPollLoop.cancelled = FALSE
  BY BridgeAssumption DEF NoPollLoop, LoopStates
<1> QED BY <1>1 DEF LoopStates

\* A loop goes on by itself.
LEMMA LoopStep ==
    ASSUME BridgeInv, NEW l \in Loops, NEW q \in LoopStates,
           loop' = [loop EXCEPT ![l] = q],
           loop[l].pc # "ended", q.pc # "ended" => q.cancelled = loop[l].cancelled,
           q.pc = "ended" => loop[l].cancelled /\ poller # l,
           LoopKnown(q, top'),
           top' \in 0..MaxMessages, top <= top',
           channel' \in [here : {"new", "yes", "gone"}, token : BOOLEAN, cursor : 0..MaxMessages],
           handed' \in [Numbers -> 0..2],
           \A m \in Numbers \ rewound :
              HandedKnown(m) =>
                 /\ handed'[m] <= 1
                 /\ handed'[m] = 1 => m <= top' /\ (Alive(q) => Beyond(q, m)),
           Alive(loop[l]) \/ handed' = handed,
           UNCHANGED <<arrived, poller, channelRequest, rewound>>
    PROVE  BridgeInv'
<1>1. /\ loop \in [Loops -> LoopStates] /\ loop' \in [Loops -> LoopStates] /\ loop'[l] = q
      /\ \A k \in Loops : k # l => loop'[k] = loop[k]
  BY DEF BridgeInv, BridgeTypeOK, LoopStates
<1>2. BridgeTypeOK'
  BY <1>1 DEF BridgeInv, BridgeTypeOK, LoopStates
<1>3. \A k \in Loops : Alive(loop'[k]) => poller = k
  <2>1. Alive(q) => Alive(loop[l])
    BY DEF Alive
  <2> QED BY <1>1, <2>1 DEF BridgeInv
<1>4. poller # NoLoop => Alive(loop'[poller])
  BY <1>1 DEF BridgeInv, BridgeTypeOK, Alive
<1>5. \A k \in Loops : LoopKnown(loop'[k], top')
  <2>1. ASSUME NEW k \in Loops, k # l PROVE LoopKnown(loop'[k], top')
    <3>1. /\ loop'[k] = loop[k] /\ LoopKnown(loop[k], top) /\ loop[k] \in LoopStates
          /\ top \in 0..MaxMessages
      BY <1>1, <2>1 DEF BridgeInv
    <3>2. loop[k].to \in Nat /\ top \in Nat /\ top' \in Nat
      BY <3>1 DEF LoopStates
    <3> QED BY <3>1, <3>2 DEF LoopKnown
  <2> QED BY <1>1, <2>1
<1>6. ASSUME NEW m \in Numbers \ rewound PROVE HandedKnown(m)'
  <2>1. HandedKnown(m)
    BY DEF BridgeInv
  <2>2. /\ handed'[m] <= 1
        /\ handed'[m] = 1 => m <= top' /\ (Alive(q) => Beyond(q, m))
    BY <2>1
  <2>3. ASSUME handed'[m] = 1, NEW k \in Loops, k # l, Alive(loop'[k])
        PROVE  Beyond(loop'[k], m)
    <3>1. loop'[k] = loop[k] /\ poller = k /\ ~Alive(loop[l])
      BY <1>1, <2>3 DEF BridgeInv
    <3>2. handed[m] = 1
      BY <2>3, <3>1
    <3> QED BY <2>1, <2>3, <3>1, <3>2 DEF HandedKnown
  <2> QED BY <1>1, <2>2, <2>3 DEF HandedKnown
<1> QED BY <1>2, <1>3, <1>4, <1>5, <1>6 DEF BridgeInv

LEMMA LoopSteps ==
    ASSUME BridgeInv, NEW l \in Loops,
           LoopEnds(l) \/ PollProvider(l) \/ AdvanceCursor(l) \/ ForwardMessage(l)
    PROVE  BridgeInv'
<1> DEFINE old == loop[l]
<1>1. /\ old \in LoopStates /\ LoopKnown(old, top) /\ top \in 0..MaxMessages
      /\ arrived \in 0..MaxMessages /\ MaxMessages \in Nat
      /\ handed \in [Numbers -> 0..2]
      /\ channel \in [here : {"new", "yes", "gone"}, token : BOOLEAN, cursor : 0..MaxMessages]
  BY BridgeAssumption DEF BridgeInv, BridgeTypeOK, LoopStates
<1>2. \A m \in Numbers \ rewound : HandedKnown(m) =>
        /\ handed[m] <= 1
        /\ handed[m] = 1 => m <= top /\ (Alive(old) => Beyond(old, m))
  BY DEF HandedKnown
<1>3. poller = l => Alive(old)
  BY BridgeAssumption DEF BridgeInv
<1>4. loop[l] = old
  OBVIOUS
<1> HIDE DEF old
<1>5. CASE LoopEnds(l)
  <2>1. /\ old.pc = "poll" /\ old.cancelled /\ loop' = [loop EXCEPT ![l] = NoPollLoop]
        /\ UNCHANGED <<channel, arrived, poller, channelRequest, handed, top, rewound>>
    BY <1>5 DEF LoopEnds, old
  <2>2. /\ NoPollLoop \in LoopStates /\ NoPollLoop.pc = "ended"
    BY <1>1 DEF NoPollLoop, LoopStates
  <2>3. LoopKnown(NoPollLoop, top') /\ ~Alive(NoPollLoop) /\ poller # l
    BY <1>3, <2>1, <2>2 DEF LoopKnown, Alive
  <2>4. /\ handed' = handed /\ top' = top /\ channel' = channel /\ top <= top
        /\ loop[l].pc # "ended" /\ loop[l].cancelled
    BY <1>1, <1>4, <2>1
  <2>5. ASSUME NEW m \in Numbers \ rewound, HandedKnown(m)
        PROVE  /\ handed'[m] <= 1
               /\ handed'[m] = 1 => m <= top' /\ (Alive(NoPollLoop) => Beyond(NoPollLoop, m))
    BY <1>2, <2>3, <2>4, <2>5
  <2> QED BY <1>1, <2>1, <2>2, <2>3, <2>4, <2>5, LoopStep
<1>6. CASE PollProvider(l)
  <2>1. PICK to \in old.cursor + 1 .. arrived :
          loop' = [loop EXCEPT ![l].pc = "advance", ![l].to = to]
    BY <1>6 DEF PollProvider, old
  <2>2. /\ old.pc = "poll"
        /\ UNCHANGED <<channel, arrived, poller, channelRequest, handed, top, rewound>>
    BY <1>6 DEF PollProvider, old
  <2> DEFINE q == [old EXCEPT !.pc = "advance", !.to = to]
  <2>3. loop' = [loop EXCEPT ![l] = q]
    BY <2>1 DEF old
  <2>4. old.cursor \in 0..MaxMessages
    BY <1>1 DEF LoopStates
  <2>5. to \in 0..MaxMessages /\ old.cursor < to
    BY <1>1, <2>4
  <2>6. /\ q \in LoopStates /\ q.pc = "advance" /\ q.cancelled = old.cancelled
        /\ q.cursor = old.cursor /\ q.to = to
    BY <1>1, <2>5 DEF LoopStates
  <2> HIDE DEF q
  <2>7. LoopKnown(q, top')
    BY <2>5, <2>6 DEF LoopKnown
  <2>8. \A m : Alive(q) /\ (Alive(old) => Beyond(old, m)) => Beyond(q, m)
    BY <2>2, <2>6 DEF Alive, Beyond
  <2>9. /\ handed' = handed /\ top' = top /\ channel' = channel /\ top <= top
        /\ loop[l].pc # "ended" /\ q.cancelled = loop[l].cancelled
    BY <1>1, <1>4, <2>2, <2>6
  <2>10. ASSUME NEW m \in Numbers \ rewound, HandedKnown(m)
         PROVE  /\ handed'[m] <= 1
                /\ handed'[m] = 1 => m <= top' /\ (Alive(q) => Beyond(q, m))
    BY <1>2, <2>8, <2>9, <2>10
  <2> QED BY <1>1, <2>2, <2>3, <2>6, <2>7, <2>9, <2>10, LoopStep
<1>7. CASE AdvanceCursor(l)
  <2> DEFINE q == [old EXCEPT !.pc = "forward", !.cursor = old.to, !.next = old.cursor + 1]
  <2>1. /\ old.pc = "advance" /\ loop' = [loop EXCEPT ![l] = q]
        /\ top' = IF old.to > top THEN old.to ELSE top
        /\ UNCHANGED <<arrived, poller, channelRequest, handed, rewound>>
        /\ channel' = [channel EXCEPT !.cursor = old.to] \/ channel' = channel
    BY <1>7 DEF AdvanceCursor, old
  <2>2. /\ old.cursor \in 0..MaxMessages /\ old.to \in 0..MaxMessages /\ old.cursor < old.to
    BY <1>1, <2>1 DEF LoopStates, LoopKnown
  <2>3. /\ q \in LoopStates /\ q.pc = "forward" /\ q.cancelled = old.cancelled
        /\ q.cursor = old.to /\ q.to = old.to /\ q.next = old.cursor + 1
    <3>1. old.cursor + 1 \in 0..MaxMessages
      BY <1>1, <2>2
    <3> QED BY <1>1, <2>2, <3>1 DEF LoopStates
  <2>4. channel' \in [here : {"new", "yes", "gone"}, token : BOOLEAN, cursor : 0..MaxMessages]
    BY <1>1, <2>1, <2>2
  <2>5. top' \in 0..MaxMessages /\ top <= top' /\ old.to <= top'
    BY <1>1, <2>1, <2>2
  <2> HIDE DEF q
  <2>6. LoopKnown(q, top')
    BY <2>2, <2>3, <2>5 DEF LoopKnown
  <2>7. \A m \in Numbers : Alive(q) /\ (Alive(old) => Beyond(old, m)) => Beyond(q, m)
    BY <1>1, <2>1, <2>2, <2>3 DEF Alive, Beyond, Numbers
  <2>8. \A m \in Numbers : m <= top => m <= top'
    BY <1>1, <2>5 DEF Numbers
  <2>9. ASSUME NEW m \in Numbers \ rewound, HandedKnown(m)
        PROVE  /\ handed'[m] <= 1
               /\ handed'[m] = 1 => m <= top' /\ (Alive(q) => Beyond(q, m))
    BY <1>2, <2>1, <2>7, <2>8, <2>9
  <2> QED BY <1>1, <1>4, <2>1, <2>3, <2>4, <2>5, <2>6, <2>9, LoopStep
<1>8. CASE ForwardMessage(l)
  <2> DEFINE q == AfterMessage(l)
  <2>1. /\ old.pc = "forward" /\ loop' = [loop EXCEPT ![l] = q]
        /\ UNCHANGED <<channel, arrived, poller, channelRequest, top, rewound>>
        /\ \/ ~old.cancelled
              /\ handed' = [handed EXCEPT ![old.next] = IF @ < 2 THEN @ + 1 ELSE @]
           \/ handed' = handed
    BY <1>8 DEF ForwardMessage, Hand, old
  <2>2. /\ old.next \in 1..old.to /\ old.to <= top /\ old.cursor = old.to
        /\ old.to \in 0..MaxMessages /\ old.next \in Numbers
    <3>1. old.next \in 1..old.to /\ old.to <= top /\ old.cursor = old.to
      BY <1>1, <2>1 DEF LoopKnown
    <3>2. old.to \in 0..MaxMessages
      BY <1>1 DEF LoopStates
    <3> QED BY <1>1, <3>1, <3>2 DEF Numbers
  <2>3. /\ q \in LoopStates /\ q.cancelled = old.cancelled /\ q.cursor = old.to
        /\ \/ q.pc = "poll" /\ old.next = old.to
           \/ q.pc = "forward" /\ q.to = old.to /\ q.next = old.next + 1 /\ old.next < old.to
    <3>1. CASE old.next = old.to
      <4>1. q = [NoPollLoop EXCEPT !.pc = "poll", !.cancelled = old.cancelled,
                                   !.cursor = old.cursor]
        BY <3>1 DEF AfterMessage, old
      <4>2. old.cancelled \in BOOLEAN /\ old.cursor \in 0..MaxMessages
        BY <1>1 DEF LoopStates
      <4> HIDE DEF q
      <4> QED BY <2>2, <3>1, <4>1, <4>2, Started, ZenonT(40)
    <3>2. CASE old.next # old.to
      <4>1. q = [old EXCEPT !.next = old.next + 1]
        BY <3>2 DEF AfterMessage, old
      <4>2. old.next < old.to /\ old.next + 1 \in 0..MaxMessages
        BY <1>1, <2>2, <3>2
      <4> HIDE DEF q
      <4> QED BY <1>1, <2>1, <2>2, <4>1, <4>2 DEF LoopStates
    <3> QED BY <3>1, <3>2
  <2> HIDE DEF q
  <2>4. LoopKnown(q, top')
    BY <2>1, <2>2, <2>3 DEF LoopKnown
  <2>5. handed' \in [Numbers -> 0..2]
    BY <1>1, <2>1, <2>2
  <2>6. \A m \in Numbers : m <= old.next => Beyond(q, m)
    BY <2>2, <2>3 DEF Beyond, Numbers
  <2>7. ASSUME NEW m \in Numbers \ rewound, HandedKnown(m)
        PROVE  /\ handed'[m] <= 1
               /\ handed'[m] = 1 => m <= top' /\ (Alive(q) => Beyond(q, m))
    <3>1. Alive(q) => Alive(old)
      BY <2>1, <2>3 DEF Alive
    <3>2. CASE handed'[m] = handed[m]
      <4>1. ASSUME handed[m] = 1, Alive(q) PROVE Beyond(q, m)
        <5>1. m < old.next
          BY <1>2, <2>1, <2>7, <3>1, <4>1 DEF Beyond
        <5> QED BY <2>2, <2>6, <5>1 DEF Numbers
      <4> QED BY <1>2, <2>1, <2>7, <3>2, <4>1
    <3>3. CASE handed'[m] # handed[m]
      <4>1. /\ m = old.next /\ Alive(old)
            /\ handed' = [handed EXCEPT ![m] = IF @ < 2 THEN @ + 1 ELSE @]
        BY <1>1, <2>1, <2>2, <3>3 DEF Alive
      <4>2. handed[m] # 1
        BY <1>2, <2>1, <2>2, <2>7, <4>1 DEF Beyond
      <4>3. handed[m] = 0 /\ handed'[m] = 1
        BY <1>1, <1>2, <2>7, <4>1, <4>2
      <4>4. m <= top /\ Beyond(q, m)
        BY <1>1, <2>2, <2>6, <4>1
      <4> QED BY <2>1, <4>3, <4>4
    <3> QED BY <3>2, <3>3
  <2>8. Alive(old) \/ handed' = handed
    BY <2>1 DEF Alive
  <2>9. q.pc # "ended" /\ q.cancelled = old.cancelled
    BY <2>3
  <2>10. /\ top' = top /\ channel' = channel /\ top <= top
         /\ loop[l].pc # "ended" /\ q.cancelled = loop[l].cancelled
         /\ Alive(loop[l]) \/ handed' = handed
    BY <1>1, <1>4, <2>1, <2>8, <2>9
  <2>11. UNCHANGED <<arrived, poller, channelRequest, rewound>>
    BY <2>1
  <2> QED BY <1>1, <2>1, <2>3, <2>4, <2>5, <2>7, <2>9, <2>10, <2>11, LoopStep
<1> QED BY <1>5, <1>6, <1>7, <1>8

\* A loop that starts has its messages rewound, and cancels the one before.
LEMMA RequestStartsStep ==
    ASSUME BridgeInv, NEW x \in ChannelRequests, RequestStarts(x) PROVE BridgeInv'
<1> DEFINE from == channelRequest[x].cursor
<1>1. PICK l \in Loops : StartPoller(l, from)
  BY DEF RequestStarts
<1>2. /\ channelRequest' = [channelRequest EXCEPT ![x] = [pc |-> "idle", cursor |-> 0]]
      /\ UNCHANGED <<channel, arrived, handed, top>>
  BY DEF RequestStarts, Goes
<1>3. /\ from \in 0..MaxMessages /\ top \in 0..MaxMessages /\ MaxMessages \in Nat
      /\ loop \in [Loops -> LoopStates]
  BY BridgeAssumption DEF BridgeInv, BridgeTypeOK, LoopStates
<1> HIDE DEF from
<1> DEFINE q == [NoPollLoop EXCEPT !.pc = "poll", !.cursor = from]
<1>4. /\ q \in LoopStates /\ q.pc = "poll" /\ ~q.cancelled /\ q.cursor = from
  BY <1>3, Started, Zenon
<1>5. /\ loop[l].pc = "ended" /\ loop' = [Cancelled(poller) EXCEPT ![l] = q] /\ poller' = l
      /\ rewound' = rewound \cup {m \in Numbers : from < m /\ m <= top}
  BY <1>1 DEF StartPoller
<1> HIDE DEF q
<1>6. /\ Cancelled(poller) \in [Loops -> LoopStates]
      /\ \A k \in Loops : k # poller => Cancelled(poller)[k] = loop[k]
      /\ \A k \in Loops : k = poller =>
            Cancelled(poller)[k].pc = loop[k].pc /\ Cancelled(poller)[k].cancelled
      /\ \A k \in Loops : /\ Cancelled(poller)[k].cursor = loop[k].cursor
                           /\ Cancelled(poller)[k].next = loop[k].next
                           /\ Cancelled(poller)[k].to = loop[k].to
                           /\ Cancelled(poller)[k].pc = loop[k].pc
  BY <1>3, BridgeAssumption DEF Cancelled, LoopStates
<1>7. /\ loop' \in [Loops -> LoopStates] /\ loop'[l] = q
      /\ \A k \in Loops : k # l => loop'[k] = Cancelled(poller)[k]
  BY <1>4, <1>5, <1>6
<1>8. \A k \in Loops : k # l => ~Alive(loop'[k])
  BY <1>6, <1>7 DEF Alive, BridgeInv
<1>9. BridgeTypeOK'
  BY <1>2, <1>3, <1>5, <1>7 DEF BridgeInv, BridgeTypeOK, LoopStates
<1>10. \A k \in Loops : LoopKnown(loop'[k], top)
  BY <1>4, <1>6, <1>7 DEF BridgeInv, LoopKnown
<1>11. ASSUME NEW m \in Numbers \ rewound' PROVE HandedKnown(m)'
  <2>1. HandedKnown(m) /\ (m <= top => m <= from)
    BY <1>3, <1>5 DEF BridgeInv, Numbers
  <2>2. m <= from => Beyond(q, m)
    BY <1>4 DEF Beyond
  <2> QED BY <1>2, <1>7, <1>8, <2>1, <2>2 DEF HandedKnown
<1>12. Alive(loop'[poller']) /\ \A k \in Loops : Alive(loop'[k]) => poller' = k
  BY <1>4, <1>5, <1>7, <1>8 DEF Alive
<1> QED BY <1>2, <1>3, <1>9, <1>10, <1>11, <1>12 DEF BridgeInv

\* Without a poller nothing lives.
LEMMA StopStep ==
    ASSUME BridgeInv, StopPoller,
           channelRequest' \in [ChannelRequests -> [pc : {"idle", "save", "start", "delete"},
                                                   cursor : 0..MaxMessages]],
           UNCHANGED <<channel, arrived, handed, top, rewound>>
    PROVE  BridgeInv'
<1>1. loop \in [Loops -> LoopStates] /\ poller' = NoLoop /\ loop' = Cancelled(poller)
  BY DEF StopPoller, BridgeInv, BridgeTypeOK, LoopStates
<1>2. /\ loop' \in [Loops -> LoopStates]
      /\ \A k \in Loops : k # poller => loop'[k] = loop[k]
      /\ \A k \in Loops : k = poller => loop'[k].cancelled
      /\ \A k \in Loops : /\ loop'[k].cursor = loop[k].cursor
                           /\ loop'[k].next = loop[k].next
                           /\ loop'[k].to = loop[k].to
                           /\ loop'[k].pc = loop[k].pc
  BY <1>1, BridgeAssumption, ZenonT(40) DEF Cancelled, LoopStates
<1>3. \A k \in Loops : ~Alive(loop'[k])
  BY <1>2 DEF Alive, BridgeInv
<1>4. BridgeTypeOK'
  BY <1>1, <1>2 DEF BridgeInv, BridgeTypeOK, LoopStates
<1>5. \A k \in Loops : LoopKnown(loop'[k], top)
  BY <1>2 DEF BridgeInv, LoopKnown
<1>6. ASSUME NEW m \in Numbers \ rewound PROVE HandedKnown(m)'
  <2>1. HandedKnown(m)
    BY DEF BridgeInv
  <2> QED BY <1>3, <2>1 DEF HandedKnown
<1> QED BY <1>1, <1>3, <1>4, <1>5, <1>6 DEF BridgeInv

LEMMA RebootStep == ASSUME BridgeInv, Reboot PROVE BridgeInv'
<1> DEFINE q == [NoPollLoop EXCEPT !.pc = "poll", !.cursor = channel.cursor]
<1>1. /\ channelRequest' = [x \in ChannelRequests |-> NoRequest]
      /\ UNCHANGED <<channel, arrived, handed, top>>
      /\ channel.cursor \in 0..MaxMessages /\ top \in 0..MaxMessages /\ MaxMessages \in Nat
  BY BridgeAssumption DEF Reboot, BridgeInv, BridgeTypeOK
<1>2. channelRequest' \in [ChannelRequests -> [pc : {"idle", "save", "start", "delete"},
                                              cursor : 0..MaxMessages]]
  BY <1>1 DEF NoRequest
<1>3. /\ q \in LoopStates /\ q.pc = "poll" /\ q.cursor = channel.cursor /\ ~q.cancelled
      /\ NoPollLoop \in LoopStates /\ NoPollLoop.pc = "ended"
  BY <1>1, Started, Zenon
<1>4. LoopKnown(NoPollLoop, top) /\ ~Alive(NoPollLoop) /\ LoopKnown(q, top) /\ Alive(q)
  BY <1>3 DEF LoopKnown, Alive
<1>5. CASE channel.token
  <2>1. PICK l \in Loops :
          /\ loop' = [k \in Loops |-> IF k = l THEN q ELSE NoPollLoop]
          /\ poller' = l
          /\ rewound' = rewound \cup {m \in Numbers : channel.cursor < m /\ m <= top}
    BY <1>5 DEF Reboot
  <2> HIDE DEF q
  <2>2. loop' \in [Loops -> LoopStates]
    BY <1>3, <2>1
  <2>3. BridgeTypeOK'
    BY <1>1, <1>2, <2>1, <2>2 DEF BridgeInv, BridgeTypeOK, LoopStates
  <2>4. ASSUME NEW m \in Numbers \ rewound' PROVE HandedKnown(m)'
    <3>1. HandedKnown(m) /\ (m <= top => m <= channel.cursor)
      BY <1>1, <2>1 DEF BridgeInv, Numbers
    <3>2. m <= channel.cursor => Beyond(q, m)
      BY <1>3 DEF Beyond
    <3> QED BY <1>1, <1>4, <2>1, <3>1, <3>2 DEF HandedKnown
  <2>5. \A k \in Loops : Alive(loop'[k]) => poller' = k
    BY <1>4, <2>1
  <2>6. poller' # NoLoop => Alive(loop'[poller'])
    BY <1>4, <2>1
  <2>7. \A k \in Loops : LoopKnown(loop'[k], top)
    BY <1>4, <2>1
  <2> QED BY <1>1, <2>3, <2>4, <2>5, <2>6, <2>7 DEF BridgeInv
<1>6. CASE ~channel.token
  <2>1. loop' = [l \in Loops |-> NoPollLoop] /\ poller' = NoLoop /\ rewound' = rewound
    BY <1>6 DEF Reboot
  <2>2. loop' \in [Loops -> LoopStates]
    BY <1>3, <2>1
  <2>3. BridgeTypeOK'
    BY <1>1, <1>2, <2>1, <2>2 DEF BridgeInv, BridgeTypeOK, LoopStates
  <2>4. ASSUME NEW m \in Numbers \ rewound PROVE HandedKnown(m)'
    <3>1. HandedKnown(m)
      BY DEF BridgeInv
    <3> QED BY <1>1, <1>4, <2>1, <3>1 DEF HandedKnown
  <2>5. /\ \A k \in Loops : ~Alive(loop'[k])
        /\ \A k \in Loops : LoopKnown(loop'[k], top)
    BY <1>4, <2>1
  <2> QED BY <1>1, <2>1, <2>3, <2>4, <2>5 DEF BridgeInv
<1> QED BY <1>5, <1>6

LEMMA BridgeInitInv == BridgeInit => BridgeInv
<1> SUFFICES ASSUME BridgeInit PROVE BridgeInv
  OBVIOUS
<1>1. MaxMessages \in Nat /\ NoPollLoop \in LoopStates /\ NoPollLoop.pc = "ended"
  BY BridgeAssumption DEF NoPollLoop, LoopStates
<1>2. loop = [l \in Loops |-> NoPollLoop] /\ poller = NoLoop
  BY DEF BridgeInit
<1>3. loop \in [Loops -> LoopStates] /\ \A l \in Loops : loop[l].pc = "ended"
  BY <1>1, <1>2
<1>4. BridgeTypeOK
  BY <1>1, <1>2, <1>3 DEF BridgeInit, BridgeTypeOK, NoRequest, LoopStates
<1> QED BY <1>1, <1>3, <1>4
        DEF BridgeInit, BridgeInv, Alive, LoopKnown, HandedKnown

\* What is neither a loop nor the poller's.
LEMMA AroundStep ==
    ASSUME BridgeInv,
           channel' \in [here : {"new", "yes", "gone"}, token : BOOLEAN, cursor : 0..MaxMessages],
           arrived' \in 0..MaxMessages,
           channelRequest' \in [ChannelRequests -> [pc : {"idle", "save", "start", "delete"},
                                                   cursor : 0..MaxMessages]],
           UNCHANGED <<loop, poller, handed, top, rewound>>
    PROVE  BridgeInv'
<1>1. BridgeTypeOK'
  BY DEF BridgeInv, BridgeTypeOK
<1>2. \A m \in Numbers \ rewound : HandedKnown(m)'
  BY DEF BridgeInv, HandedKnown
<1> QED BY <1>1, <1>2 DEF BridgeInv

LEMMA BridgeInvStep == BridgeInv /\ [BridgeNext]_bridgeVars => BridgeInv'
<1> SUFFICES ASSUME BridgeInv, [BridgeNext]_bridgeVars PROVE BridgeInv'
  OBVIOUS
<1> DEFINE Rows == [here : {"new", "yes", "gone"}, token : BOOLEAN, cursor : 0..MaxMessages]
           Asked == [pc : {"idle", "save", "start", "delete"}, cursor : 0..MaxMessages]
<1>1. /\ channel \in Rows /\ arrived \in 0..MaxMessages /\ MaxMessages \in Nat
      /\ channelRequest \in [ChannelRequests -> Asked]
  BY BridgeAssumption DEF BridgeInv, BridgeTypeOK
<1>2. ASSUME NEW x \in ChannelRequests, NEW pc \in {"idle", "save", "start", "delete"},
             NEW from \in 0..MaxMessages, Goes(x, pc, from)
      PROVE  channelRequest' \in [ChannelRequests -> Asked]
  BY <1>1, <1>2 DEF Goes
<1>3. CASE MessageArrives
  <2>1. UNCHANGED <<channel, loop, poller, channelRequest, handed, top, rewound>>
    BY <1>3 DEF MessageArrives
  <2>2. arrived' \in 0..MaxMessages
    BY <1>1, <1>3 DEF MessageArrives
  <2> QED BY <1>1, <2>1, <2>2, AroundStep
<1>4. ASSUME NEW x \in ChannelRequests,
             CreateIMChannel(x) \/ SaveCredentials(x) \/ ReadForRestore(x) \/ DeleteIMChannel(x)
      PROVE  BridgeInv'
  <2>1. UNCHANGED <<arrived, loop, poller, handed, top, rewound>>
    BY <1>4 DEF CreateIMChannel, SaveCredentials, ReadForRestore, DeleteIMChannel
  <2>2. channel' \in Rows
    <3>1. /\ [channel EXCEPT !.here = "yes"] \in Rows
          /\ [here |-> "gone", token |-> FALSE, cursor |-> 0] \in Rows
      BY <1>1
    <3>2. ASSUME NEW c \in BOOLEAN PROVE [channel EXCEPT !.token = c] \in Rows
      BY <1>1
    <3>3. (channel.here = "yes") \in BOOLEAN
      OBVIOUS
    <3>4. [channel EXCEPT !.token = (channel.here = "yes")] \in Rows
      BY <3>2, <3>3, Zenon
    <3> HIDE DEF Rows
    <3> QED BY <1>1, <1>4, <3>1, <3>4
            DEF CreateIMChannel, SaveCredentials, ReadForRestore, DeleteIMChannel
  <2>3. \E pc \in {"idle", "save", "start", "delete"}, from \in 0..MaxMessages :
          Goes(x, pc, from)
    <3>1. 0 \in 0..MaxMessages /\ channel.cursor \in 0..MaxMessages
      BY <1>1
    <3> QED BY <1>4, <3>1
            DEF CreateIMChannel, SaveCredentials, ReadForRestore, DeleteIMChannel
  <2>4. channelRequest' \in [ChannelRequests -> Asked]
    BY <1>2, <2>3
  <2> QED BY <1>1, <2>1, <2>2, <2>4, AroundStep
<1>5. ASSUME NEW x \in ChannelRequests, StopForDelete(x) PROVE BridgeInv'
  <2>1. StopPoller /\ UNCHANGED <<channel, arrived, handed, top, rewound>>
    BY <1>5 DEF StopForDelete
  <2>2. channelRequest' \in [ChannelRequests -> Asked]
    BY <1>1, <1>2, <1>5 DEF StopForDelete
  <2> QED BY <2>1, <2>2, StopStep
<1>6. CASE StopRequested
  <2>1. StopPoller /\ UNCHANGED <<channel, arrived, channelRequest, handed, top, rewound>>
    BY <1>6 DEF StopRequested
  <2> QED BY <1>1, <2>1, StopStep
<1>7. CASE UNCHANGED bridgeVars
  <2>1. UNCHANGED <<channel, arrived, channelRequest, loop, poller, handed, top, rewound>>
    BY <1>7 DEF bridgeVars
  <2> QED BY <1>1, <2>1, AroundStep
<1> QED BY <1>3, <1>4, <1>5, <1>6, <1>7, LoopSteps, RequestStartsStep, RebootStep
        DEF BridgeNext

\* For any number of loops, requests and messages: a message of the channel is
\* handed to agentserver once at most, but for a loop that began with a cursor older
\* than one a loop had reached (StartPoller, pollLoop, AdvanceCursor before forward).
THEOREM HandedOnce == BridgeSpec => [](BridgeTypeOK /\ AtMostOnce)
<1>1. BridgeInv => BridgeTypeOK /\ AtMostOnce
  <2> SUFFICES ASSUME BridgeInv, NEW m \in Numbers, m \notin rewound PROVE ~(handed[m] > 1)
    BY DEF AtMostOnce, BridgeInv
  <2>1. handed[m] \in 0..2 /\ handed[m] <= 1
    BY DEF BridgeInv, BridgeTypeOK, HandedKnown
  <2> QED BY <2>1
<1> QED BY <1>1, BridgeInitInv, BridgeInvStep, PTL DEF BridgeSpec

-----------------------------------------------------------------------------
(* Typing indicators *)

\* Typing indicators: an indicator that runs is the one in the map, so that an
\* answer to its sender, or to all, finds it.

\* The indicators are used one after the other.
TypingUsed(n) == \A i \in Indicators : indicator[i].pc = "none" <=> i > n

TypingInv ==
    /\ TypingTypeOK
    /\ \A u \in Senders : owed[u] <= texts
    /\ forwarding.pc = "show" => forwarding.sender \in Senders
    /\ \E n \in 0..texts : TypingUsed(n) /\ (forwarding.pc = "show" => n < texts)
    /\ \A i \in Indicators : indicator[i].pc = "live" =>
          indicator[i].sender \in Senders /\ typingSessions[indicator[i].sender] = i
    /\ \A i \in answered : indicator[i].pc = "cancelled"

\* What cancelling does to an indicator.
LEMMA IndicatorCancelled ==
    ASSUME TypingTypeOK, NEW s
    PROVE  /\ WithoutIndicators(s) \in [Indicators ->
                  [pc : {"none", "live", "cancelled", "told"}, sender : Senders \cup {Room}]]
           /\ \A i \in Indicators :
                /\ WithoutIndicators(s)[i].sender = indicator[i].sender
                /\ (i \in s /\ indicator[i].pc = "live")
                     => WithoutIndicators(s)[i].pc = "cancelled"
                /\ ~(i \in s /\ indicator[i].pc = "live")
                     => WithoutIndicators(s)[i].pc = indicator[i].pc
<1>1. ASSUME NEW i \in Indicators
      PROVE  /\ indicator[i] \in [pc : {"none", "live", "cancelled", "told"},
                                  sender : Senders \cup {Room}]
             /\ WithoutIndicators(s)[i] = IF i \in s /\ indicator[i].pc = "live"
                    THEN [indicator[i] EXCEPT !.pc = "cancelled"] ELSE indicator[i]
  BY <1>1 DEF TypingTypeOK, WithoutIndicators
<1>2. ASSUME NEW i \in Indicators
      PROVE  /\ WithoutIndicators(s)[i] \in [pc : {"none", "live", "cancelled", "told"},
                                             sender : Senders \cup {Room}]
             /\ WithoutIndicators(s)[i].sender = indicator[i].sender
             /\ (i \in s /\ indicator[i].pc = "live")
                     => WithoutIndicators(s)[i].pc = "cancelled"
             /\ ~(i \in s /\ indicator[i].pc = "live")
                     => WithoutIndicators(s)[i].pc = indicator[i].pc
  <2> CASE i \in s /\ indicator[i].pc = "live"
    BY <1>1, <1>2
  <2> CASE ~(i \in s /\ indicator[i].pc = "live")
    BY <1>1, <1>2
  <2> QED OBVIOUS
<1>3. WithoutIndicators(s) = [i \in Indicators |-> WithoutIndicators(s)[i]]
  BY DEF WithoutIndicators
<1> QED BY <1>2, <1>3

\* Cancelling leaves the order of the indicators and those that were answered as they are.
LEMMA CancelledKeeps ==
    ASSUME TypingInv, NEW s
    PROVE  /\ \A n \in 0..texts : TypingUsed(n) =>
                \A i \in Indicators : WithoutIndicators(s)[i].pc = "none" <=> i > n
           /\ \A i \in answered : WithoutIndicators(s)[i].pc = "cancelled"
<1>1. TypingTypeOK
  BY DEF TypingInv
<1>2. answered \subseteq Indicators
  BY <1>1 DEF TypingTypeOK
<1> QED BY <1>1, <1>2, IndicatorCancelled DEF TypingInv, TypingUsed

LEMMA TypingInitInv == TypingInit => TypingInv
<1> SUFFICES ASSUME TypingInit PROVE TypingInv
  OBVIOUS
<1>1. TypingTypeOK
  BY TypingAssumption DEF TypingInit, TypingTypeOK
<1>2. TypingUsed(0)
  BY TypingAssumption DEF TypingInit, TypingUsed, Indicators
<1> QED BY <1>1, <1>2, TypingAssumption DEF TypingInit, TypingInv

LEMMA ForwardTextInv ==
    ASSUME TypingInv, NEW u \in Senders, ForwardText(u) PROVE TypingInv'
<1>1. PICK n \in 0..texts : TypingUsed(n) /\ (forwarding.pc = "show" => n < texts)
  BY DEF TypingInv
<1>2. /\ texts \in 0..MaxTexts /\ texts + 1 \in 0..MaxTexts /\ MaxTexts \in Nat
      /\ texts' = texts + 1 /\ UNCHANGED <<typingSessions, indicator, answered>>
  BY TypingAssumption DEF TypingInv, TypingTypeOK, ForwardText
<1>3. /\ owed' \in [Senders -> 0..MaxTexts]
      /\ \A v \in Senders : owed'[v] <= texts'
  <2>1. owed \in [Senders -> 0..MaxTexts] /\ \A v \in Senders : owed[v] <= texts
    BY DEF TypingInv, TypingTypeOK
  <2>2. CASE owed' = owed
    BY <1>2, <2>1, <2>2
  <2>3. CASE owed' = [owed EXCEPT ![u] = @ + 1]
    BY <1>2, <2>1, <2>3
  <2> QED BY <2>2, <2>3 DEF ForwardText
<1>4. /\ forwarding' \in [pc : {"poll", "show"}, sender : Senders \cup {Room}]
      /\ forwarding'.pc = "show" => forwarding'.sender \in Senders
  <2>1. CASE forwarding' = forwarding
    BY <2>1 DEF TypingInv, TypingTypeOK
  <2>2. CASE forwarding' = [pc |-> "show", sender |-> u]
    BY <2>2
  <2> QED BY <2>1, <2>2 DEF ForwardText
<1>5. TypingTypeOK'
  BY <1>2, <1>3, <1>4 DEF TypingTypeOK, TypingInv, Indicators
<1>6. \E k \in 0..texts' : TypingUsed(k)' /\ (forwarding'.pc = "show" => k < texts')
  <2>1. n \in 0..texts' /\ n < texts'
    BY <1>1, <1>2
  <2>2. TypingUsed(n)'
    BY <1>1, <1>2 DEF TypingUsed, Indicators
  <2> QED BY <2>1, <2>2
<1> QED BY <1>2, <1>3, <1>4, <1>5, <1>6 DEF TypingInv, Indicators

LEMMA ShowTypingInv == ASSUME TypingInv, ShowTyping PROVE TypingInv'
<1> DEFINE u == forwarding.sender
           st == {typingSessions[u]}
           w == WithoutIndicators(st)
<1>1. PICK n \in 0..texts : TypingUsed(n) /\ n < texts
  BY DEF TypingInv, ShowTyping
<1>2. /\ texts \in 0..MaxTexts /\ MaxTexts \in Nat /\ u \in Senders
      /\ typingSessions \in [Senders -> 0..MaxTexts]
      /\ UNCHANGED <<texts, owed, answered>>
      /\ forwarding' = [pc |-> "poll", sender |-> Room]
  BY TypingAssumption DEF TypingInv, TypingTypeOK, ShowTyping
<1>3. n + 1 \in Indicators
  BY <1>1, <1>2 DEF Indicators
<1> DEFINE s == CHOOSE i \in Indicators : \A j \in Indicators :
                   indicator[j].pc = "none" => indicator[i].pc = "none" /\ i <= j
<1>4. s = n + 1
  <2>1. \A j \in Indicators : indicator[j].pc = "none" => indicator[n+1].pc = "none" /\ n+1 <= j
    BY <1>1, <1>3 DEF TypingUsed, Indicators
  <2>2. \E i \in Indicators : \A j \in Indicators :
           indicator[j].pc = "none" => indicator[i].pc = "none" /\ i <= j
    BY <1>3, <2>1
  <2>3. /\ s \in Indicators
        /\ \A j \in Indicators : indicator[j].pc = "none" => indicator[s].pc = "none" /\ s <= j
    BY <2>2
  <2>4. indicator[n + 1].pc = "none"
    BY <1>1, <1>3 DEF TypingUsed, Indicators
  <2>5. indicator[s].pc = "none" /\ s <= n + 1
    BY <1>3, <2>3, <2>4
  <2>6. s > n
    BY <1>1, <2>3, <2>5 DEF TypingUsed
  <2> QED BY <1>1, <2>3, <2>5, <2>6 DEF Indicators
<1>5. /\ indicator' = [w EXCEPT ![n + 1] = [pc |-> "live", sender |-> u]]
      /\ typingSessions' = [typingSessions EXCEPT ![u] = n + 1]
  <2>1. /\ indicator' = [w EXCEPT ![s] = [pc |-> "live", sender |-> u]]
        /\ typingSessions' = [typingSessions EXCEPT ![u] = s]
    BY DEF ShowTyping
  <2> QED BY <1>4, <2>1
<1> HIDE DEF s
<1>6. /\ w \in [Indicators ->
            [pc : {"none", "live", "cancelled", "told"}, sender : Senders \cup {Room}]]
      /\ \A i \in Indicators :
            /\ w[i].sender = indicator[i].sender
            /\ (i \in st /\ indicator[i].pc = "live") => w[i].pc = "cancelled"
            /\ ~(i \in st /\ indicator[i].pc = "live") => w[i].pc = indicator[i].pc
  BY IndicatorCancelled DEF TypingInv
<1>7. /\ \A i \in Indicators : w[i].pc = "none" <=> i > n
      /\ \A i \in answered : w[i].pc = "cancelled"
  BY <1>1, CancelledKeeps
<1> HIDE DEF w
<1>8. /\ indicator' \in [Indicators ->
            [pc : {"none", "live", "cancelled", "told"}, sender : Senders \cup {Room}]]
      /\ indicator'[n + 1].pc = "live" /\ indicator'[n + 1].sender = u
      /\ \A i \in Indicators \ {n + 1} : indicator'[i] = w[i]
  BY <1>2, <1>3, <1>5, <1>6
<1>9. /\ typingSessions' \in [Senders -> 0..MaxTexts]
      /\ typingSessions'[u] = n + 1
      /\ \A v \in Senders \ {u} : typingSessions'[v] = typingSessions[v]
  BY <1>2, <1>3, <1>5 DEF Indicators
<1>10. TypingTypeOK'
  BY <1>2, <1>8, <1>9 DEF TypingTypeOK, TypingInv, Indicators
<1>11. TypingUsed(n + 1)'
  BY <1>1, <1>3, <1>7, <1>8 DEF TypingUsed, Indicators
<1>12. \E k \in 0..texts' : TypingUsed(k)' /\ (forwarding'.pc = "show" => k < texts')
  <2>1. n + 1 \in 0..texts'
    BY <1>1, <1>2
  <2>2. forwarding'.pc # "show"
    BY <1>2
  <2> QED BY <1>11, <2>1, <2>2
<1>13. ASSUME NEW i \in Indicators, indicator'[i].pc = "live"
       PROVE  indicator'[i].sender \in Senders /\ typingSessions'[indicator'[i].sender] = i
  <2>1. CASE i = n + 1
    BY <1>2, <1>8, <1>9, <2>1
  <2>2. CASE i # n + 1
    <3>1. w[i].pc = "live" /\ indicator'[i].sender = indicator[i].sender
      BY <1>6, <1>8, <1>13, <2>2
    <3>2. indicator[i].pc = "live" /\ i # typingSessions[u]
      BY <1>6, <3>1
    <3>3. indicator[i].sender \in Senders /\ typingSessions[indicator[i].sender] = i
      BY <3>2 DEF TypingInv
    <3> QED BY <1>9, <3>1, <3>2, <3>3
  <2> QED BY <2>1, <2>2
<1>14. \A i \in answered' : indicator'[i].pc = "cancelled"
  <2>1. answered \subseteq Indicators /\ n + 1 \notin answered
    BY <1>3, <1>1 DEF TypingInv, TypingTypeOK, TypingUsed, Indicators
  <2> QED BY <1>2, <1>7, <1>8, <2>1
<1>15. \A v \in Senders : owed'[v] <= texts'
  BY <1>2 DEF TypingInv
<1>16. forwarding'.pc # "show"
  BY <1>2
<1> QED BY <1>10, <1>12, <1>13, <1>14, <1>15, <1>16 DEF TypingInv, Indicators

\* Stopping the indicators of some senders, whose turns it ends or not.
LEMMA StopTypingKeeps ==
    ASSUME TypingInv, NEW us \in SUBSET Senders, StopTyping(us), texts' = texts,
           forwarding' = forwarding, owed' \in [Senders -> 0..MaxTexts],
           \A v \in Senders : owed'[v] <= texts,
           answered' \subseteq answered \cup {i \in Indicators :
               indicator[i].pc = "live" /\ indicator[i].sender \in us}
    PROVE  TypingInv'
<1> DEFINE st == {typingSessions[v] : v \in us}
           w == WithoutIndicators(st)
<1>1. PICK n \in 0..texts : TypingUsed(n) /\ (forwarding.pc = "show" => n < texts)
  BY DEF TypingInv
<1>2. /\ w \in [Indicators ->
            [pc : {"none", "live", "cancelled", "told"}, sender : Senders \cup {Room}]]
      /\ \A i \in Indicators :
            /\ w[i].sender = indicator[i].sender
            /\ (i \in st /\ indicator[i].pc = "live") => w[i].pc = "cancelled"
            /\ ~(i \in st /\ indicator[i].pc = "live") => w[i].pc = indicator[i].pc
  BY IndicatorCancelled DEF TypingInv
<1>3. /\ \A i \in Indicators : w[i].pc = "none" <=> i > n
      /\ \A i \in answered : w[i].pc = "cancelled"
  BY <1>1, CancelledKeeps
<1>4. /\ indicator' = w
      /\ typingSessions' = [v \in Senders |-> IF v \in us THEN 0 ELSE typingSessions[v]]
  BY DEF StopTyping
<1> HIDE DEF w
<1>5. typingSessions \in [Senders -> 0..MaxTexts] /\ answered \subseteq Indicators
  BY DEF TypingInv, TypingTypeOK
<1>6. TypingTypeOK'
  <2>1. typingSessions' \in [Senders -> 0..MaxTexts]
    BY <1>4, <1>5, TypingAssumption
  <2>2. answered' \subseteq Indicators
    BY <1>5
  <2> QED BY <1>2, <1>4, <2>1, <2>2 DEF TypingTypeOK, TypingInv, Indicators
<1>7. \E k \in 0..texts' : TypingUsed(k)' /\ (forwarding'.pc = "show" => k < texts')
  <2>1. TypingUsed(n)'
    BY <1>3, <1>4 DEF TypingUsed, Indicators
  <2> QED BY <1>1, <2>1
<1>8. ASSUME NEW i \in Indicators, indicator'[i].pc = "live"
      PROVE  indicator'[i].sender \in Senders /\ typingSessions'[indicator'[i].sender] = i
  <2>1. indicator[i].pc = "live" /\ i \notin st /\ indicator'[i].sender = indicator[i].sender
    BY <1>2, <1>4, <1>8
  <2>2. indicator[i].sender \in Senders /\ typingSessions[indicator[i].sender] = i
    BY <2>1 DEF TypingInv
  <2>3. indicator[i].sender \notin us
    BY <2>1, <2>2
  <2> QED BY <1>4, <2>1, <2>2, <2>3
<1>9. ASSUME NEW i \in answered' PROVE indicator'[i].pc = "cancelled"
  <2>1. CASE i \in answered
    BY <1>3, <1>4, <2>1
  <2>2. CASE i \in Indicators /\ indicator[i].pc = "live" /\ indicator[i].sender \in us
    <3>1. typingSessions[indicator[i].sender] = i
      BY <2>2 DEF TypingInv
    <3>2. i \in st
      BY <2>2, <3>1
    <3> QED BY <1>2, <1>4, <2>2, <3>2
  <2> QED BY <1>9, <2>1, <2>2
<1>10. /\ \A v \in Senders : owed'[v] <= texts'
       /\ forwarding'.pc = "show" => forwarding'.sender \in Senders
  BY DEF TypingInv
<1> QED BY <1>6, <1>7, <1>8, <1>9, <1>10 DEF TypingInv, Indicators

\* An answer to a sender stops the indicator of the sender if one runs, one to the group all.
LEMMA DirectSendInv == ASSUME TypingInv, NEW u \in Senders, DirectSend(u) PROVE TypingInv'
<1>1. PICK to \in {u, Room} :
          /\ StopTyping(Stopped(to))
          /\ answered' = answered \cup {i \in Indicators :
                indicator[i].pc = "live" /\ (to = Room \/ indicator[i].sender = to)}
  BY DEF DirectSend
<1>2. /\ owed[u] > 0 /\ owed' = [owed EXCEPT ![u] = @ - 1]
      /\ texts' = texts /\ forwarding' = forwarding
  BY DEF DirectSend
<1>3. /\ owed' \in [Senders -> 0..MaxTexts]
      /\ \A v \in Senders : owed'[v] <= texts
  BY <1>2, TypingAssumption DEF TypingInv, TypingTypeOK
<1>4. Stopped(to) \in SUBSET Senders
  BY DEF Stopped
<1>5. ASSUME NEW i \in Indicators, indicator[i].pc = "live",
             to = Room \/ indicator[i].sender = to
      PROVE  indicator[i].sender \in Stopped(to)
  <2>1. indicator[i].sender \in Senders /\ typingSessions[indicator[i].sender] = i
    BY <1>5 DEF TypingInv
  <2>2. i # 0
    BY DEF Indicators
  <2>3. CASE to = Room
    BY <2>1, <2>3, TypingAssumption DEF Stopped
  <2>4. CASE indicator[i].sender = to
    BY <2>1, <2>2, <2>4 DEF Stopped
  <2> QED BY <1>5, <2>3, <2>4
<1>6. answered' \subseteq answered \cup {i \in Indicators :
               indicator[i].pc = "live" /\ indicator[i].sender \in Stopped(to)}
  BY <1>1, <1>5
<1> QED BY <1>1, <1>2, <1>3, <1>4, <1>6, StopTypingKeeps

LEMMA TimesOutInv == ASSUME TypingInv, NEW s \in Indicators, TimesOut(s) PROVE TypingInv'
<1>1. PICK n \in 0..texts : TypingUsed(n) /\ (forwarding.pc = "show" => n < texts)
  BY DEF TypingInv
<1>2. /\ indicator \in [Indicators ->
            [pc : {"none", "live", "cancelled", "told"}, sender : Senders \cup {Room}]]
      /\ indicator[s].pc = "live" /\ indicator' = [indicator EXCEPT ![s].pc = "told"]
      /\ UNCHANGED <<texts, forwarding, owed, typingSessions, answered>>
  BY DEF TypingInv, TypingTypeOK, TimesOut
<1>3. /\ indicator' \in [Indicators ->
            [pc : {"none", "live", "cancelled", "told"}, sender : Senders \cup {Room}]]
      /\ indicator'[s].pc = "told"
      /\ \A i \in Indicators \ {s} : indicator'[i] = indicator[i]
  BY <1>2
<1>4. TypingTypeOK'
  BY <1>2, <1>3 DEF TypingTypeOK, TypingInv, Indicators
<1>5. TypingUsed(n)'
  BY <1>1, <1>2, <1>3 DEF TypingUsed, Indicators
<1>6. \A i \in Indicators : indicator'[i].pc = "live" =>
         indicator'[i].sender \in Senders /\ typingSessions'[indicator'[i].sender] = i
  BY <1>2, <1>3 DEF TypingInv
<1>7. \A i \in answered' : indicator'[i].pc = "cancelled"
  <2>1. answered \subseteq Indicators /\ s \notin answered
    BY <1>2 DEF TypingInv, TypingTypeOK
  <2> QED BY <1>2, <1>3, <2>1 DEF TypingInv
<1> QED BY <1>1, <1>2, <1>4, <1>5, <1>6, <1>7 DEF TypingInv, Indicators

LEMMA TypingInvStep == TypingInv /\ [TypingNext]_typingVars => TypingInv'
<1> SUFFICES ASSUME TypingInv, [TypingNext]_typingVars PROVE TypingInv'
  OBVIOUS
<1>1. ASSUME NEW u \in Senders, ForwardText(u) PROVE TypingInv'
  BY <1>1, ForwardTextInv
<1>2. ASSUME NEW u \in Senders, DirectSend(u) PROVE TypingInv'
  BY <1>2, DirectSendInv
<1>3. CASE ShowTyping
  BY <1>3, ShowTypingInv
<1>4. ASSUME NEW s \in Indicators, TimesOut(s) PROVE TypingInv'
  BY <1>4, TimesOutInv
<1>5. CASE StopAllTyping
  <2>1. /\ owed' \in [Senders -> 0..MaxTexts]
        /\ \A v \in Senders : owed'[v] <= texts
    BY <1>5 DEF StopAllTyping, TypingInv, TypingTypeOK
  <2> QED BY <1>5, <2>1, StopTypingKeeps DEF StopAllTyping
<1>6. CASE UNCHANGED typingVars
  BY <1>6 DEF typingVars, TypingInv, TypingTypeOK, TypingUsed, Indicators
<1> QED BY <1>1, <1>2, <1>3, <1>4, <1>5, <1>6 DEF TypingNext

\* No sender who has been answered while his indicator ran is told that the answer timed out,
\* however messages, answers and deadlines follow each other (startTypingForUser).
THEOREM NobodyMisinformed == TypingSpec => [](TypingTypeOK /\ ToldMeansUnanswered)
<1>1. TypingInv => TypingTypeOK /\ ToldMeansUnanswered
  BY DEF TypingInv, TypingTypeOK, ToldMeansUnanswered
<1> QED BY <1>1, TypingInitInv, TypingInvStep, PTL DEF TypingSpec

-----------------------------------------------------------------------------
(* IM channels of workspaces *)

\* Channels: whatever is bound, asked for or written later, a channel is only ever
\* tied to sandboxes of its own workspace; and without a change under way, or one
\* change alone, memory and row agree.

ImRowStates ==
    [here : {"unborn", "yes", "gone"}, tenant : Tenants \cup {""}, bot : Bots \cup {""},
     token : BOOLEAN, mode : Modes, bound : Nat]

ImRequestStates ==
    [pc : {"idle", "save", "clear", "bind", "start", "displace", "rebind", "insert",
           "update", "mode", "apply", "unbind", "delete"},
     box : Boxes \cup {NoBox}, chans : SUBSET Channels, mode : Modes \cup {""},
     seen : SUBSET (Boxes \X Channels)]

ChannelsTyped ==
    /\ home \in [Boxes -> Tenants]
    /\ imRow \in [Channels -> ImRowStates]
    /\ Bound \subseteq Boxes \X Channels
    /\ routing \in [Channels -> Modes \cup {""}]
    /\ polled \subseteq Channels /\ stray \subseteq Channels
    /\ imRequest \in [ImRequests -> ImRequestStates]
    /\ asked \in Nat

\* A request names channels that exist or existed, and works on a sandbox and
\* channels of one workspace.
RequestSound(r) ==
    /\ r.pc \notin {"idle", "insert"} => \E c \in Channels : r.chans = {c}
    /\ \A c \in r.chans : imRow[c].here # "unborn"
    /\ r.pc \in {"clear", "bind", "displace", "rebind", "insert"} => r.box \in Boxes
    /\ (r.pc \in {"save", "clear", "bind", "displace", "rebind", "insert"} /\ r.box # NoBox)
          => \A c \in r.chans : imRow[c].tenant = home[r.box]
    /\ r.pc \in {"update", "mode", "apply"} => r.mode \in Modes

BoundAtHome ==
    \A p \in Bound : imRow[p[2]].here # "unborn" /\ imRow[p[2]].tenant = home[p[1]]

Untouched(c) == imRow[c].mode = "codex" /\ routing[c] = ""

Changes(x, c) == imRequest[x].pc = "apply" /\ c \in imRequest[x].chans

ModeFollows(c) ==
    /\ \A x, y \in ImRequests : Changes(x, c) /\ Changes(y, c) => x = y
    /\ \A x \in ImRequests : Changes(x, c) => imRequest[x].mode = imRow[c].mode
    /\ (\A x \in ImRequests : ~Changes(x, c)) => ModeOf(c) = imRow[c].mode

ModesFollow ==
    /\ \A c \in Channels : imRow[c].here = "unborn" => Untouched(c)
    /\ \A c \in Channels : Here(c) /\ c \notin stray => ModeFollows(c)

ChannelsInv ==
    /\ ChannelsTyped
    /\ \A x \in ImRequests : RequestSound(imRequest[x])
    /\ BoundAtHome
    /\ ModesFollow
    /\ ~crossed

\* What a step of a request does to the requests.
LEMMA RequestTaken ==
    ASSUME ChannelsTyped, NEW x \in ImRequests, NEW r \in ImRequestStates, Takes(x, r)
    PROVE  /\ imRequest' \in [ImRequests -> ImRequestStates]
           /\ imRequest'[x] = r
           /\ \A y \in ImRequests \ {x} : imRequest'[y] = imRequest[y]
BY Zenon DEF ChannelsTyped, Takes

LEMMA RequestIdle ==
    /\ NoImRequest \in ImRequestStates /\ NoImRequest.pc = "idle"
    /\ RequestSound(NoImRequest)
<1>1. /\ NoImRequest.pc = "idle" /\ NoImRequest.chans = {}
      /\ NoImRequest.box = NoBox /\ NoImRequest.mode = "" /\ NoImRequest.seen = {}
  BY DEF NoImRequest
<1>2. NoImRequest \in ImRequestStates
  BY DEF NoImRequest, ImRequestStates
<1> QED BY <1>1, <1>2, Zenon DEF RequestSound

\* A request that has a channel has one.
LEMMA OneChannel ==
    ASSUME ChannelsInv, NEW x \in ImRequests, imRequest[x].pc \notin {"idle", "insert"}
    PROVE  /\ Of(x) \in Channels /\ imRequest[x].chans = {Of(x)}
           /\ imRow[Of(x)].here # "unborn"
<1>1. RequestSound(imRequest[x])
  BY DEF ChannelsInv
<1>2. PICK c \in Channels : imRequest[x].chans = {c}
  BY <1>1 DEF RequestSound
<1>3. Of(x) = c
  BY <1>2 DEF Of
<1>4. imRow[c].here # "unborn"
  BY <1>1, <1>2 DEF RequestSound
<1> QED BY <1>2, <1>3, <1>4

\* Removing and adding bindings.
LEMMA PairsLeft ==
    ASSUME NEW pairs
    PROVE  DOMAIN WithoutPairs(pairs) = Bound \ pairs
BY DEF WithoutPairs

LEMMA PairsAdded ==
    ASSUME NEW rows, NEW new, NEW before
    PROVE  DOMAIN WithPairs(rows, new, before) = DOMAIN rows \cup new
BY DEF WithPairs

\* Rows that were made stay made, in their workspace.
RowsKeep ==
    \A c \in Channels : imRow[c].here # "unborn" =>
        imRow'[c].here # "unborn" /\ imRow'[c].tenant = imRow[c].tenant

LEMMA SoundKept ==
    ASSUME RowsKeep, UNCHANGED home, NEW r \in ImRequestStates, RequestSound(r)
    PROVE  RequestSound(r)'
<1>1. r.chans \subseteq Channels
  BY Zenon DEF ImRequestStates
<1>2. \A c \in r.chans : imRow'[c].here # "unborn" /\ imRow'[c].tenant = imRow[c].tenant
  BY <1>1 DEF RequestSound, RowsKeep
<1> QED BY <1>1, <1>2 DEF RequestSound

LEMMA HomeKept ==
    ASSUME RowsKeep, UNCHANGED home, ChannelsTyped, BoundAtHome, Bound' \subseteq Bound
    PROVE  BoundAtHome'
<1>1. \A p \in Bound' : p[2] \in Channels
  BY Zenon DEF ChannelsTyped
<1> QED BY <1>1 DEF BoundAtHome, RowsKeep

\* The requests after one of them took a step.
LEMMA RequestsKept ==
    ASSUME ChannelsInv, RowsKeep, UNCHANGED home,
           NEW x \in ImRequests, NEW r \in ImRequestStates, Takes(x, r),
           RequestSound(r)'
    PROVE  \A y \in ImRequests : RequestSound(imRequest[y])'
<1>1. ChannelsTyped
  BY DEF ChannelsInv
<1>2. /\ imRequest'[x] = r
      /\ \A y \in ImRequests \ {x} : imRequest'[y] = imRequest[y]
  BY <1>1, RequestTaken
<1>3. ASSUME NEW y \in ImRequests PROVE RequestSound(imRequest[y])'
  <2>1. CASE y = x
    BY <2>1, <1>2 DEF RequestSound
  <2>2. CASE y # x
    <3> PICK q : q = imRequest[y]
      OBVIOUS
    <3>1. q \in ImRequestStates /\ RequestSound(q)
      BY <1>1, Zenon DEF ChannelsTyped, ChannelsInv
    <3>2. RequestSound(q)'
      BY <3>1, SoundKept
    <3>3. imRequest'[y] = q
      BY <2>2, <1>2
    <3> QED BY <3>2, <3>3 DEF RequestSound
  <2> QED BY <2>1, <2>2
<1> QED BY <1>3

\* The mode of a channel is undisturbed by requests that change none.
LEMMA ModeKept ==
    ASSUME ChannelsInv, NEW x \in ImRequests, NEW r \in ImRequestStates, Takes(x, r),
           imRequest[x].pc # "apply", r.pc # "apply",
           NEW c \in Channels, ModeFollows(c),
           imRow'[c].mode = imRow[c].mode, imRow'[c].bot = imRow[c].bot,
           routing'[c] = routing[c]
    PROVE  ModeFollows(c)'
<1>1. ChannelsTyped
  BY DEF ChannelsInv
<1>2. /\ imRequest'[x] = r
      /\ \A y \in ImRequests \ {x} : imRequest'[y] = imRequest[y]
  BY <1>1, RequestTaken
<1>3. \A y \in ImRequests : Changes(y, c)' <=> Changes(y, c)
  BY <1>2 DEF Changes
<1>4. \A y \in ImRequests : Changes(y, c) => imRequest'[y] = imRequest[y]
  BY <1>2 DEF Changes
<1>5. ModeOf(c)' = ModeOf(c)
  BY DEF ModeOf
<1> QED BY <1>3, <1>4, <1>5 DEF ModeFollows

\* A step that writes no row and no mode.
LEMMA ChannelQuietStep ==
    ASSUME ChannelsInv, NEW x \in ImRequests, NEW r \in ImRequestStates, Takes(x, r),
           UNCHANGED <<home, imRow, routing, stray, crossed>>,
           imRequest[x].pc # "apply", r.pc # "apply", RequestSound(r),
           Bound' \subseteq Boxes \X Channels, BoundAtHome',
           polled' \subseteq polled, asked' \in Nat
    PROVE  ChannelsInv'
<1>1. ChannelsTyped /\ ModesFollow /\ ~crossed
  BY DEF ChannelsInv
<1>2. ChannelsTyped'
  BY <1>1, RequestTaken, Zenon DEF ChannelsTyped
<1>3. RowsKeep
  BY DEF RowsKeep
<1>4. RequestSound(r)'
  BY DEF RequestSound
<1>5. \A y \in ImRequests : RequestSound(imRequest[y])'
  BY <1>3, <1>4, RequestsKept
<1>6. ModesFollow'
  <2>1. \A c \in Channels : imRow'[c].here = "unborn" => Untouched(c)'
    BY <1>1, Zenon DEF ModesFollow, Untouched
  <2>2. ASSUME NEW c \in Channels, Here(c)', c \notin stray' PROVE ModeFollows(c)'
    <3>1. ModeFollows(c)
      BY <2>2, <1>1 DEF ModesFollow, Here
    <3> QED BY <3>1, ModeKept
  <2> QED BY <2>1, <2>2 DEF ModesFollow
<1> QED BY <1>1, <1>2, <1>5, <1>6 DEF ChannelsInv

LEMMA ChannelsInitInv == ChannelsInit => ChannelsInv
<1> SUFFICES ASSUME ChannelsInit PROVE ChannelsInv
  OBVIOUS
<1>1. /\ home \in [Boxes -> Tenants] /\ Bound = {} /\ polled = {} /\ stray = {}
      /\ asked = 0 /\ ~crossed
      /\ imRow = [c \in Channels |-> NoRow]
      /\ routing \in [Channels -> {""}]
      /\ imRequest = [x \in ImRequests |-> NoImRequest]
  BY Zenon DEF ChannelsInit, Bound
<1>2. NoRow \in ImRowStates /\ NoRow.here = "unborn" /\ NoRow.mode = "codex"
  BY DEF NoRow, ImRowStates, Modes
<1>3. \A x \in ImRequests : imRequest[x] = NoImRequest
  BY <1>1, Zenon
<1>4. ChannelsTyped
  BY <1>1, <1>2, RequestIdle, Zenon DEF ChannelsTyped
<1>5. \A x \in ImRequests : RequestSound(imRequest[x])
  BY <1>3, RequestIdle
<1>6. BoundAtHome
  BY <1>1, Zenon DEF BoundAtHome
<1>7. ModesFollow
  BY <1>1, <1>2, Zenon DEF ModesFollow, Untouched, Here
<1> QED BY <1>1, <1>4, <1>5, <1>6, <1>7, Zenon DEF ChannelsInv

-----------------------------------------------------------------------------

\* A configure: its row is there, or is made.
LEMMA UpsertKeeps ==
    ASSUME ChannelsInv, NEW x \in ImRequests, Asks(x),
           NEW t \in Tenants, NEW bot \in Bots, NEW b \in Boxes \cup {NoBox},
           b # NoBox => t = home[b], Upsert(x, t, bot, b),
           UNCHANGED <<home, bindings, routing, polled, stray, crossed>>
    PROVE  ChannelsInv'
<1>1. ChannelsTyped /\ ModesFollow /\ BoundAtHome /\ ~crossed
  BY DEF ChannelsInv
<1>2. PICK c \in Channels :
         /\ RowFor(t, bot, c)
         /\ imRow' = [imRow EXCEPT ![c].here = "yes", ![c].tenant = t, ![c].bot = bot,
                                   ![c].bound = asked + 1]
         /\ Takes(x, [NoImRequest EXCEPT !.pc = "save", !.box = b, !.chans = {c}])
  BY Zenon DEF Upsert
<1>3. PICK r : r = [NoImRequest EXCEPT !.pc = "save", !.box = b, !.chans = {c}]
  OBVIOUS
<1>4. r \in ImRequestStates /\ r.pc = "save" /\ r.box = b /\ r.chans = {c}
  BY <1>3, Zenon DEF NoImRequest, ImRequestStates
<1>5. Takes(x, r) /\ imRequest[x].pc = "idle" /\ asked' = asked + 1
  BY <1>2, <1>3 DEF Asks
<1>6. imRow[c] \in ImRowStates
  BY <1>1, Zenon DEF ChannelsTyped
<1>7. /\ imRow' \in [Channels -> ImRowStates]
      /\ imRow'[c].here = "yes" /\ imRow'[c].tenant = t /\ imRow'[c].bot = bot
      /\ imRow'[c].mode = imRow[c].mode
      /\ \A d \in Channels \ {c} : imRow'[d] = imRow[d]
  <2>1. PICK w : w = [imRow[c] EXCEPT !.here = "yes", !.tenant = t, !.bot = bot,
                                      !.bound = asked + 1]
    OBVIOUS
  <2>2. asked + 1 \in Nat
    <3>1. asked \in Nat
      BY <1>1, Zenon DEF ChannelsTyped
    <3> QED BY <3>1
  <2>3. /\ w \in ImRowStates /\ w.here = "yes" /\ w.tenant = t /\ w.bot = bot
        /\ w.mode = imRow[c].mode
    BY <1>6, <2>1, <2>2, Zenon DEF ImRowStates
  <2>4. imRow' = [imRow EXCEPT ![c] = w]
    BY <1>2, <2>1, <1>1, Zenon DEF ChannelsTyped
  <2>5. imRow \in [Channels -> ImRowStates]
    BY <1>1, Zenon DEF ChannelsTyped
  <2> QED BY <2>3, <2>4, <2>5
<1>8. \/ imRow[c].here = "unborn"
      \/ Here(c) /\ imRow[c].tenant = t /\ imRow[c].bot = bot
  BY <1>2, Zenon DEF RowFor
<1>9. RowsKeep
  BY <1>7, <1>8 DEF RowsKeep
<1>10. RequestSound(r)'
  BY <1>4, <1>7 DEF RequestSound
<1>11. \A y \in ImRequests : RequestSound(imRequest[y])'
  BY <1>4, <1>5, <1>9, <1>10, RequestsKept
<1>12. BoundAtHome'
  BY <1>1, <1>9, HomeKept DEF Bound
<1>13. ChannelsTyped'
  <2>1. imRequest' \in [ImRequests -> ImRequestStates]
    BY <1>1, <1>4, <1>5, RequestTaken
  <2>2. asked' \in Nat
    <3>1. asked \in Nat
      BY <1>1, Zenon DEF ChannelsTyped
    <3> QED BY <3>1, <1>5
  <2> QED BY <1>1, <1>7, <2>1, <2>2, Zenon DEF ChannelsTyped, Bound
<1>14. ModesFollow'
  <2>1. ASSUME NEW d \in Channels, imRow'[d].here = "unborn" PROVE Untouched(d)'
    BY <2>1, <1>1, <1>7, Zenon DEF ModesFollow, Untouched
  <2>2. ASSUME NEW d \in Channels, Here(d)', d \notin stray' PROVE ModeFollows(d)'
    <3>1. CASE Here(d)
      <4>1. imRow'[d].mode = imRow[d].mode /\ imRow'[d].bot = imRow[d].bot
        BY <3>1, <1>7, <1>8 DEF Here
      <4>2. ModeFollows(d)
        BY <3>1, <2>2, <1>1 DEF ModesFollow
      <4> QED BY <4>1, <4>2, <1>4, <1>5, ModeKept
    <3>2. CASE ~Here(d)
      <4>1. d = c /\ imRow[c].here = "unborn"
        BY <3>2, <2>2, <1>7, <1>8 DEF Here
      <4>2. imRow'[d].mode = "codex" /\ routing'[d] = ""
        BY <4>1, <1>1, <1>7, Zenon DEF ModesFollow, Untouched
      <4>3. ModeOf(d)' = imRow'[d].mode
        BY <4>2, Zenon DEF ModeOf
      <4>4. \A y \in ImRequests : d \notin imRequest[y].chans
        BY <4>1 DEF ChannelsInv, RequestSound
      <4>5. \A y \in ImRequests : ~Changes(y, d)'
        BY <4>4, <1>1, <1>4, <1>5, RequestTaken DEF Changes
      <4> QED BY <4>3, <4>5 DEF ModeFollows
    <3> QED BY <3>1, <3>2
  <2> QED BY <2>1, <2>2 DEF ModesFollow
<1> QED BY <1>1, <1>11, <1>12, <1>13, <1>14 DEF ChannelsInv

LEMMA ConfigureKeeps ==
    ASSUME ChannelsInv, NEW x \in ImRequests,
           ConfigureForSandbox(x) \/ ConfigureForWorkspace(x) \/ ConfigureWebhook(x)
    PROVE  ChannelsInv'
<1>1. home \in [Boxes -> Tenants] /\ NoBox \notin Boxes /\ PushBots \subseteq Bots
  BY ChannelsAssumption, Zenon DEF ChannelsInv, ChannelsTyped
<1>2. CASE ConfigureForSandbox(x)
  <2>1. PICK b \in Boxes, bot \in Bots \ PushBots : Upsert(x, home[b], bot, b)
    BY <1>2 DEF ConfigureForSandbox
  <2>2. home[b] \in Tenants
    BY <1>1
  <2> QED BY <1>2, <2>1, <2>2, UpsertKeeps DEF ConfigureForSandbox
<1>3. CASE ConfigureForWorkspace(x)
  <2>1. PICK t \in Tenants, bot \in Bots \ PushBots : Upsert(x, t, bot, NoBox)
    BY <1>3 DEF ConfigureForWorkspace
  <2> QED BY <1>3, <2>1, UpsertKeeps DEF ConfigureForWorkspace
<1>4. CASE ConfigureWebhook(x)
  <2>1. PICK t \in Tenants, bot \in PushBots : Upsert(x, t, bot, NoBox)
    BY <1>4 DEF ConfigureWebhook
  <2> QED BY <1>1, <1>4, <2>1, UpsertKeeps DEF ConfigureWebhook
<1> QED BY <1>2, <1>3, <1>4

\* Ending a request.
LEMMA EndKeeps ==
    ASSUME ChannelsInv, NEW x \in ImRequests, Ends(x), imRequest[x].pc # "apply",
           UNCHANGED <<home, imRow, routing, polled, asked, stray, crossed>>,
           Bound' \subseteq Boxes \X Channels, BoundAtHome'
    PROVE  ChannelsInv'
<1>1. Takes(x, NoImRequest)
  BY DEF Ends
<1>2. asked' \in Nat
  BY Zenon DEF ChannelsInv, ChannelsTyped
<1> QED BY <1>1, <1>2, RequestIdle, ChannelQuietStep

LEMMA SaveKeeps ==
    ASSUME ChannelsInv, NEW x \in ImRequests, SaveToken(x)
    PROVE  ChannelsInv'
<1>1. ChannelsTyped /\ ModesFollow /\ BoundAtHome /\ ~crossed
  BY DEF ChannelsInv
<1>2. /\ imRequest[x].pc = "save" /\ UNCHANGED bindings /\ Bound' = Bound
      /\ UNCHANGED <<home, routing, polled, asked, stray, crossed>>
  BY DEF SaveToken, Bound
<1>3. PICK q : q = imRequest[x]
  OBVIOUS
<1>4. q \in ImRequestStates /\ RequestSound(q) /\ q.pc = "save"
  BY <1>1, <1>2, <1>3, Zenon DEF ChannelsTyped, ChannelsInv
<1>5. Of(x) \in Channels
  BY <1>2, OneChannel
<1>6. CASE UNCHANGED imRow /\ Ends(x)
  <2>1. BoundAtHome' /\ Bound' \subseteq Boxes \X Channels
    BY <1>1, <1>2, <1>6, Zenon DEF BoundAtHome, ChannelsTyped
  <2> QED BY <1>2, <1>6, <2>1, EndKeeps
<1>7. CASE /\ imRow' = [imRow EXCEPT ![Of(x)].token = Here(Of(x))]
           /\ IF imRow[Of(x)].bot \in PushBots THEN Ends(x)
              ELSE Moves(x, IF imRequest[x].box = NoBox THEN "start" ELSE "clear")
  <2>1. PICK r \in ImRequestStates :
           /\ Takes(x, r) /\ RequestSound(r) /\ r.pc # "apply"
    <3>1. CASE Ends(x)
      BY <3>1, RequestIdle DEF Ends
    <3>2. CASE Moves(x, IF imRequest[x].box = NoBox THEN "start" ELSE "clear")
      <4>1. PICK p \in {"start", "clear"} :
               p = IF imRequest[x].box = NoBox THEN "start" ELSE "clear"
        OBVIOUS
      <4>2. PICK r : r = [q EXCEPT !.pc = p]
        OBVIOUS
      <4>3. /\ r \in ImRequestStates /\ r.pc = p
            /\ r.box = q.box /\ r.chans = q.chans /\ r.mode = q.mode
        BY <1>4, <4>2, Zenon DEF ImRequestStates
      <4>4. Takes(x, r)
        BY <3>2, <4>1, <4>2, <1>3 DEF Moves
      <4>5. p = "clear" => q.box \in Boxes
        BY <4>1, <1>3, <1>4, Zenon DEF ImRequestStates
      <4>6. RequestSound(r)
        BY <4>3, <4>5, <1>4 DEF RequestSound
      <4> QED BY <4>3, <4>4, <4>6
    <3> QED BY <3>1, <3>2, <1>7
  <2>2. imRow[Of(x)] \in ImRowStates /\ Here(Of(x)) \in BOOLEAN
    BY <1>1, <1>5, Zenon DEF ChannelsTyped, Here
  <2>3. PICK here \in BOOLEAN : here = Here(Of(x))
    BY <2>2
  <2>4. imRow' = [imRow EXCEPT ![Of(x)].token = here]
    BY <1>7, <2>3
  <2>5. /\ imRow' \in [Channels -> ImRowStates]
        /\ \A c \in Channels : /\ imRow'[c].here = imRow[c].here
                               /\ imRow'[c].tenant = imRow[c].tenant
                               /\ imRow'[c].bot = imRow[c].bot
                               /\ imRow'[c].mode = imRow[c].mode
    BY <1>1, <1>5, <2>2, <2>4, Zenon DEF ChannelsTyped, ImRowStates
  <2>6. RowsKeep
    BY <2>5 DEF RowsKeep
  <2>7. RequestSound(r)'
    BY <2>1, <2>6, <1>2, SoundKept
  <2>8. \A y \in ImRequests : RequestSound(imRequest[y])'
    BY <2>1, <2>6, <2>7, <1>2, RequestsKept
  <2>9. BoundAtHome'
    BY <1>1, <1>2, <2>6, HomeKept
  <2>10. ChannelsTyped'
    BY <1>1, <1>2, <2>1, <2>5, RequestTaken, Zenon DEF ChannelsTyped
  <2>11. ModesFollow'
    <3>1. \A c \in Channels : imRow'[c].here = "unborn" => Untouched(c)'
      BY <1>1, <1>2, <2>5, Zenon DEF ModesFollow, Untouched
    <3>2. ASSUME NEW c \in Channels, Here(c)', c \notin stray' PROVE ModeFollows(c)'
      <4>1. Here(c) /\ c \notin stray
        BY <3>2, <1>2, <2>5 DEF Here
      <4>2. ModeFollows(c)
        BY <4>1, <1>1 DEF ModesFollow
      <4> QED BY <4>2, <1>2, <2>1, <2>5, ModeKept
    <3> QED BY <3>1, <3>2 DEF ModesFollow
  <2> QED BY <1>1, <1>2, <2>8, <2>9, <2>10, <2>11 DEF ChannelsInv
<1> QED BY <1>6, <1>7 DEF SaveToken

\* A new request that writes nothing yet.
LEMMA AskKeeps ==
    ASSUME ChannelsInv, NEW x \in ImRequests, Asks(x),
           NEW r \in ImRequestStates, Takes(x, r), r.pc # "apply", RequestSound(r),
           UNCHANGED <<home, imRow, bindings, routing, stray, crossed>>,
           polled' \subseteq polled
    PROVE  ChannelsInv'
<1>1. imRequest[x].pc = "idle" /\ asked' = asked + 1
  BY DEF Asks
<1>2. asked \in Nat
  BY Zenon DEF ChannelsInv, ChannelsTyped
<1>3. asked' \in Nat
  BY <1>1, <1>2
<1>4. BoundAtHome' /\ Bound' \subseteq Boxes \X Channels
  BY Zenon DEF ChannelsInv, ChannelsTyped, BoundAtHome, Bound
<1> QED BY <1>1, <1>3, <1>4, ChannelQuietStep

LEMMA BindAskKeeps ==
    ASSUME ChannelsInv, NEW x \in ImRequests, BindRequest(x) \/ BindMulti(x)
    PROVE  ChannelsInv'
<1>1. CASE BindRequest(x)
  <2>1. PICK b \in Boxes, c \in Channels :
           /\ Here(c) /\ imRow[c].tenant = home[b]
           /\ Takes(x, [NoImRequest EXCEPT !.pc = "displace", !.box = b, !.chans = {c}])
    BY <1>1, Zenon DEF BindRequest
  <2>2. PICK r : r = [NoImRequest EXCEPT !.pc = "displace", !.box = b, !.chans = {c}]
    OBVIOUS
  <2>3. r \in ImRequestStates /\ r.pc = "displace" /\ r.box = b /\ r.chans = {c}
    BY <2>2, Zenon DEF NoImRequest, ImRequestStates
  <2>4. RequestSound(r)
    BY <2>1, <2>3 DEF RequestSound, Here
  <2>5. Takes(x, r)
    BY <2>1, <2>2
  <2> QED BY <1>1, <2>3, <2>4, <2>5, AskKeeps, Zenon DEF BindRequest
<1>2. CASE BindMulti(x)
  <2>1. PICK b \in Boxes, cs \in SUBSET Channels \ {{}} :
           /\ \A c \in cs : Here(c) /\ imRow[c].tenant = home[b]
           /\ Takes(x, [NoImRequest EXCEPT !.pc = "insert", !.box = b, !.chans = cs])
    BY <1>2, Zenon DEF BindMulti
  <2>2. PICK r : r = [NoImRequest EXCEPT !.pc = "insert", !.box = b, !.chans = cs]
    OBVIOUS
  <2>3. r \in ImRequestStates /\ r.pc = "insert" /\ r.box = b /\ r.chans = cs
    BY <2>2, Zenon DEF NoImRequest, ImRequestStates
  <2>4. RequestSound(r)
    BY <2>1, <2>3 DEF RequestSound, Here
  <2>5. Takes(x, r)
    BY <2>1, <2>2
  <2> QED BY <1>2, <2>3, <2>4, <2>5, AskKeeps, Zenon DEF BindMulti
<1> QED BY <1>1, <1>2

\* The bindings of a sandbox name channels that were made.
LEMMA LatestMade ==
    ASSUME ChannelsInv, NEW b \in Boxes, NEW p \in Latest(PairsOfBox(b))
    PROVE  p[2] \in Channels /\ imRow[p[2]].here # "unborn"
<1>1. p \in Bound
  BY DEF Latest, PairsOfBox
<1> QED BY <1>1, Zenon DEF ChannelsInv, ChannelsTyped, BoundAtHome

LEMMA ModeAskKeeps ==
    ASSUME ChannelsInv, NEW x \in ImRequests,
           \/ UpdateRequest(x) \/ DeleteRequest(x)
           \/ DisconnectRequest(x) \/ RestoreRequest(x)
    PROVE  ChannelsInv'
<1>1. CASE UpdateRequest(x)
  <2>1. PICK c \in Channels, m \in Modes :
           /\ Here(c)
           /\ Takes(x, [NoImRequest EXCEPT !.pc = "update", !.chans = {c}, !.mode = m])
    BY <1>1, Zenon DEF UpdateRequest
  <2>2. PICK r : r = [NoImRequest EXCEPT !.pc = "update", !.chans = {c}, !.mode = m]
    OBVIOUS
  <2>3. r \in ImRequestStates /\ r.pc = "update" /\ r.mode = m /\ r.chans = {c}
    BY <2>2, Zenon DEF NoImRequest, ImRequestStates
  <2>4. RequestSound(r)
    BY <2>1, <2>3 DEF RequestSound, Here
  <2>5. Takes(x, r)
    BY <2>1, <2>2
  <2> QED BY <1>1, <2>3, <2>4, <2>5, AskKeeps, Zenon DEF UpdateRequest
<1>2. CASE DeleteRequest(x)
  <2>1. PICK c \in Channels :
           /\ Here(c) /\ polled' = polled \ {c}
           /\ Takes(x, [NoImRequest EXCEPT !.pc = "delete", !.chans = {c}])
    BY <1>2, Zenon DEF DeleteRequest
  <2>2. PICK r : r = [NoImRequest EXCEPT !.pc = "delete", !.chans = {c}]
    OBVIOUS
  <2>3. r \in ImRequestStates /\ r.pc = "delete" /\ r.chans = {c}
    BY <2>2, Zenon DEF NoImRequest, ImRequestStates
  <2>4. RequestSound(r)
    BY <2>1, <2>3 DEF RequestSound, Here
  <2>5. Takes(x, r) /\ polled' \subseteq polled
    BY <2>1, <2>2
  <2> QED BY <1>2, <2>3, <2>4, <2>5, AskKeeps, Zenon DEF DeleteRequest
<1>3. CASE DisconnectRequest(x)
  <2> PICK b \in Boxes : \E p \in Latest(PairsOfBox(b)) :
         /\ polled' = polled \ {p[2]}
         /\ Takes(x, [NoImRequest EXCEPT !.pc = "unbind", !.box = b, !.chans = {p[2]}])
    BY <1>3, Zenon DEF DisconnectRequest
  <2>1. PICK p \in Latest(PairsOfBox(b)) :
           /\ polled' = polled \ {p[2]}
           /\ Takes(x, [NoImRequest EXCEPT !.pc = "unbind", !.box = b, !.chans = {p[2]}])
    BY Zenon
  <2>2. PICK r : r = [NoImRequest EXCEPT !.pc = "unbind", !.box = b, !.chans = {p[2]}]
    OBVIOUS
  <2>3. p[2] \in Channels /\ imRow[p[2]].here # "unborn"
    BY <2>1, LatestMade
  <2>4. r \in ImRequestStates /\ r.pc = "unbind" /\ r.chans = {p[2]}
    BY <2>2, <2>3, Zenon DEF NoImRequest, ImRequestStates
  <2>5. RequestSound(r)
    BY <2>3, <2>4 DEF RequestSound
  <2>6. Takes(x, r) /\ polled' \subseteq polled
    BY <2>1, <2>2
  <2> QED BY <1>3, <2>4, <2>5, <2>6, AskKeeps, Zenon DEF DisconnectRequest
<1>4. CASE RestoreRequest(x)
  <2> PICK b \in Boxes : \E p \in Latest(PairsOfBox(b)) :
         Takes(x, [NoImRequest EXCEPT !.pc = "start", !.chans = {p[2]},
                                      !.mode = imRow[p[2]].mode])
    BY <1>4, Zenon DEF RestoreRequest
  <2>1. PICK p \in Latest(PairsOfBox(b)) :
           Takes(x, [NoImRequest EXCEPT !.pc = "start", !.chans = {p[2]},
                                        !.mode = imRow[p[2]].mode])
    BY Zenon
  <2>2. PICK r : r = [NoImRequest EXCEPT !.pc = "start", !.chans = {p[2]},
                                         !.mode = imRow[p[2]].mode]
    OBVIOUS
  <2>3. p[2] \in Channels /\ imRow[p[2]].here # "unborn" /\ imRow[p[2]].mode \in Modes
    BY <2>1, LatestMade, Zenon DEF ChannelsInv, ChannelsTyped, ImRowStates
  <2>4. r \in ImRequestStates /\ r.pc = "start" /\ r.chans = {p[2]}
    BY <2>2, <2>3, Zenon DEF NoImRequest, ImRequestStates
  <2>5. RequestSound(r)
    BY <2>3, <2>4 DEF RequestSound
  <2>6. Takes(x, r)
    BY <2>1, <2>2
  <2> QED BY <1>4, <2>4, <2>5, <2>6, AskKeeps, Zenon DEF RestoreRequest
<1> QED BY <1>1, <1>2, <1>3, <1>4

\* BindSandboxToChannel.
LEMMA BindKeeps ==
    ASSUME ChannelsInv, NEW x \in ImRequests, ClearBindings(x) \/ CommitBinding(x)
    PROVE  ChannelsInv'
<1>1. ChannelsTyped /\ BoundAtHome /\ asked \in Nat
  BY Zenon DEF ChannelsInv, ChannelsTyped
<1>2. PICK q : q = imRequest[x]
  OBVIOUS
<1>3. q \in ImRequestStates /\ RequestSound(q)
  BY <1>1, <1>2, Zenon DEF ChannelsTyped, ChannelsInv
<1>4. CASE ClearBindings(x)
  <2>1. q.pc \in {"clear", "displace"}
    BY <1>2, <1>4 DEF ClearBindings
  <2>2. PICK r : r = [q EXCEPT !.pc = IF q.pc = "clear" THEN "bind" ELSE "rebind",
                               !.seen = Bound]
    OBVIOUS
  <2>3. Takes(x, r)
    BY <1>2, <1>4, <2>2, <1>3, Zenon DEF ClearBindings, ImRequestStates
  <2>4. /\ r \in ImRequestStates /\ r.pc \in {"bind", "rebind"}
        /\ r.box = q.box /\ r.chans = q.chans
    BY <1>1, <1>3, <2>1, <2>2, Zenon DEF ImRequestStates, ChannelsTyped
  <2>5. RequestSound(r)
    BY <1>3, <2>1, <2>4 DEF RequestSound
  <2>6. BoundAtHome' /\ Bound' \subseteq Boxes \X Channels
    BY <1>1, <1>4, Zenon DEF ClearBindings, BoundAtHome, Bound, ChannelsTyped
  <2> QED BY <1>1, <1>2, <1>4, <2>1, <2>3, <2>4, <2>5, <2>6, ChannelQuietStep DEF ClearBindings
<1>5. CASE CommitBinding(x)
  <2>1. /\ q.pc \in {"bind", "rebind"} /\ UNCHANGED <<imRow, home>>
        /\ imRequest[x].pc # "apply" /\ imRequest[x].pc \notin {"idle", "insert"}
    BY <1>2, <1>5 DEF CommitBinding
  <2>2. CASE UNCHANGED bindings /\ Ends(x)
    <3>1. BoundAtHome' /\ Bound' \subseteq Boxes \X Channels
      BY <1>1, <2>1, <2>2, Zenon DEF BoundAtHome, Bound, ChannelsTyped
    <3> QED BY <1>5, <2>1, <2>2, <3>1, EndKeeps DEF CommitBinding
  <2>3. CASE ~(UNCHANGED bindings /\ Ends(x))
    <3>1. /\ Here(Of(x))
          /\ bindings' = LET kept == WithoutPairs(q.seen \cap PairsOfChannel(Of(x)))
                         IN WithPairs(kept, {<<q.box, Of(x)>>}, DOMAIN kept \cap q.seen)
          /\ CASE q.pc = "bind" -> Takes(x, [q EXCEPT !.pc = "start", !.seen = {}])
               [] q.pc = "rebind" /\ q.box \in OpenclawBoxes ->
                     Takes(x, [q EXCEPT !.pc = "mode", !.mode = "openclaw", !.seen = {}])
               [] OTHER -> Ends(x)
      BY <1>2, <1>5, <2>3 DEF CommitBinding
    <3>2. Of(x) \in Channels /\ q.chans = {Of(x)} /\ q.box \in Boxes
      BY <1>2, <1>3, <2>1, OneChannel DEF RequestSound
    <3>3. Bound' \subseteq Bound \cup {<<q.box, Of(x)>>}
      <4>1. PICK kept : kept = WithoutPairs(q.seen \cap PairsOfChannel(Of(x)))
        OBVIOUS
      <4>2. bindings' = WithPairs(kept, {<<q.box, Of(x)>>}, DOMAIN kept \cap q.seen)
        BY <3>1, <4>1
      <4>3. DOMAIN kept \subseteq Bound
        BY <4>1, PairsLeft
      <4>4. DOMAIN bindings' = DOMAIN kept \cup {<<q.box, Of(x)>>}
        BY <4>2, PairsAdded
      <4> QED BY <4>3, <4>4 DEF Bound
    <3>4. Bound' \subseteq Boxes \X Channels
      <4>1. Bound \subseteq Boxes \X Channels
        BY <1>1, Zenon DEF ChannelsTyped
      <4>2. <<q.box, Of(x)>> \in Boxes \X Channels
        BY <3>2
      <4> QED BY <3>3, <4>1, <4>2
    <3>5. imRow[Of(x)].here # "unborn" /\ imRow[Of(x)].tenant = home[q.box]
      <4>1. q.box # NoBox /\ Of(x) \in q.chans
        BY <3>2, ChannelsAssumption
      <4> QED BY <4>1, <1>3, <2>1 DEF RequestSound
    <3>6. BoundAtHome'
      BY <1>1, <2>1, <3>3, <3>5 DEF BoundAtHome
    <3>7. PICK r \in ImRequestStates : Takes(x, r) /\ r.pc # "apply" /\ RequestSound(r)
      <4>1. CASE q.pc = "bind"
        <5>1. PICK r : r = [q EXCEPT !.pc = "start", !.seen = {}]
          OBVIOUS
        <5>2. r \in ImRequestStates /\ r.pc = "start" /\ r.chans = q.chans
          BY <5>1, <1>3, Zenon DEF ImRequestStates
        <5>3. RequestSound(r)
          BY <5>2, <1>3, <4>1 DEF RequestSound
        <5>4. Takes(x, [q EXCEPT !.pc = "start", !.seen = {}])
          BY <3>1, <4>1
        <5>5. Takes(x, r)
          BY <5>1, <5>4
        <5> QED BY <5>2, <5>3, <5>5
      <4>2. CASE q.pc = "rebind" /\ q.box \in OpenclawBoxes
        <5>1. PICK r : r = [q EXCEPT !.pc = "mode", !.mode = "openclaw", !.seen = {}]
          OBVIOUS
        <5>2. r \in ImRequestStates /\ r.pc = "mode" /\ r.chans = q.chans /\ r.mode \in Modes
          BY <5>1, <1>3, Zenon DEF ImRequestStates, Modes
        <5>3. RequestSound(r)
          BY <5>2, <1>3, <2>1 DEF RequestSound
        <5>4. Takes(x, r)
          BY <3>1, <4>2, <5>1
        <5> QED BY <5>2, <5>3, <5>4
      <4>3. CASE q.pc = "rebind" /\ q.box \notin OpenclawBoxes
        BY <3>1, <4>3, RequestIdle DEF Ends
      <4> QED BY <2>1, <4>1, <4>2, <4>3
    <3> QED BY <1>1, <1>5, <2>1, <3>4, <3>6, <3>7, ChannelQuietStep DEF CommitBinding
  <2> QED BY <2>2, <2>3
<1> QED BY <1>4, <1>5

\* BindSandboxChannels, and what unbinds.
LEMMA BindingsKeep ==
    ASSUME ChannelsInv, NEW x \in ImRequests,
           InsertBindings(x) \/ UnbindRequest(x) \/ UnbindForDelete(x)
    PROVE  ChannelsInv'
<1>1. ChannelsTyped /\ BoundAtHome /\ ModesFollow /\ ~crossed /\ asked \in Nat
  BY Zenon DEF ChannelsInv, ChannelsTyped
<1>2. PICK q : q = imRequest[x]
  OBVIOUS
<1>3. q \in ImRequestStates /\ RequestSound(q)
  BY <1>1, <1>2, Zenon DEF ChannelsTyped, ChannelsInv
<1>4. CASE InsertBindings(x)
  <2>1. q.pc = "insert" /\ UNCHANGED <<imRow, home>> /\ imRequest[x].pc # "apply"
    BY <1>2, <1>4 DEF InsertBindings
  <2>2. \/ bindings' = WithPairs(bindings, {<<q.box, c>> : c \in q.chans}, Bound)
        \/ UNCHANGED bindings
    BY <1>2, <1>4 DEF InsertBindings
  <2>3. Bound' \subseteq Bound \cup {<<q.box, c>> : c \in q.chans}
    <3>1. CASE bindings' = WithPairs(bindings, {<<q.box, c>> : c \in q.chans}, Bound)
      <4>1. PICK new : new = {<<q.box, c>> : c \in q.chans}
        OBVIOUS
      <4>2. DOMAIN bindings' = DOMAIN bindings \cup new
        BY <3>1, <4>1, PairsAdded
      <4> QED BY <4>1, <4>2 DEF Bound
    <3>2. CASE UNCHANGED bindings
      BY <3>2 DEF Bound
    <3> QED BY <2>2, <3>1, <3>2
  <2>4. q.box \in Boxes /\ q.box # NoBox /\ q.chans \subseteq Channels
    BY <1>3, <2>1, ChannelsAssumption, Zenon DEF RequestSound, ImRequestStates
  <2>5. \A c \in q.chans : imRow[c].here # "unborn" /\ imRow[c].tenant = home[q.box]
    BY <1>3, <2>1, <2>4 DEF RequestSound
  <2>6. Bound' \subseteq Boxes \X Channels
    <3>1. Bound \subseteq Boxes \X Channels
      BY <1>1, Zenon DEF ChannelsTyped
    <3>2. {<<q.box, c>> : c \in q.chans} \subseteq Boxes \X Channels
      BY <2>4
    <3> QED BY <2>3, <3>1, <3>2
  <2>7. BoundAtHome'
    BY <1>1, <2>1, <2>3, <2>5 DEF BoundAtHome
  <2> QED BY <1>4, <2>1, <2>6, <2>7, EndKeeps DEF InsertBindings
<1>5. CASE UnbindForDelete(x)
  <2>1. /\ q.pc = "unbind" /\ UNCHANGED <<imRow, home>>
        /\ bindings' \in {bindings, WithoutPairs(PairsOfBox(imRequest[x].box))}
    BY <1>2, <1>5 DEF UnbindForDelete
  <2>2. Bound' \subseteq Bound
    BY <2>1, PairsLeft DEF Bound
  <2>3. RowsKeep
    BY <2>1 DEF RowsKeep
  <2>4. BoundAtHome' /\ Bound' \subseteq Boxes \X Channels
    BY <1>1, <2>1, <2>2, <2>3, HomeKept, Zenon DEF ChannelsTyped
  <2>5. PICK r : r = [q EXCEPT !.pc = "delete"]
    OBVIOUS
  <2>6. r \in ImRequestStates /\ r.pc = "delete" /\ r.chans = q.chans
    BY <1>3, <2>5, Zenon DEF ImRequestStates
  <2>7. RequestSound(r)
    BY <1>3, <2>1, <2>6 DEF RequestSound
  <2>8. Takes(x, r)
    BY <1>2, <1>5, <2>5 DEF UnbindForDelete, Moves
  <2> QED BY <1>1, <1>2, <1>5, <2>1, <2>4, <2>6, <2>7, <2>8, ChannelQuietStep DEF UnbindForDelete
<1>6. CASE UnbindRequest(x)
  <2>1. /\ UNCHANGED <<home, imRow, routing, polled, imRequest, stray, crossed>>
        /\ asked' = asked + 1
        /\ \E b \in Boxes : bindings' = WithoutPairs(PairsOfBox(b))
    BY <1>6 DEF UnbindRequest, Asks
  <2>2. Bound' \subseteq Bound
    BY <2>1, PairsLeft DEF Bound
  <2>3. RowsKeep
    BY <2>1 DEF RowsKeep
  <2>4. BoundAtHome' /\ Bound' \subseteq Boxes \X Channels
    BY <1>1, <2>1, <2>2, <2>3, HomeKept, Zenon DEF ChannelsTyped
  <2>5. asked' \in Nat
    BY <1>1, <2>1
  <2>6. ChannelsTyped'
    BY <1>1, <2>1, <2>4, <2>5, Zenon DEF ChannelsTyped
  <2>7. \A y \in ImRequests : RequestSound(imRequest[y])'
    BY <2>1 DEF ChannelsInv, RequestSound
  <2>8. ModesFollow'
    BY <1>1, <2>1, Zenon DEF ModesFollow, ModeFollows, Untouched, Changes, ModeOf, Here
  <2> QED BY <1>1, <2>1, <2>4, <2>6, <2>7, <2>8 DEF ChannelsInv
<1> QED BY <1>4, <1>5, <1>6

\* StartPoller: memory may differ from the row until the next change.
LEMMA StartKeeps ==
    ASSUME ChannelsInv, NEW x \in ImRequests, Start(x)
    PROVE  ChannelsInv'
<1>1. ChannelsTyped /\ BoundAtHome /\ ModesFollow /\ ~crossed
  BY DEF ChannelsInv
<1>2. /\ imRequest[x].pc = "start" /\ Takes(x, NoImRequest)
      /\ UNCHANGED <<home, imRow, bindings, asked, crossed>>
      /\ polled' = polled \cup {Of(x)} /\ stray' = stray \cup {Of(x)}
      /\ routing' = [routing EXCEPT ![Of(x)] = imRequest[x].mode]
  BY DEF Start, Ends
<1>3. Of(x) \in Channels /\ imRow[Of(x)].here # "unborn" /\ imRequest[x].mode \in Modes \cup {""}
  BY <1>1, <1>2, OneChannel, Zenon DEF ChannelsTyped, ImRequestStates
<1>4. RowsKeep /\ RequestSound(NoImRequest)'
  BY <1>2, RequestIdle DEF RowsKeep, RequestSound
<1>5. \A y \in ImRequests : RequestSound(imRequest[y])'
  BY <1>2, <1>4, RequestIdle, RequestsKept
<1>6. BoundAtHome'
  BY <1>1, <1>2, <1>4, HomeKept DEF Bound
<1>7. routing' \in [Channels -> Modes \cup {""}]
      /\ \A c \in Channels \ {Of(x)} : routing'[c] = routing[c]
  BY <1>1, <1>2, <1>3, Zenon DEF ChannelsTyped
<1>8. ChannelsTyped'
  BY <1>1, <1>2, <1>3, <1>7, RequestIdle, RequestTaken, Zenon DEF ChannelsTyped, Bound
<1>9. ModesFollow'
  <2>1. ASSUME NEW c \in Channels, imRow'[c].here = "unborn" PROVE Untouched(c)'
    BY <2>1, <1>1, <1>2, <1>3, <1>7, Zenon DEF ModesFollow, Untouched
  <2>2. ASSUME NEW c \in Channels, Here(c)', c \notin stray' PROVE ModeFollows(c)'
    <3>1. ModeFollows(c) /\ c # Of(x)
      BY <2>2, <1>1, <1>2 DEF ModesFollow, Here
    <3> QED BY <3>1, <1>2, <1>7, RequestIdle, ModeKept, Zenon
  <2> QED BY <2>1, <2>2 DEF ModesFollow
<1> QED BY <1>1, <1>2, <1>5, <1>6, <1>8, <1>9 DEF ChannelsInv

\* The row takes the mode of a change, or refuses it.
LEMMA RowModeKeeps ==
    ASSUME ChannelsInv, NEW x \in ImRequests, SetRowMode(x)
    PROVE  ChannelsInv'
<1>1. ChannelsTyped /\ BoundAtHome /\ ModesFollow /\ ~crossed
  BY DEF ChannelsInv
<1>2. PICK q : q = imRequest[x]
  OBVIOUS
<1>3. q \in ImRequestStates /\ RequestSound(q)
  BY <1>1, <1>2, Zenon DEF ChannelsTyped, ChannelsInv
<1>4. /\ q.pc \in {"update", "mode"} /\ imRequest[x].pc \notin {"idle", "insert", "apply"}
      /\ UNCHANGED <<home, bindings, routing, polled, asked, crossed>>
  BY <1>2 DEF SetRowMode
<1>5. PICK c \in Channels : c = Of(x) /\ q.chans = {c} /\ imRow[c].here # "unborn"
  BY <1>2, <1>4, OneChannel
<1>6. q.mode \in Modes
  BY <1>3, <1>4 DEF RequestSound
<1>7. PICK r : r = [q EXCEPT !.pc = "apply"]
  OBVIOUS
<1>8. r \in ImRequestStates /\ r.pc = "apply" /\ r.chans = {c} /\ r.mode = q.mode
  BY <1>3, <1>5, <1>7, Zenon DEF ImRequestStates
<1>9. RequestSound(r)
  BY <1>3, <1>4, <1>5, <1>6, <1>8 DEF RequestSound
<1>10. Moves(x, "apply") <=> Takes(x, r)
  BY <1>2, <1>7 DEF Moves
<1>11. CASE UNCHANGED <<imRow, stray>> /\ Ends(x)
  <2>1. BoundAtHome' /\ Bound' \subseteq Boxes \X Channels
    BY <1>1, <1>4, <1>11, Zenon DEF BoundAtHome, Bound, ChannelsTyped
  <2> QED BY <1>4, <1>11, <2>1, EndKeeps
<1>12. CASE /\ Takes(x, r)
            /\ \/ UNCHANGED imRow
               \/ imRow' = [imRow EXCEPT ![c].mode = IF Here(c) THEN q.mode ELSE @]
            /\ \/ stray' = stray \cup {c}
               \/ /\ stray' = stray \ {c} /\ ~Overlapped(x)
                  /\ imRow' = [imRow EXCEPT ![c].mode = IF Here(c) THEN q.mode ELSE @]
  <2>1. /\ imRow' \in [Channels -> ImRowStates]
        /\ \A d \in Channels : /\ imRow'[d].here = imRow[d].here
                               /\ imRow'[d].tenant = imRow[d].tenant
                               /\ imRow'[d].bot = imRow[d].bot
        /\ \A d \in Channels \ {c} : imRow'[d] = imRow[d]
    <3>1. imRow \in [Channels -> ImRowStates] /\ imRow[c] \in ImRowStates
      BY <1>1, Zenon DEF ChannelsTyped
    <3>2. PICK m \in Modes : m = IF Here(c) THEN q.mode ELSE imRow[c].mode
      BY <1>6, <3>1, Zenon DEF ImRowStates
    <3>3. PICK w : w = [imRow[c] EXCEPT !.mode = m]
      OBVIOUS
    <3>4. /\ w \in ImRowStates /\ w.here = imRow[c].here /\ w.tenant = imRow[c].tenant
          /\ w.bot = imRow[c].bot
      BY <3>1, <3>2, <3>3, Zenon DEF ImRowStates
    <3>5. UNCHANGED imRow \/ imRow' = [imRow EXCEPT ![c] = w]
      BY <1>12, <3>1, <3>2, <3>3
    <3>6. CASE UNCHANGED imRow
      BY <3>1, <3>6
    <3>7. CASE imRow' = [imRow EXCEPT ![c] = w]
      BY <3>1, <3>4, <3>7
    <3> QED BY <3>5, <3>6, <3>7
  <2>2. Here(c) /\ imRow' = [imRow EXCEPT ![c].mode = IF Here(c) THEN q.mode ELSE @]
           => imRow'[c].mode = q.mode
    BY <1>1, ZenonT(40) DEF ChannelsTyped, ImRowStates
  <2>3. RowsKeep
    BY <2>1 DEF RowsKeep
  <2>4. RequestSound(r)'
    BY <1>4, <1>8, <1>9, <2>3, SoundKept
  <2>5. \A y \in ImRequests : RequestSound(imRequest[y])'
    BY <1>4, <1>8, <1>12, <2>3, <2>4, RequestsKept
  <2>6. BoundAtHome'
    BY <1>1, <1>4, <2>3, HomeKept DEF Bound
  <2>7. ChannelsTyped'
    <3>1. imRequest' \in [ImRequests -> ImRequestStates]
      BY <1>1, <1>8, <1>12, RequestTaken
    <3>2. stray' \subseteq Channels
      BY <1>1, <1>12, Zenon DEF ChannelsTyped
    <3> QED BY <1>1, <1>4, <2>1, <3>1, <3>2, Zenon DEF ChannelsTyped, Bound
  <2>8. /\ imRequest'[x] = r
        /\ \A y \in ImRequests \ {x} : imRequest'[y] = imRequest[y]
    BY <1>1, <1>8, <1>12, RequestTaken
  <2>9. ModesFollow'
    <3>1. ASSUME NEW d \in Channels, imRow'[d].here = "unborn" PROVE Untouched(d)'
      BY <3>1, <1>1, <1>4, <1>5, <2>1, ZenonT(40) DEF ModesFollow, Untouched
    <3>2. ASSUME NEW d \in Channels, Here(d)', d \notin stray' PROVE ModeFollows(d)'
      <4>1. CASE d = c
        <5>1. /\ ~Overlapped(x) /\ Here(c)
              /\ imRow' = [imRow EXCEPT ![c].mode = IF Here(c) THEN q.mode ELSE @]
          BY <3>2, <4>1, <1>12, <2>1 DEF Here
        <5>2. imRow'[c].mode = r.mode
          BY <5>1, <2>2, <1>8
        <5>3. \A y \in ImRequests : Changes(y, c)' => y = x
          <6>1. SUFFICES ASSUME NEW y \in ImRequests \ {x}, Changes(y, c)' PROVE FALSE
            OBVIOUS
          <6>2. imRequest[y].pc = "apply" /\ c \in imRequest[y].chans
            BY <6>1, <2>8 DEF Changes
          <6>3. Of(y) = c
            BY <6>2, OneChannel
          <6> QED BY <6>2, <6>3, <5>1, <1>5 DEF Overlapped
        <5>4. Changes(x, c)'
          BY <2>8, <1>8 DEF Changes
        <5> QED BY <4>1, <5>2, <5>3, <5>4, <2>8 DEF ModeFollows
      <4>2. CASE d # c
        <5>1. ModeFollows(d)
          BY <3>2, <4>2, <1>1, <1>12, <2>1 DEF ModesFollow, Here
        <5>2. \A y \in ImRequests : Changes(y, d)' <=> Changes(y, d)
          BY <4>2, <2>8, <1>8, <1>4 DEF Changes
        <5>3. \A y \in ImRequests : Changes(y, d) => imRequest'[y] = imRequest[y]
          BY <2>8, <1>4 DEF Changes
        <5>4. imRow'[d] = imRow[d] /\ ModeOf(d)' = ModeOf(d)
          BY <4>2, <2>1, <1>4, Zenon DEF ModeOf
        <5> QED BY <5>1, <5>2, <5>3, <5>4 DEF ModeFollows
      <4> QED BY <4>1, <4>2
    <3> QED BY <3>1, <3>2 DEF ModesFollow
  <2> QED BY <1>1, <1>4, <2>5, <2>6, <2>7, <2>9 DEF ChannelsInv
<1>13. \/ UNCHANGED <<imRow, stray>> /\ Ends(x)
       \/ /\ Takes(x, r)
          /\ \/ UNCHANGED imRow
             \/ imRow' = [imRow EXCEPT ![c].mode = IF Here(c) THEN q.mode ELSE @]
          /\ \/ stray' = stray \cup {c}
             \/ /\ stray' = stray \ {c} /\ ~Overlapped(x)
                /\ imRow' = [imRow EXCEPT ![c].mode = IF Here(c) THEN q.mode ELSE @]
  BY <1>2, <1>5, <1>10 DEF SetRowMode
<1> QED BY <1>11, <1>12, <1>13

\* Memory takes the mode of a change.
LEMMA ApplyKeeps ==
    ASSUME ChannelsInv, NEW x \in ImRequests, SetChannelRoutingMode(x)
    PROVE  ChannelsInv'
<1>1. ChannelsTyped /\ BoundAtHome /\ ModesFollow /\ ~crossed
  BY DEF ChannelsInv
<1>2. PICK q : q = imRequest[x]
  OBVIOUS
<1>3. q \in ImRequestStates /\ RequestSound(q)
  BY <1>1, <1>2, Zenon DEF ChannelsTyped, ChannelsInv
<1>4. /\ q.pc = "apply" /\ Takes(x, NoImRequest)
      /\ UNCHANGED <<home, imRow, bindings, polled, asked, stray, crossed>>
      /\ routing' = [routing EXCEPT ![Of(x)] = q.mode]
  BY <1>2 DEF SetChannelRoutingMode, Ends
<1>5. PICK c \in Channels : c = Of(x) /\ q.chans = {c} /\ imRow[c].here # "unborn"
  BY <1>2, <1>4, OneChannel
<1>6. q.mode \in Modes /\ q.mode # ""
  BY <1>3, <1>4, Zenon DEF RequestSound, Modes
<1>7. /\ routing' \in [Channels -> Modes \cup {""}] /\ routing'[c] = q.mode
      /\ \A d \in Channels \ {c} : routing'[d] = routing[d]
  BY <1>1, <1>4, <1>5, <1>6, Zenon DEF ChannelsTyped
<1>8. RowsKeep /\ RequestSound(NoImRequest)'
  BY <1>4, RequestIdle DEF RowsKeep, RequestSound
<1>9. \A y \in ImRequests : RequestSound(imRequest[y])'
  BY <1>4, <1>8, RequestIdle, RequestsKept
<1>10. BoundAtHome'
  BY <1>1, <1>4, <1>8, HomeKept DEF Bound
<1>11. ChannelsTyped'
  BY <1>1, <1>4, <1>7, RequestIdle, RequestTaken, Zenon DEF ChannelsTyped, Bound
<1>12. /\ imRequest'[x] = NoImRequest
       /\ \A y \in ImRequests \ {x} : imRequest'[y] = imRequest[y]
  BY <1>1, <1>4, RequestIdle, RequestTaken
<1>13. ModesFollow'
  <2>1. ASSUME NEW d \in Channels, imRow'[d].here = "unborn" PROVE Untouched(d)'
    BY <2>1, <1>1, <1>4, <1>5, <1>7, Zenon DEF ModesFollow, Untouched
  <2>2. ASSUME NEW d \in Channels, Here(d)', d \notin stray' PROVE ModeFollows(d)'
    <3>1. ModeFollows(d)
      BY <2>2, <1>1, <1>4 DEF ModesFollow, Here
    <3>2. \A y \in ImRequests : Changes(y, d)' <=> y # x /\ Changes(y, d)
      BY <1>12, RequestIdle DEF Changes
    <3>3. CASE d = c
      <4>1. Changes(x, c) /\ q.mode = imRow[c].mode
        BY <3>1, <3>3, <1>2, <1>4, <1>5 DEF Changes, ModeFollows
      <4>2. \A y \in ImRequests : ~Changes(y, d)'
        BY <3>1, <3>2, <3>3, <4>1 DEF ModeFollows
      <4>3. ModeOf(d)' = imRow'[d].mode
        BY <3>3, <4>1, <1>4, <1>6, <1>7, Zenon DEF ModeOf
      <4> QED BY <4>2, <4>3 DEF ModeFollows
    <3>4. CASE d # c
      <4>1. ~Changes(x, d)
        BY <3>4, <1>2, <1>5 DEF Changes
      <4>2. \A y \in ImRequests : Changes(y, d)' <=> Changes(y, d)
        BY <3>2, <4>1
      <4>3. \A y \in ImRequests : Changes(y, d) => imRequest'[y] = imRequest[y]
        BY <4>1, <1>12
      <4>4. imRow'[d] = imRow[d] /\ ModeOf(d)' = ModeOf(d)
        BY <3>4, <1>4, <1>7, Zenon DEF ModeOf
      <4> QED BY <3>1, <4>2, <4>3, <4>4 DEF ModeFollows
    <3> QED BY <3>3, <3>4
  <2> QED BY <2>1, <2>2 DEF ModesFollow
<1> QED BY <1>1, <1>4, <1>9, <1>10, <1>11, <1>13 DEF ChannelsInv

\* A row goes for good, and its bindings with it.
LEMMA DeleteKeeps ==
    ASSUME ChannelsInv, NEW x \in ImRequests, DeleteRow(x)
    PROVE  ChannelsInv'
<1>1. ChannelsTyped /\ BoundAtHome /\ ModesFollow /\ ~crossed
  BY DEF ChannelsInv
<1>2. /\ imRequest[x].pc = "delete" /\ Ends(x) /\ Takes(x, NoImRequest)
      /\ UNCHANGED <<home, routing, polled, asked, stray, crossed>>
  BY DEF DeleteRow, Ends
<1>3. PICK c \in Channels : c = Of(x) /\ imRow[c].here # "unborn"
  BY <1>2, OneChannel
<1>4. CASE UNCHANGED <<imRow, bindings>>
  <2>1. BoundAtHome' /\ Bound' \subseteq Boxes \X Channels
    BY <1>1, <1>2, <1>4, Zenon DEF BoundAtHome, Bound, ChannelsTyped
  <2> QED BY <1>2, <1>4, <2>1, EndKeeps
<1>5. CASE /\ imRow' = [imRow EXCEPT ![c] = [@ EXCEPT !.here = "gone", !.token = FALSE]]
           /\ bindings' = WithoutPairs(PairsOfChannel(c))
  <2>1. /\ imRow' \in [Channels -> ImRowStates]
        /\ imRow'[c].here = "gone" /\ imRow'[c].tenant = imRow[c].tenant
        /\ \A d \in Channels \ {c} : imRow'[d] = imRow[d]
    <3>1. PICK w : w = [imRow[c] EXCEPT !.here = "gone", !.token = FALSE]
      OBVIOUS
    <3>2. imRow \in [Channels -> ImRowStates] /\ imRow[c] \in ImRowStates
      BY <1>1, Zenon DEF ChannelsTyped
    <3>3. w \in ImRowStates /\ w.here = "gone" /\ w.tenant = imRow[c].tenant
      BY <3>1, <3>2, Zenon DEF ImRowStates
    <3>4. imRow' = [imRow EXCEPT ![c] = w]
      BY <1>5, <3>1, <3>2
    <3> QED BY <3>2, <3>3, <3>4
  <2>2. RowsKeep /\ RequestSound(NoImRequest)'
    BY <2>1, <1>2, RequestIdle, SoundKept DEF RowsKeep
  <2>3. \A y \in ImRequests : RequestSound(imRequest[y])'
    BY <1>2, <2>2, RequestIdle, RequestsKept
  <2>4. Bound' \subseteq Bound
    BY <1>5, PairsLeft DEF Bound
  <2>5. BoundAtHome' /\ Bound' \subseteq Boxes \X Channels
    BY <1>1, <1>2, <2>2, <2>4, HomeKept, Zenon DEF ChannelsTyped
  <2>6. ChannelsTyped'
    BY <1>1, <1>2, <2>1, <2>5, RequestIdle, RequestTaken, Zenon DEF ChannelsTyped
  <2>7. ModesFollow'
    <3>1. ASSUME NEW d \in Channels, imRow'[d].here = "unborn" PROVE Untouched(d)'
      BY <3>1, <1>1, <1>2, <2>1, Zenon DEF ModesFollow, Untouched
    <3>2. ASSUME NEW d \in Channels, Here(d)', d \notin stray' PROVE ModeFollows(d)'
      <4>1. d # c /\ imRow'[d] = imRow[d] /\ Here(d) /\ d \notin stray
        BY <3>2, <1>2, <2>1 DEF Here
      <4>2. ModeFollows(d)
        BY <4>1, <1>1 DEF ModesFollow
      <4> QED BY <4>1, <4>2, <1>2, RequestIdle, ModeKept
    <3> QED BY <3>1, <3>2 DEF ModesFollow
  <2> QED BY <1>1, <1>2, <2>3, <2>5, <2>6, <2>7 DEF ChannelsInv
<1>6. \/ UNCHANGED <<imRow, bindings>>
      \/ /\ imRow' = [imRow EXCEPT ![c] = [@ EXCEPT !.here = "gone", !.token = FALSE]]
         /\ bindings' = WithoutPairs(PairsOfChannel(c))
  BY <1>3 DEF DeleteRow
<1> QED BY <1>4, <1>5, <1>6

\* A start of the service reads the modes anew.
LEMMA RestoreKeeps ==
    ASSUME ChannelsInv, RestorePollers
    PROVE  ChannelsInv'
<1>1. ChannelsTyped /\ BoundAtHome /\ ModesFollow /\ ~crossed
  BY DEF ChannelsInv
<1>2. /\ UNCHANGED <<home, imRow, bindings, asked, crossed>>
      /\ imRequest' = [x \in ImRequests |-> NoImRequest]
      /\ polled' = {c \in Channels : Here(c) /\ imRow[c].token}
      /\ routing' = [c \in Channels |-> IF c \in polled' THEN imRow[c].mode ELSE ""]
      /\ stray' = {c \in Channels : Here(c) /\ ~imRow[c].token}
  BY Zenon DEF RestorePollers
<1>3. \A c \in Channels : imRow[c].mode \in Modes
  BY <1>1, Zenon DEF ChannelsTyped, ImRowStates
<1>4. ChannelsTyped'
  <2>1. routing' \in [Channels -> Modes \cup {""}]
    BY <1>2, <1>3, Zenon
  <2>2. polled' \subseteq Channels /\ stray' \subseteq Channels
    BY <1>2, Zenon
  <2>3. imRequest' \in [ImRequests -> ImRequestStates]
    BY <1>2, RequestIdle, Zenon
  <2> QED BY <1>1, <1>2, <2>1, <2>2, <2>3, Zenon DEF ChannelsTyped, Bound
<1>5. \A x \in ImRequests : RequestSound(imRequest[x])'
  <2>1. RequestSound(NoImRequest)'
    BY RequestIdle, <1>2, Zenon DEF RequestSound
  <2>2. \A x \in ImRequests : imRequest'[x] = NoImRequest
    BY <1>2, Zenon
  <2> QED BY <2>1, <2>2 DEF RequestSound
<1>6. BoundAtHome'
  BY <1>1, <1>2, Zenon DEF BoundAtHome, Bound
<1>7. ModesFollow'
  <2>1. ASSUME NEW c \in Channels, imRow'[c].here = "unborn" PROVE Untouched(c)'
    <3>1. c \notin polled'
      BY <2>1, <1>2, Zenon DEF Here
    <3>2. routing'[c] = ""
      BY <3>1, <1>2, Zenon
    <3> QED BY <2>1, <3>2, <1>1, <1>2, Zenon DEF ModesFollow, Untouched
  <2>2. ASSUME NEW c \in Channels, Here(c)', c \notin stray' PROVE ModeFollows(c)'
    <3>1. c \in polled'
      BY <2>2, <1>2, Zenon DEF Here
    <3>2. routing'[c] = imRow'[c].mode /\ routing'[c] # ""
      BY <3>1, <1>2, <1>3, Zenon DEF Modes
    <3>3. ModeOf(c)' = imRow'[c].mode
      BY <3>2, Zenon DEF ModeOf
    <3>4. \A x \in ImRequests : ~Changes(x, c)'
      BY <1>2, RequestIdle, Zenon DEF Changes
    <3> QED BY <3>3, <3>4 DEF ModeFollows
  <2> QED BY <2>1, <2>2 DEF ModesFollow
<1> QED BY <1>1, <1>2, <1>4, <1>5, <1>6, <1>7, Zenon DEF ChannelsInv

\* A message reaches no other workspace.
LEMMA DeliverKeeps ==
    ASSUME ChannelsInv, NEW c \in Channels, Deliver(c, imRow[c].tenant)
    PROVE  ChannelsInv'
<1>1. ChannelsTyped /\ BoundAtHome /\ ModesFollow /\ ~crossed
  BY DEF ChannelsInv
<1>2. \A got \in Receiver(c) : got = imRow[c].tenant
  <2>1. ASSUME NEW p \in Latest(PairsOfChannel(c)) PROVE home[p[1]] = imRow[c].tenant
    <3>1. p \in Bound /\ p[2] = c
      BY <2>1 DEF Latest, PairsOfChannel
    <3> QED BY <3>1, <1>1 DEF BoundAtHome
  <2> QED BY <2>1 DEF Receiver
<1>3. /\ ~crossed' /\ UNCHANGED <<home, imRow, bindings, routing, polled, imRequest,
                                  asked, stray>>
  BY <1>1, <1>2 DEF Deliver
<1>4. ChannelsTyped'
  BY <1>1, <1>3, Zenon DEF ChannelsTyped, Bound
<1>5. \A x \in ImRequests : RequestSound(imRequest[x])'
  BY <1>3 DEF ChannelsInv, RequestSound
<1>6. BoundAtHome'
  BY <1>1, <1>3 DEF BoundAtHome, Bound
<1>7. ModesFollow'
  BY <1>1, <1>3, Zenon DEF ModesFollow, ModeFollows, Untouched, Changes, ModeOf, Here
<1> QED BY <1>3, <1>4, <1>5, <1>6, <1>7 DEF ChannelsInv

LEMMA ChannelsStepKeeps == ChannelsInv /\ [ChannelsNext]_channelVars => ChannelsInv'
<1> SUFFICES ASSUME ChannelsInv, [ChannelsNext]_channelVars PROVE ChannelsInv'
  OBVIOUS
<1>1. polled \subseteq Channels
  BY Zenon DEF ChannelsInv, ChannelsTyped
<1>2. ASSUME NEW x \in ImRequests,
             ConfigureForSandbox(x) \/ ConfigureForWorkspace(x) \/ ConfigureWebhook(x)
      PROVE  ChannelsInv'
  BY <1>2, ConfigureKeeps
<1>3. ASSUME NEW x \in ImRequests, SaveToken(x) \/ Start(x) PROVE ChannelsInv'
  BY <1>3, SaveKeeps, StartKeeps
<1>4. ASSUME NEW x \in ImRequests, ClearBindings(x) \/ CommitBinding(x) PROVE ChannelsInv'
  BY <1>4, BindKeeps
<1>5. ASSUME NEW x \in ImRequests, BindRequest(x) \/ BindMulti(x) PROVE ChannelsInv'
  BY <1>5, BindAskKeeps
<1>6. ASSUME NEW x \in ImRequests,
             InsertBindings(x) \/ UnbindRequest(x) \/ UnbindForDelete(x)
      PROVE  ChannelsInv'
  BY <1>6, BindingsKeep
<1>7. ASSUME NEW x \in ImRequests,
             \/ UpdateRequest(x) \/ DeleteRequest(x)
             \/ DisconnectRequest(x) \/ RestoreRequest(x)
      PROVE  ChannelsInv'
  BY <1>7, ModeAskKeeps
<1>8. ASSUME NEW x \in ImRequests, SetRowMode(x) PROVE ChannelsInv'
  BY <1>8, RowModeKeeps
<1>9. ASSUME NEW x \in ImRequests, SetChannelRoutingMode(x) PROVE ChannelsInv'
  BY <1>9, ApplyKeeps
<1>10. ASSUME NEW x \in ImRequests, DeleteRow(x) PROVE ChannelsInv'
  BY <1>10, DeleteKeeps
<1>11. CASE RestorePollers
  BY <1>11, RestoreKeeps
<1>12. CASE PolledMessage
  BY <1>1, <1>12, DeliverKeeps DEF PolledMessage
<1>13. CASE WorkspaceWebhook
  <2>1. PICK t \in Tenants, c \in Channels : imRow[c].tenant = t /\ Deliver(c, t)
    BY <1>13 DEF WorkspaceWebhook
  <2> QED BY <2>1, DeliverKeeps
<1>14. CASE GlobalWebhook
  BY <1>14, DeliverKeeps DEF GlobalWebhook
<1>15. CASE UNCHANGED channelVars
  BY <1>15, ZenonT(40)
     DEF channelVars, ChannelsInv, ChannelsTyped, RequestSound, BoundAtHome, Bound,
               ModesFollow, ModeFollows, Untouched, Changes, ModeOf, Here
<1> QED BY <1>2, <1>3, <1>4, <1>5, <1>6, <1>7, <1>8, <1>9, <1>10, <1>11, <1>12, <1>13,
           <1>14, <1>15 DEF ChannelsNext

\* For any number of workspaces, sandboxes, bots, channels, requests and restarts: a
\* message reaches its own workspace, and goes where its channel's row says.
THEOREM ChannelsAlwaysSound == ChannelsSpec => [](ChannelsTypeOK /\ ChannelsSound)
<1>1. ChannelsInv => ChannelsTypeOK
  BY Zenon DEF ChannelsInv, ChannelsTyped, ChannelsTypeOK, ImRowStates, ImRequestStates
<1>2. ChannelsInv => ChannelsSound
  <2> SUFFICES ASSUME ChannelsInv PROVE ChannelsSound
    OBVIOUS
  <2>1. ASSUME NEW c \in Channels, Here(c), c \notin stray,
               \A x \in ImRequests : imRequest[x].pc # "apply"
        PROVE  ModeOf(c) = imRow[c].mode
    <3>1. ModeFollows(c)
      BY <2>1 DEF ChannelsInv, ModesFollow
    <3> QED BY <2>1, <3>1 DEF ModeFollows, Changes
  <2> QED BY <2>1 DEF ChannelsInv, ChannelsSound, NeverCrosses, RoutingFollowsRow
<1> QED BY <1>1, <1>2, ChannelsInitInv, ChannelsStepKeeps, PTL DEF ChannelsSpec

-----------------------------------------------------------------------------
(* The login of a WeChat account *)

\* Codes are issued in order. A request that is about to store a session is the
\* only one that knows its code; a code that was saved has no session, unless a
\* request may rightly take it again.
WeixinInv ==
    /\ WeixinTypeOK
    /\ \A k \in Codes : saved[k] > 0 => k <= codes
    /\ \A k \in Codes : saved[k] > 1 => k \in again
    /\ \A k \in Codes : saved[k] > 0 /\ k \notin again => qrSession.code # k
    /\ qrSession.code <= codes /\ (qrSession.code = 0 => qrSession = NoQR)
    /\ \A w \in Waits :
          /\ wait[w].copy.code <= codes
          /\ wait[w].pc # "idle" => wait[w].copy.code # 0
          /\ wait[w].pc = "set" =>
                /\ saved[Own(w)] = 0 /\ qrSession.code # Own(w)
                /\ \A v \in Waits \ {w} : wait[v].copy.code # Own(w)

WaitStates ==
    [pc : {"idle", "refresh", "set", "poll", "answered", "create", "save", "start"},
     copy : [code : 0..MaxCodes, moved : BOOLEAN], status : Statuses]

\* A request at a step, with its copy of the session.
LEMMA Going ==
    ASSUME NEW w \in Waits,
           NEW pc \in {"idle", "refresh", "set", "poll", "answered", "create", "save", "start"},
           NEW q \in [code : 0..MaxCodes, moved : BOOLEAN],
           WaitGoes(w, pc, q)
    PROVE  \E g \in WaitStates : wait' = [wait EXCEPT ![w] = g] /\ g.pc = pc /\ g.copy = q
<1> DEFINE g == [Idle EXCEPT !.pc = pc, !.copy = q]
<1>1. g \in WaitStates /\ g.pc = pc /\ g.copy = q
  BY DEF WaitStates, Statuses, Idle
<1>2. wait' = [wait EXCEPT ![w] = g]
  BY DEF WaitGoes
<1> HIDE DEF g
<1> QED BY <1>1, <1>2

\* A request goes on with the code it has, or is over, or takes up that of the
\* session; the session stays, is cleared, or becomes that of the request.
LEMMA WaitStep ==
    ASSUME WeixinInv, NEW w \in Waits, NEW q \in WaitStates,
           wait' = [wait EXCEPT ![w] = q],
           q.copy.code \in {0, Own(w), qrSession.code},
           q.pc # "idle" => q.copy.code # 0, q.pc # "set",
           qrSession' \in [code : 0..MaxCodes, moved : BOOLEAN],
           \/ qrSession' \in {NoQR, qrSession} /\ UNCHANGED again
           \/ /\ qrSession'.code = Own(w) /\ Own(w) # 0 /\ wait[w].pc # "set"
              /\ again' = IF saved[Own(w)] > 0 THEN again \cup {Own(w)} ELSE again,
           savedToken' \in 0..MaxCodes, polledWith' \in 0..MaxCodes,
           UNCHANGED <<qrCode, codes, stale, saved>>
    PROVE  WeixinInv'
<1>1. /\ wait' \in [Waits -> WaitStates] /\ wait'[w] = q
      /\ \A v \in Waits : v # w => wait'[v] = wait[v]
  BY DEF WeixinInv, WeixinTypeOK, WaitStates
<1>2. /\ codes \in 0..MaxCodes /\ qrSession.code \in 0..MaxCodes /\ NoQR.code = 0
      /\ \A v \in Waits : wait[v].copy.code \in 0..MaxCodes
  BY DEF WeixinInv, WeixinTypeOK, NoQR
<1>3. WeixinTypeOK'
  BY <1>1 DEF WeixinInv, WeixinTypeOK, WaitStates
<1>4. qrSession'.code \in {0, qrSession.code, Own(w)}
  BY <1>2
<1>5. qrSession'.code <= codes /\ (qrSession'.code = 0 => qrSession' = NoQR)
  BY <1>2, <1>4 DEF WeixinInv, Own
<1>6. \A k \in Codes : saved[k] > 0 /\ k \notin again' => qrSession'.code # k
  BY <1>2 DEF WeixinInv, Codes
<1>7. ASSUME NEW v \in Waits
      PROVE  /\ wait'[v].copy.code <= codes
             /\ wait'[v].pc # "idle" => wait'[v].copy.code # 0
  BY <1>1, <1>2 DEF WeixinInv, Own
<1>8. ASSUME NEW v \in Waits, wait'[v].pc = "set"
      PROVE  /\ saved[wait'[v].copy.code] = 0 /\ qrSession'.code # wait'[v].copy.code
             /\ \A u \in Waits \ {v} : wait'[u].copy.code # wait'[v].copy.code
  <2>1. v # w /\ wait'[v] = wait[v] /\ wait[v].pc = "set"
    BY <1>1, <1>8
  <2>2. /\ saved[Own(v)] = 0 /\ qrSession.code # Own(v) /\ Own(v) # 0
        /\ \A u \in Waits \ {v} : wait[u].copy.code # Own(v)
    BY <2>1 DEF WeixinInv, Own
  <2>3. Own(w) # Own(v)
    BY <2>1, <2>2 DEF Own
  <2>4. q.copy.code # Own(v) /\ qrSession'.code # Own(v)
    BY <1>4, <2>2, <2>3
  <2>5. \A u \in Waits \ {v} : wait'[u].copy.code # Own(v)
    BY <1>1, <2>2, <2>4
  <2> QED BY <2>1, <2>2, <2>4, <2>5 DEF Own
<1>9. \A k \in Codes : (saved'[k] > 0 => k <= codes') /\ (saved'[k] > 1 => k \in again')
  BY DEF WeixinInv
<1> QED BY <1>3, <1>5, <1>6, <1>7, <1>8, <1>9 DEF WeixinInv, Own

\* What leaves the histories of the codes alone, or puts the session back.
LEMMA RequestSteps ==
    ASSUME WeixinInv, NEW w \in Waits,
           \/ QRWait(w) \/ PollLoginStatus(w) \/ Expired(w) \/ Redirected(w) \/ GivesUp(w)
           \/ KeepsWaiting(w) \/ SaveLogin(w)
    PROVE  WeixinInv'
<1> DEFINE old == wait[w]
<1>1. /\ old \in WaitStates /\ Own(w) = old.copy.code /\ Own(w) \in 0..MaxCodes
      /\ old.pc # "idle" => old.copy.code # 0
      /\ qrSession \in [code : 0..MaxCodes, moved : BOOLEAN]
      /\ savedToken \in 0..MaxCodes /\ polledWith \in 0..MaxCodes
      /\ qrSession.code = 0 => qrSession = NoQR
  BY DEF WeixinInv, WeixinTypeOK, WaitStates, Own
<1>2. /\ NoQR \in [code : 0..MaxCodes, moved : BOOLEAN] /\ NoQR.code = 0
      /\ Idle \in WaitStates /\ Idle.copy.code = 0 /\ Idle.pc = "idle"
  BY WeixinAssumption DEF NoQR, Idle, WaitStates, Statuses
<1>3. wait = [wait EXCEPT ![w] = old]
  BY DEF old, WeixinInv, WeixinTypeOK
<1>4. ASSUME wait' = [wait EXCEPT ![w] = Idle], qrSession' \in {NoQR, qrSession},
             savedToken' \in 0..MaxCodes, polledWith' \in 0..MaxCodes,
             UNCHANGED <<qrCode, codes, stale, saved, again>>
      PROVE  WeixinInv'
  BY <1>1, <1>2, <1>4, WaitStep
<1>5. ASSUME NEW q \in WaitStates, wait' = [wait EXCEPT ![w] = q],
             q.pc \in {"refresh", "answered", "create", "save", "start"}, q.copy = old.copy,
             old.pc # "idle", savedToken' \in 0..MaxCodes, polledWith' \in 0..MaxCodes,
             UNCHANGED <<qrCode, codes, qrSession, stale, saved, again>>
      PROVE  WeixinInv'
  BY <1>1, <1>2, <1>5, WaitStep
<1>6. Own(w) = old.copy.code /\ wait[w] = old /\ wait[w].copy = old.copy /\ wait[w].pc = old.pc
  BY <1>1 DEF old
<1>7. CASE QRWait(w)
  <2>1. /\ qrSession' = Purged /\ Purged \in {qrSession, NoQR} /\ old.pc = "idle"
        /\ UNCHANGED <<qrCode, codes, stale, savedToken, polledWith, saved, again>>
    BY <1>7 DEF QRWait, Purged, old
  <2>2. CASE Purged = NoQR
    <3>1. wait' = [wait EXCEPT ![w] = old]
      BY <1>3, <1>7, <2>2 DEF QRWait
    <3> HIDE DEF old
    <3> QED BY <1>1, <1>2, <2>1, <2>2, <3>1, WaitStep
  <2>3. CASE Purged # NoQR
    <3> DEFINE q == [Idle EXCEPT !.pc = "poll", !.copy = Purged]
    <3>1. wait' = [wait EXCEPT ![w] = q] /\ Purged = qrSession
      BY <1>7, <2>1, <2>3 DEF QRWait, WaitGoes
    <3>2. q \in WaitStates /\ q.copy = qrSession /\ q.pc = "poll"
      BY <1>1, <3>1, WeixinAssumption DEF WaitStates, Idle, Statuses
    <3>3. qrSession.code # 0
      BY <1>1, <2>3, <3>1
    <3> HIDE DEF q, old
    <3> QED BY <1>1, <2>1, <3>1, <3>2, <3>3, WaitStep
  <2> QED BY <2>2, <2>3
<1>8. CASE PollLoginStatus(w)
  <2>1. /\ UNCHANGED <<qrCode, codes, qrSession, stale, savedToken, polledWith, saved, again>>
        /\ old.pc = "poll"
    BY <1>8 DEF PollLoginStatus, old
  <2>2. CASE Finishes(w)
    BY <1>1, <1>4, <2>1, <2>2 DEF Finishes
  <2>3. CASE wait' = [wait EXCEPT ![w].pc = "answered", ![w].status = StatusAt(wait[w].copy)]
    <3>1. StatusAt(old.copy) \in Statuses
      <4>1. old.copy.code \in Codes
        BY <1>1, <2>1 DEF Codes
      <4>2. qrCode[old.copy.code].status \in Statuses
        BY <4>1 DEF WeixinInv, WeixinTypeOK
      <4> QED BY <4>2 DEF StatusAt, Statuses
    <3> DEFINE q == [old EXCEPT !.pc = "answered", !.status = StatusAt(old.copy)]
    <3>2. wait' = [wait EXCEPT ![w] = q]
      BY <2>3 DEF old
    <3>3. q \in WaitStates /\ q.copy = old.copy /\ q.pc = "answered"
      <4> HIDE DEF old
      <4> QED BY <1>1, <3>1 DEF WaitStates
    <3> HIDE DEF q, old
    <3> QED BY <1>1, <1>5, <2>1, <3>2, <3>3
  <2> QED BY <1>8, <2>2, <2>3 DEF PollLoginStatus
<1>9. CASE Expired(w)
  <2>1. /\ UNCHANGED <<qrCode, codes, qrSession, stale, savedToken, polledWith, saved, again>>
        /\ old.pc = "answered" /\ WaitGoes(w, "refresh", old.copy)
    BY <1>9 DEF Expired, Answered, old
  <2>2. old.copy \in [code : 0..MaxCodes, moved : BOOLEAN]
    BY <1>1 DEF WaitStates
  <2> HIDE DEF old
  <2>3. PICK q \in WaitStates :
          wait' = [wait EXCEPT ![w] = q] /\ q.pc = "refresh" /\ q.copy = old.copy
    BY <2>1, <2>2, Going
  <2> QED BY <1>1, <1>5, <2>1, <2>3
<1>10. CASE Redirected(w)
  <2> DEFINE back == [wait[w].copy EXCEPT !.moved = TRUE]
  <2>1. /\ qrSession' = back /\ old.pc = "answered" /\ wait' = [wait EXCEPT ![w] = Idle]
        /\ again' = IF saved[Own(w)] > 0 THEN again \cup {Own(w)} ELSE again
        /\ UNCHANGED <<qrCode, codes, stale, savedToken, polledWith, saved>>
    BY <1>10 DEF Redirected, Answered, SetSession, Finishes, old
  <2>2. back \in [code : 0..MaxCodes, moved : BOOLEAN] /\ back.code = Own(w)
    BY <1>1 DEF old, WaitStates
  <2>3. Own(w) # 0 /\ wait[w].pc # "set"
    BY <1>1, <1>6, <2>1
  <2> HIDE DEF back, old
  <2> QED BY <1>1, <1>2, <2>1, <2>2, <2>3, WaitStep
<1>11. CASE GivesUp(w)
  <2>1. /\ qrSession' = NoQR /\ wait' = [wait EXCEPT ![w] = Idle]
        /\ UNCHANGED <<qrCode, codes, stale, savedToken, polledWith, saved, again>>
    BY <1>11 DEF GivesUp, TakeSession, Finishes
  <2> QED BY <1>1, <1>4, <2>1
<1>12. CASE KeepsWaiting(w)
  <2>1. /\ wait' = [wait EXCEPT ![w] = Idle]
        /\ UNCHANGED <<qrCode, codes, qrSession, stale, savedToken, polledWith, saved, again>>
    BY <1>12 DEF KeepsWaiting, Finishes
  <2> QED BY <1>1, <1>4, <2>1
<1>13. CASE SaveLogin(w)
  <2>1. /\ savedToken' \in 0..MaxCodes /\ polledWith' \in 0..MaxCodes
        /\ UNCHANGED <<qrCode, codes, qrSession, stale, saved, again>>
        /\ old.pc \in {"create", "save", "start"}
    BY <1>1, <1>13 DEF SaveLogin, old
  <2>2. \/ wait' = [wait EXCEPT ![w] = Idle]
        \/ \E pc \in {"save", "start"} : WaitGoes(w, pc, old.copy)
    BY <1>13 DEF SaveLogin, Finishes, old
  <2>3. old.copy \in [code : 0..MaxCodes, moved : BOOLEAN]
    BY <1>1 DEF WaitStates
  <2> HIDE DEF old
  <2>4. CASE wait' = [wait EXCEPT ![w] = Idle]
    BY <1>4, <2>1, <2>4
  <2>5. ASSUME NEW pc \in {"save", "start"}, WaitGoes(w, pc, old.copy) PROVE WeixinInv'
    <3>1. PICK q \in WaitStates :
            wait' = [wait EXCEPT ![w] = q] /\ q.pc = pc /\ q.copy = old.copy
      BY <2>3, <2>5, Going
    <3> QED BY <1>5, <2>1, <3>1
  <2> QED BY <2>2, <2>4, <2>5
<1> QED BY <1>7, <1>8, <1>9, <1>10, <1>11, <1>12, <1>13

\* A new code is nobody else's.
LEMMA StartLoginStep == ASSUME WeixinInv, NEW w \in Waits, StartLogin(w) PROVE WeixinInv'
<1>1. /\ UNCHANGED <<stale, savedToken, polledWith, saved, again>>
      /\ wait[w].pc \in {"idle", "refresh"}
      /\ codes \in 0..MaxCodes /\ MaxCodes \in Nat
      /\ wait[w] \in WaitStates /\ savedToken \in 0..MaxCodes /\ polledWith \in 0..MaxCodes
  BY WeixinAssumption DEF StartLogin, WeixinInv, WeixinTypeOK, WaitStates
<1>2. CASE SetSession(NoQR) /\ Finishes(w) /\ UNCHANGED <<qrCode, codes>>
  <2>1. /\ Idle \in WaitStates /\ Idle.copy.code = 0 /\ Idle.pc = "idle"
        /\ NoQR \in [code : 0..MaxCodes, moved : BOOLEAN]
    BY <1>1 DEF NoQR, Idle, WaitStates, Statuses
  <2>2. wait' = [wait EXCEPT ![w] = Idle] /\ qrSession' = NoQR
    BY <1>2 DEF SetSession, Finishes
  <2>3. UNCHANGED <<qrCode, codes, stale, saved>> /\ UNCHANGED again
    BY <1>1, <1>2
  <2> QED BY <1>1, <2>1, <2>2, <2>3, WaitStep
<1>3. CASE /\ codes < MaxCodes /\ codes' = codes + 1 /\ Becomes(codes + 1, "wait")
           /\ WaitGoes(w, "set", [code |-> codes + 1, moved |-> FALSE]) /\ UNCHANGED qrSession
  <2> DEFINE new == [code |-> codes + 1, moved |-> FALSE]
  <2>1. codes + 1 \in Codes /\ codes' \in 0..MaxCodes
    BY <1>1, <1>3 DEF Codes
  <2>2. new \in [code : 0..MaxCodes, moved : BOOLEAN] /\ new.code = codes + 1
    BY <1>1, <2>1 DEF Codes
  <2> HIDE DEF new
  <2>3. PICK q \in WaitStates :
          wait' = [wait EXCEPT ![w] = q] /\ q.copy.code = codes + 1 /\ q.pc = "set"
    <3>1. WaitGoes(w, "set", new)
      BY <1>3 DEF new
    <3> QED BY <2>2, <3>1, Going
  <2>4. /\ wait' \in [Waits -> WaitStates] /\ wait'[w] = q
        /\ \A v \in Waits : v # w => wait'[v] = wait[v]
    BY <2>3 DEF WeixinInv, WeixinTypeOK, WaitStates
  <2>5. qrCode' \in [Codes -> [status : Statuses, moved : BOOLEAN]]
    BY <1>3, <2>1 DEF Becomes, WeixinInv, WeixinTypeOK, Statuses
  <2>6. WeixinTypeOK'
    BY <1>1, <1>3, <2>1, <2>4, <2>5 DEF WeixinInv, WeixinTypeOK, WaitStates
  <2>7. /\ \A v \in Waits : wait[v].copy.code \in 0..codes
        /\ qrSession.code \in 0..codes /\ saved[codes + 1] = 0
    <3>1. \A v \in Waits : wait[v].copy.code \in 0..codes
      BY <1>1 DEF WeixinInv, WeixinTypeOK
    <3>2. qrSession.code \in 0..codes
      BY <1>1 DEF WeixinInv, WeixinTypeOK
    <3>3. saved[codes + 1] \in 0..2 /\ ~(saved[codes + 1] > 0)
      BY <1>1, <2>1 DEF WeixinInv, WeixinTypeOK
    <3> QED BY <3>1, <3>2, <3>3
  <2>8. \A k \in Codes : saved[k] > 0 => k <= codes'
    BY <1>1, <1>3 DEF WeixinInv, Codes
  <2>9. ASSUME NEW v \in Waits
        PROVE  /\ wait'[v].copy.code <= codes'
               /\ wait'[v].pc # "idle" => wait'[v].copy.code # 0
    <3>1. CASE v = w
      BY <1>1, <1>3, <2>3, <2>4, <3>1
    <3>2. CASE v # w
      BY <1>1, <1>3, <2>4, <2>7, <3>2 DEF WeixinInv
    <3> QED BY <3>1, <3>2
  <2>10. ASSUME NEW v \in Waits, wait'[v].pc = "set"
         PROVE  /\ saved[wait'[v].copy.code] = 0 /\ qrSession.code # wait'[v].copy.code
                /\ \A u \in Waits \ {v} : wait'[u].copy.code # wait'[v].copy.code
    <3>1. CASE v = w
      BY <1>1, <2>3, <2>4, <2>7, <3>1
    <3>2. CASE v # w
      <4>1. /\ wait'[v] = wait[v] /\ saved[wait[v].copy.code] = 0
            /\ qrSession.code # wait[v].copy.code
            /\ \A u \in Waits \ {v} : wait[u].copy.code # wait[v].copy.code
        BY <2>4, <2>10, <3>2 DEF WeixinInv, Own
      <4>2. wait'[w].copy.code # wait[v].copy.code
        BY <1>1, <2>3, <2>4, <2>7
      <4> QED BY <2>4, <4>1, <4>2
    <3> QED BY <3>1, <3>2
  <2>11. qrSession.code <= codes'
    BY <1>1, <1>3, <2>7
  <2> QED BY <1>1, <1>3, <2>6, <2>8, <2>9, <2>10, <2>11 DEF WeixinInv, Own
<1> QED BY <1>2, <1>3 DEF StartLogin

LEMMA StoreSessionStep == ASSUME WeixinInv, NEW w \in Waits, StoreSession(w) PROVE WeixinInv'
<1>1. /\ wait[w].pc = "set" /\ qrSession' = wait[w].copy /\ wait' = [wait EXCEPT ![w] = Idle]
      /\ UNCHANGED <<qrCode, codes, stale, savedToken, polledWith, saved, again>>
  BY DEF StoreSession, SetSession, Finishes
<1>2. /\ wait[w] \in WaitStates /\ Own(w) = wait[w].copy.code
      /\ saved[Own(w)] = 0 /\ Own(w) # 0 /\ Own(w) <= codes
      /\ \A v \in Waits \ {w} : wait[v].copy.code # Own(w)
  BY <1>1 DEF WeixinInv, WeixinTypeOK, WaitStates, Own
<1>3. Idle \in WaitStates /\ Idle.copy.code = 0 /\ Idle.pc = "idle" /\ codes \in 0..MaxCodes
  BY WeixinAssumption DEF NoQR, Idle, WaitStates, Statuses, WeixinInv, WeixinTypeOK
<1>4. /\ wait' \in [Waits -> WaitStates] /\ wait'[w] = Idle
      /\ \A v \in Waits : v # w => wait'[v] = wait[v]
  BY <1>1, <1>3 DEF WeixinInv, WeixinTypeOK, WaitStates
<1>5. WeixinTypeOK'
  BY <1>1, <1>2, <1>4 DEF WeixinInv, WeixinTypeOK, WaitStates
<1>6. \A k \in Codes : saved[k] > 0 => qrSession'.code # k
  BY <1>1, <1>2
<1>7. ASSUME NEW v \in Waits
      PROVE  /\ wait'[v].copy.code <= codes
             /\ wait'[v].pc # "idle" => wait'[v].copy.code # 0
  BY <1>3, <1>4 DEF WeixinInv
<1>8. ASSUME NEW v \in Waits, wait'[v].pc = "set"
      PROVE  /\ saved[wait'[v].copy.code] = 0 /\ qrSession'.code # wait'[v].copy.code
             /\ \A u \in Waits \ {v} : wait'[u].copy.code # wait'[v].copy.code
  <2>1. v # w /\ wait'[v] = wait[v]
    BY <1>3, <1>4, <1>8
  <2>2. /\ saved[wait[v].copy.code] = 0 /\ wait[v].copy.code # 0
        /\ \A u \in Waits \ {v} : wait[u].copy.code # wait[v].copy.code
    BY <1>8, <2>1 DEF WeixinInv, Own
  <2> QED BY <1>1, <1>2, <1>3, <1>4, <2>1, <2>2
<1> QED BY <1>1, <1>2, <1>5, <1>6, <1>7, <1>8 DEF WeixinInv, Own

\* Who finds a session takes it, so that nobody finds it again.
LEMMA ConfirmedStep == ASSUME WeixinInv, NEW w \in Waits, Confirmed(w) PROVE WeixinInv'
<1>1. /\ wait[w].pc = "answered" /\ qrSession' = NoQR
      /\ UNCHANGED <<qrCode, codes, stale, savedToken, polledWith>>
      /\ wait[w] \in WaitStates /\ Own(w) = wait[w].copy.code /\ Own(w) \in Codes
      /\ Own(w) <= codes
      /\ NoQR \in [code : 0..MaxCodes, moved : BOOLEAN] /\ NoQR.code = 0
      /\ savedToken \in 0..MaxCodes /\ polledWith \in 0..MaxCodes
  BY WeixinAssumption
  DEF Confirmed, Answered, TakeSession, WeixinInv, WeixinTypeOK, WaitStates, Own, Codes, NoQR
<1>2. CASE qrSession = NoQR
  <2>1. /\ Idle \in WaitStates /\ Idle.copy.code = 0 /\ Idle.pc = "idle"
        /\ wait' = [wait EXCEPT ![w] = Idle] /\ UNCHANGED <<saved, again>>
    BY <1>1, <1>2, WeixinAssumption
    DEF Confirmed, Finishes, Idle, WaitStates, Statuses
  <2> QED BY <1>1, <2>1, WaitStep
<1>3. CASE qrSession # NoQR
  <2> DEFINE q == [pc |-> "create", copy |-> wait[w].copy, status |-> "wait"]
  <2>1. /\ wait' = [wait EXCEPT ![w] = q]
        /\ saved' = [saved EXCEPT ![Own(w)] = IF @ < 2 THEN @ + 1 ELSE @]
        /\ again' = IF qrSession.code = Own(w) THEN again ELSE again \cup {Own(w)}
    BY <1>3 DEF Confirmed, WaitGoes, Idle
  <2>2. q \in WaitStates /\ q.copy = wait[w].copy /\ q.pc = "create"
    BY <1>1 DEF WaitStates, Statuses
  <2> HIDE DEF q
  <2>3. /\ wait' \in [Waits -> WaitStates] /\ wait'[w] = q
        /\ \A v \in Waits : v # w => wait'[v] = wait[v]
    BY <2>1, <2>2 DEF WeixinInv, WeixinTypeOK, WaitStates
  <2>4. /\ saved \in [Codes -> 0..2] /\ saved' \in [Codes -> 0..2]
        /\ saved'[Own(w)] = IF saved[Own(w)] < 2 THEN saved[Own(w)] + 1 ELSE saved[Own(w)]
        /\ \A k \in Codes : k # Own(w) => saved'[k] = saved[k]
    BY <1>1, <2>1 DEF WeixinInv, WeixinTypeOK
  <2>5. WeixinTypeOK'
    BY <1>1, <2>3, <2>4 DEF WeixinInv, WeixinTypeOK, WaitStates
  <2>6. \A k \in Codes : saved'[k] > 0 => k <= codes
    BY <1>1, <2>4 DEF WeixinInv
  <2>7. \A k \in Codes : saved'[k] > 1 => k \in again'
    <3>1. saved[Own(w)] > 0 => Own(w) \in again'
      BY <1>1, <2>1 DEF WeixinInv
    <3>2. saved'[Own(w)] > 1 => Own(w) \in again'
      BY <1>1, <2>4, <3>1
    <3> QED BY <2>1, <2>4, <3>2 DEF WeixinInv
  <2>8. \A k \in Codes : qrSession'.code # k
    BY <1>1 DEF Codes
  <2>9. ASSUME NEW v \in Waits
        PROVE  /\ wait'[v].copy.code <= codes
               /\ wait'[v].pc # "idle" => wait'[v].copy.code # 0
    BY <1>1, <2>2, <2>3 DEF WeixinInv, Codes
  <2>10. ASSUME NEW v \in Waits, wait'[v].pc = "set"
         PROVE  /\ saved'[wait'[v].copy.code] = 0 /\ qrSession'.code # wait'[v].copy.code
                /\ \A u \in Waits \ {v} : wait'[u].copy.code # wait'[v].copy.code
    <3>1. v # w /\ wait'[v] = wait[v]
      BY <2>2, <2>3, <2>10
    <3>2. /\ saved[wait[v].copy.code] = 0 /\ wait[v].copy.code \in Codes
          /\ \A u \in Waits \ {v} : wait[u].copy.code # wait[v].copy.code
      BY <2>10, <3>1 DEF WeixinInv, WeixinTypeOK, WaitStates, Own, Codes
    <3>3. saved'[wait[v].copy.code] = 0
      BY <1>1, <2>4, <3>1, <3>2
    <3> QED BY <2>2, <2>3, <2>8, <3>1, <3>2, <3>3
  <2>11. qrSession'.code <= codes /\ qrSession' = NoQR
    BY <1>1 DEF WeixinInv, WeixinTypeOK
  <2> QED BY <1>1, <2>5, <2>6, <2>7, <2>8, <2>9, <2>10, <2>11 DEF WeixinInv, Own
<1> QED BY <1>2, <1>3

LEMMA WeixinInitInv == WeixinInit => WeixinInv
  BY WeixinAssumption
  DEF WeixinInit, WeixinInv, WeixinTypeOK, Statuses, NoQR, Idle, Codes

LEMMA WeixinInvStep == WeixinInv /\ [WeixinNext]_weixinVars => WeixinInv'
<1> SUFFICES ASSUME WeixinInv, [WeixinNext]_weixinVars PROVE WeixinInv'
  OBVIOUS
<1>1. ASSUME NEW k \in 1..codes, PhoneActs(k) PROVE WeixinInv'
  <2>1. UNCHANGED <<codes, qrSession, stale, wait, savedToken, polledWith, saved, again>>
    BY <1>1 DEF PhoneActs
  <2>2. k \in Codes
    BY WeixinAssumption DEF WeixinInv, WeixinTypeOK, Codes
  <2>3. qrCode' \in [Codes -> [status : Statuses, moved : BOOLEAN]]
    <3>1. qrCode \in [Codes -> [status : Statuses, moved : BOOLEAN]]
      BY DEF WeixinInv, WeixinTypeOK
    <3>2. CASE qrCode' = [qrCode EXCEPT ![k].moved = TRUE]
      BY <2>2, <3>1, <3>2
    <3>3. ASSUME NEW s \in Statuses, Becomes(k, s)
          PROVE  qrCode' \in [Codes -> [status : Statuses, moved : BOOLEAN]]
      BY <2>2, <3>1, <3>3 DEF Becomes
    <3>4. {"scaned", "confirmed", "binded_redirect", "verify_code_blocked", "expired"}
            \subseteq Statuses
      BY DEF Statuses
    <3>5. \/ qrCode' = [qrCode EXCEPT ![k].moved = TRUE]
          \/ \E s \in {"scaned", "confirmed", "binded_redirect", "verify_code_blocked",
                       "expired"} : Becomes(k, s)
      BY <1>1 DEF PhoneActs
    <3> QED BY <3>2, <3>3, <3>4, <3>5
  <2> QED BY <2>1, <2>3 DEF WeixinInv, WeixinTypeOK, Own
<1>2. CASE SessionAges
  BY <1>2 DEF SessionAges, WeixinInv, WeixinTypeOK, Own
<1>3. CASE UNCHANGED weixinVars
  BY <1>3 DEF weixinVars, WeixinInv, WeixinTypeOK, Own
<1> QED BY <1>1, <1>2, <1>3, RequestSteps, StartLoginStep, StoreSessionStep, ConfirmedStep
        DEF WeixinNext

\* For any number of requests and codes: of the requests that see a login
\* confirmed one saves it, but for a session that was put back or taken for
\* that of another code (TakeSession, handleWorkspaceWeixinQRWait).
THEOREM LoginSavedOnce == WeixinSpec => [](WeixinTypeOK /\ SavedOnce)
<1>1. WeixinInv => WeixinTypeOK /\ SavedOnce
  BY DEF WeixinInv, SavedOnce
<1> QED BY <1>1, WeixinInitInv, WeixinInvStep, PTL DEF WeixinSpec

-----------------------------------------------------------------------------
(* The services together *)

\* A step of the services is one of the service that moves, and a stutter of
\* every other.
LEMMA ServicesStepIsOfOne ==
    ASSUME [ServicesNext]_servicesVars
    PROVE  /\ [RevokedNext]_revokedVars /\ [AuthNext]_authVars
           /\ [RegistrationNext]_registrationVars
           /\ [ExecNext]_execVars /\ [TunnelNext]_tunnelVars /\ [FrontNext]_frontVars
           /\ [ToolsNext]_toolVars /\ [CopyNext]_copyVars /\ [PatchNext]_patchVars
           /\ [ImNext]_imVars /\ [TypingNext]_typingVars /\ [ChannelsNext]_channelVars
           /\ [BridgeNext]_bridgeVars /\ [WeixinNext]_weixinVars
<1>1. CASE GatewayNext
  BY <1>1, Zenon DEF GatewayNext, environmentState, messageState, channelState
<1>2. CASE EnvironmentNext
  BY <1>2, Zenon DEF EnvironmentNext, gatewayState, messageState, channelState
<1>3. CASE MessageNext
  BY <1>3, Zenon DEF MessageNext, gatewayState, environmentState, channelState
<1>4. CASE ChannelNext
  BY <1>4, Zenon DEF ChannelNext, gatewayState, environmentState, messageState
<1>5. CASE UNCHANGED servicesVars
  BY <1>5 DEF servicesVars, gatewayState, environmentState, messageState, channelState
<1> QED BY <1>1, <1>2, <1>3, <1>4, <1>5 DEF ServicesNext

\* Each service together with the others behaves as it does alone.
LEMMA ServicesImplementEach ==
    ServicesSpec => /\ RevokedSpec /\ AuthSpec /\ RegistrationSpec /\ ExecSpec /\ TunnelSpec
                    /\ FrontSpec /\ BridgeSpec /\ WeixinSpec /\ ImSpec /\ TypingSpec
                    /\ ChannelsSpec /\ ToolsSpec /\ CopySpec /\ PatchSpec
<1>1. ServicesInit => /\ RevokedInit /\ AuthInit /\ RegistrationInit /\ ExecInit /\ TunnelInit
                      /\ FrontInit /\ BridgeInit /\ WeixinInit /\ ImInit /\ TypingInit
                      /\ ChannelsInit /\ ToolsInit /\ CopyInit /\ PatchInit
  BY DEF ServicesInit
<1> QED BY <1>1, ServicesStepIsOfOne, PTL
        DEF ServicesSpec, RevokedSpec, AuthSpec, RegistrationSpec, ExecSpec, TunnelSpec, FrontSpec,
            BridgeSpec, WeixinSpec, ImSpec, TypingSpec, ChannelsSpec,
            ToolsSpec, CopySpec, PatchSpec

\* For any number of connections, sessions, tunnels and clients: who is connected is
\* found through the gateway's entries, the tunnels and the listed sessions.
THEOREM ConnectedAlwaysFound == ServicesSpec => []ConnectedIsFound
<1>1. RoutesSound /\ OpenIsActive /\ FrontSound => ConnectedIsFound
  BY DEF ConnectedIsFound
<1> QED BY <1>1, ServicesImplementEach, RoutesAlwaysSound, OpenIsAlwaysActive,
           FrontAlwaysSound, PTL

\* For every cap and lifetime and any number of clients: a revoked turn stays revoked
\* or its caller is told, and of a login's refresh tokens one lives.
THEOREM TokensAlwaysSound == ServicesSpec => []TokensSound
<1>1. NoSilentRelapse /\ AuthSound => TokensSound
  BY DEF TokensSound
<1> QED BY <1>1, ServicesImplementEach, NeverRelapsesSilently, LoginsAlwaysSound, PTL

\* For any number of loops, requests, messages and codes: a message of a chat starts
\* one turn and a login is saved once, but for the rereads that are told apart.
THEOREM NothingEverTwice == ServicesSpec => []NothingTwice
<1>1. AtMostOnce /\ SavedOnce => NothingTwice
  BY DEF NothingTwice
<1> QED BY <1>1, ServicesImplementEach, HandedOnce, LoginSavedOnce, PTL

\* For any number of users' messages, workspaces, channels and requests: turns come
\* one by one where the last left off, nobody is told that it timed out who was
\* answered, and a message goes where its channel's row says.
THEOREM ChatsAlwaysSound == ServicesSpec => []ChatsSound
<1>1. TurnsSound /\ ToldMeansUnanswered /\ ChannelsSound => ChatsSound
  BY DEF ChatsSound
<1> QED BY <1>1, ServicesImplementEach, TurnsAlwaysSound, NobodyMisinformed,
           ChannelsAlwaysSound, PTL

\* For any number of calls of the tools, and whatever calls to executors fail: what the
\* shared pool holds is accounted for, a copied file is complete or absent, and a patch
\* changes what it says and loses nothing else.
THEOREM EnvironmentAlwaysSound == ServicesSpec => []EnvironmentSound
<1>1. ToolsSound /\ CopySound /\ PatchSound => EnvironmentSound
  BY DEF EnvironmentSound
<1> QED BY <1>1, ServicesImplementEach, ToolsAlwaysSound, CopyAlwaysSound, PatchAlwaysSound, PTL

\* Every service that moves keeps to its types.
THEOREM ServicesAlwaysTyped == ServicesSpec => []ServicesTypeOK
<1>1. service \in Services
        /\ RevokedTypeOK /\ AuthTypeOK /\ RegistrationTypeOK /\ ExecTypeOK /\ TunnelTypeOK
        /\ FrontTypeOK /\ BridgeTypeOK /\ WeixinTypeOK /\ ImTypeOK /\ TypingTypeOK
        /\ ChannelsTypeOK /\ ToolsTypeOK /\ CopyTypeOK /\ PatchTypeOK => ServicesTypeOK
  BY Zenon
  DEF ServicesTypeOK, Services, GatewayServices, EnvironmentServices, MessageServices,
      ChannelServices
<1>2. ServicesInit => service \in Services
  BY DEF ServicesInit
<1>3. service \in Services /\ [ServicesNext]_servicesVars => (service \in Services)'
  BY Zenon
  DEF ServicesNext, GatewayNext, EnvironmentNext, MessageNext, ChannelNext, servicesVars
<1>4. ServicesSpec => [](service \in Services)
  BY <1>2, <1>3, PTL DEF ServicesSpec
<1>5. ServicesSpec => [](/\ RevokedTypeOK /\ AuthTypeOK /\ RegistrationTypeOK /\ ExecTypeOK
                         /\ TunnelTypeOK /\ FrontTypeOK /\ BridgeTypeOK /\ WeixinTypeOK)
  BY ServicesImplementEach, NeverRelapsesSilently, AuthAlwaysTyped, RegistrationAlwaysTyped,
     RoutesAlwaysSound, OpenIsAlwaysActive, FrontAlwaysSound, HandedOnce, LoginSavedOnce, PTL
<1>6. ServicesSpec => [](/\ ImTypeOK /\ TypingTypeOK /\ ChannelsTypeOK /\ ToolsTypeOK /\ CopyTypeOK
                         /\ PatchTypeOK)
  BY ServicesImplementEach, TurnsAlwaysSound, NobodyMisinformed, ChannelsAlwaysSound,
     ToolsAlwaysSound, CopyAlwaysSound, PatchAlwaysSound, PTL
<1> QED BY <1>1, <1>4, <1>5, <1>6, PTL

\* For any number of messages and turns: the thread of a user stays his, together
\* with the other services as alone.
THEOREM ThreadAlwaysKeptInServices == ServicesSpec => ThreadKept
BY ServicesImplementEach, ThreadAlwaysKept, PTL

=============================================================================
