------------------------- MODULE Agentserver_proofs --------------------------
(***************************************************************************)
(* TLAPS proofs about what workspaces use and are provided with (LlmProxy, *)
(* ModelserverTokens, OperationLog, CredentialBindings, BindingTokens,     *)
(* ApiKeys, Compositions), one by one, and of all services of agentserver  *)
(* taken together as in MCAgentserver.                                     *)
(*                                                                         *)
(* The arguments: while an answer streams what was heard is what lies      *)
(* before the buffer, which begins with a line, and rows that were counted *)
(* stay as they are (PromptKnown); a token is of the connection there is   *)
(* or of one replaced no longer ago than the token is old (TokensInv); a   *)
(* call is logged once wherever its operation has come to, and its id is   *)
(* of no other call that waits (LogInv, PairInv); while nothing has        *)
(* overlapped, what a DELETE found is so when it deletes, and the rows     *)
(* have one default (RowsInv); a flow is exchanged by the one call that    *)
(* holds it (ExchangeInv); while nothing is forgotten the proxy keeps the  *)
(* good refresh token (BindingInv); a key that was over when it was        *)
(* presented stays over (KeysInv); a sandbox has what its composition was  *)
(* resolved to, or nothing (CompositionInv).                               *)
(***************************************************************************)
EXTENDS MCAgentserver, Accounts_proofs, Provisions_proofs, FiniteSetTheorems,
        WellFoundedInduction, TLAPS

-----------------------------------------------------------------------------
(* The proxy of language models *)

Lines == 1..AnswerLines
UsageRows == [day : Nat, says : SUBSET Lines]
PromptRecords ==
    [pc : {"idle", "quota", "count", "trace", "token", "forward", "stream", "close", "over"},
     api : {"none", "anthropic", "gemini", "openai"},
     metered : BOOLEAN, stream : BOOLEAN, ms : BOOLEAN,
     limit : RpdLimits \cup {0, DefaultMaxRPD}, before : SUBSET Prompts, day : Nat,
     trace : Prompts \cup {Session}, sent : 0..(3 * AnswerLines), from : 0..(3 * AnswerLines),
     heard : SUBSET Lines, completed : BOOLEAN]

LlmTyped ==
    /\ prompt \in [Prompts -> PromptRecords]
    /\ usage \in [Prompts -> UsageRows \cup {NoRow}]
    /\ \A p \in Prompts : usage[p] # NoRow => usage[p].day \in 1..today
    /\ traces \subseteq Prompts \cup {Session} /\ unwritten \subseteq Prompts
    /\ maxRpd \in [max : RpdLimits \cup {NoLimit}, changes : Nat]
    /\ today \in Nat \ {0}

Recorded == {p \in Prompts : usage[p] # NoRow}

\* The usage of a request that is over has come to the database, or the database
\* failed, or the model's name was never heard.
UsageTold(p) ==
    \/ usage[p] # NoRow \/ p \in unwritten
    \/ prompt[p].api = "anthropic" /\ 1 \notin Said(prompt[p].sent)

\* While an answer streams the lines that were heard are those before the buffer,
\* which begins with a line.
PromptKnown(p) ==
    LET q == prompt[p] IN
    /\ q.before \subseteq Recorded
    /\ q.day > 0 => Cardinality({r \in q.before : usage[r].day = q.day}) < q.limit
    /\ q.pc # "trace" => q.day = 0
    /\ q.from <= q.sent
    /\ usage[p] # NoRow =>
          q.pc \in {"close", "over"} /\ usage[p].says = Usage(q.api, Said(q.sent))
    /\ q.pc \notin {"stream", "close", "over"} =>
          q.sent = 0 /\ q.from = 0 /\ q.heard = {} /\ ~q.completed
    /\ q.pc = "stream" =>
          /\ ~q.completed /\ q.from = LineEnd(q.sent)
          /\ q.heard = {k \in Lines : 3 * k <= q.from}
    /\ q.pc = "close" => q.completed /\ q.heard = Said(q.sent) /\ UsageTold(p)
    /\ q.pc = "over" /\ q.metered /\ q.completed => UsageTold(p)

LlmInv ==
    /\ LlmTyped
    /\ IsFiniteSet(Recorded)
    /\ \A p \in Prompts : PromptKnown(p)

LEMMA LineEndIs ==
    ASSUME NEW n \in Nat
    PROVE  \E m \in Nat : LineEnd(n) = 3 * m /\ 3 * m <= n /\ n < 3 * m + 3
<1>1. (n \div 3) \in Nat /\ 3 * (n \div 3) <= n /\ n < 3 * (n \div 3) + 3
  OBVIOUS
<1> QED BY <1>1 DEF LineEnd

LEMMA UsageIsLines ==
    ASSUME NEW api, NEW heard \in SUBSET Lines
    PROVE  Usage(api, heard) \in SUBSET Lines
<1>1. CASE api = "anthropic" \/ heard = {}
  BY <1>1 DEF Usage
<1>2. CASE ~(api = "anthropic" \/ heard = {})
  <2>1. AnswerLines \in Nat
    BY LlmProxyAssumption
  <2>2. PICK rest : rest = {AnswerLines - k : k \in heard}
    OBVIOUS
  <2>3. rest \subseteq Nat /\ rest # {}
    BY <1>2, <2>1, <2>2 DEF Lines
  <2>4. PICK n \in rest : \A m \in rest : n <= m
    <3>1. PICK n \in rest : \A m \in rest : ~(<<m, n>> \in OpToRel(<, Nat))
      BY <2>3, NatLessThanWellFounded, WFMin, Zenon
    <3>2. \A m \in rest : ~(m < n)
      BY <2>3, <3>1 DEF OpToRel
    <3> QED BY <2>3, <3>2
  <2>5. PICK x \in heard : n = AnswerLines - x
    BY <2>2, <2>4
  <2>6. \A y \in heard : x >= y
    <3>1. ASSUME NEW y \in heard PROVE x >= y
      <4>1. AnswerLines - y \in rest
        BY <2>2
      <4>2. n <= AnswerLines - y
        BY <2>4, <4>1
      <4> QED BY <2>1, <2>5, <4>2 DEF Lines
    <3> QED BY <3>1
  <2>7. Max(heard) \in heard
    BY <2>6 DEF Max
  <2> QED BY <1>2, <2>7 DEF Usage
<1> QED BY <1>1, <1>2

LEMMA SaidIsLines == ASSUME NEW n PROVE Said(n) \in SUBSET Lines
BY DEF Said, Lines

\* What a chunk adds to what was heard are the lines up to its last end, and what
\* the end of the stream adds are those that lack only their end.
LEMMA HeardGrows ==
    ASSUME NEW q, NEW n \in Nat, NEW s \in Nat, s <= n,
           q.from = LineEnd(s), q.heard = {k \in Lines : 3 * k <= q.from}
    PROVE  /\ q.heard \cup Parsed(q, LineEnd(n)) = {k \in Lines : 3 * k <= LineEnd(n)}
           /\ q.heard \cup Parsed(q, s) = Said(s)
<1>1. PICK m \in Nat : LineEnd(n) = 3 * m /\ 3 * m <= n /\ n < 3 * m + 3
  BY LineEndIs
<1>2. PICK l \in Nat : LineEnd(s) = 3 * l /\ 3 * l <= s /\ s < 3 * l + 3
  BY LineEndIs
<1>3. l <= m
  BY <1>1, <1>2
<1>4. Lines \subseteq Nat
  BY LlmProxyAssumption DEF Lines
<1>5. \A k \in Lines : k \in q.heard <=> k <= l
  <2>1. \A k \in Lines : k \in q.heard <=> 3 * k <= q.from
    OBVIOUS
  <2>2. q.from = 3 * l
    BY <1>2
  <2> QED BY <1>2, <1>4, <2>1, <2>2
<1>6. \A k \in Lines : k \in Parsed(q, LineEnd(n)) <=> l <= k - 1 /\ k <= m
  <2>1. ASSUME NEW k \in Lines
        PROVE  k \in Parsed(q, LineEnd(n)) <=> l <= k - 1 /\ k <= m
    <3>1. k \in Parsed(q, LineEnd(n)) <=> 3 * l <= 3 * k - 3 /\ 3 * k - 1 <= 3 * m
      BY <1>1, <1>2 DEF Parsed, Lines
    <3> QED BY <1>1, <1>2, <1>4, <3>1
  <2> QED BY <2>1
<1>7. \A k \in Lines : k \in Parsed(q, s) <=> l <= k - 1 /\ 3 * k - 1 <= s
  <2>1. ASSUME NEW k \in Lines
        PROVE  k \in Parsed(q, s) <=> l <= k - 1 /\ 3 * k - 1 <= s
    <3>1. k \in Parsed(q, s) <=> 3 * l <= 3 * k - 3 /\ 3 * k - 1 <= s
      BY <1>2 DEF Parsed, Lines
    <3> QED BY <1>2, <1>4, <3>1
  <2> QED BY <2>1
<1>8. q.heard \subseteq Lines /\ \A x : Parsed(q, x) \subseteq Lines
  BY DEF Parsed, Lines
<1>9. q.heard \cup Parsed(q, LineEnd(n)) = {k \in Lines : 3 * k <= LineEnd(n)}
  <2>1. \A k \in Lines : k \in q.heard \cup Parsed(q, LineEnd(n)) <=> 3 * k <= LineEnd(n)
    BY <1>1, <1>3, <1>4, <1>5, <1>6
  <2> QED BY <1>8, <2>1
<1>10. q.heard \cup Parsed(q, s) = Said(s)
  <2>1. \A k \in Lines : k \in q.heard \cup Parsed(q, s) <=> 3 * k - 1 <= s
    BY <1>2, <1>4, <1>5, <1>7
  <2>2. Said(s) \subseteq Lines /\ \A k \in Lines : k \in Said(s) <=> 3 * k - 1 <= s
    BY DEF Said, Lines
  <2> QED BY <1>8, <2>1, <2>2
<1> QED BY <1>9, <1>10

LEMMA HeardAtEnd ==
    ASSUME NEW q, NEW s \in Nat,
           q.from = LineEnd(s), q.heard = {k \in Lines : 3 * k <= q.from}
    PROVE  q.heard \cup Parsed(q, s) = Said(s)
<1>1. s <= s
  OBVIOUS
<1> QED BY <1>1, HeardGrows

LEMMA PromptIsTyped ==
    ASSUME LlmTyped, NEW p \in Prompts
    PROVE  prompt[p] \in PromptRecords
BY DEF LlmTyped

\* What one request does, at most writing its own row, leaves the others as they are.
LEMMA OneRequestMoves ==
    ASSUME LlmInv, NEW p \in Prompts, NEW q \in PromptRecords,
           prompt' = [prompt EXCEPT ![p] = q],
           \/ usage' = usage
           \/ /\ usage[p] = NoRow
              /\ \E entry \in UsageRows : /\ entry.day = today
                                          /\ usage' = [usage EXCEPT ![p] = entry],
           traces' \subseteq Prompts \cup {Session},
           unwritten \subseteq unwritten' /\ unwritten' \subseteq Prompts,
           UNCHANGED <<maxRpd, today>>,
           PromptKnown(p)'
    PROVE  LlmInv'
<1> USE DEF LlmInv
<1>1. prompt' \in [Prompts -> PromptRecords] /\ \A r \in Prompts : r # p => prompt'[r] = prompt[r]
  BY DEF LlmTyped
<1>2. /\ usage' \in [Prompts -> UsageRows \cup {NoRow}]
      /\ \A r \in Prompts : r # p \/ usage[r] # NoRow => usage'[r] = usage[r]
      /\ usage'[p] = usage[p] \/ usage'[p].day = today
  <2>1. CASE usage' = usage
    BY <2>1 DEF LlmTyped
  <2>2. CASE usage[p] = NoRow /\
             \E entry \in UsageRows : entry.day = today /\ usage' = [usage EXCEPT ![p] = entry]
    BY <2>2 DEF LlmTyped
  <2> QED BY <2>1, <2>2
<1>3. LlmTyped'
  <2>1. \A r \in Prompts : usage'[r] # NoRow => usage'[r].day \in 1..today'
    BY <1>2 DEF LlmTyped
  <2> QED BY <1>1, <1>2, <2>1 DEF LlmTyped
<1>4. Recorded \subseteq Recorded' /\ Recorded' \subseteq Recorded \cup {p}
  BY <1>2 DEF Recorded
<1>5. IsFiniteSet(Recorded')
  <2>1. IsFiniteSet(Recorded \cup {p})
    BY FS_AddElement
  <2> QED BY <1>4, <2>1, FS_Subset
<1>6. ASSUME NEW r \in Prompts, r # p PROVE PromptKnown(r)'
  <2>1. prompt'[r] = prompt[r] /\ usage'[r] = usage[r] /\ PromptKnown(r)
    BY <1>1, <1>2, <1>6
  <2>2. \A s \in prompt[r].before : usage'[s] = usage[s] /\ s \in Recorded'
    BY <1>2, <1>4, <2>1 DEF PromptKnown, Recorded
  <2>3. {s \in prompt'[r].before : usage'[s].day = prompt'[r].day} =
          {s \in prompt[r].before : usage[s].day = prompt[r].day}
    BY <2>1, <2>2
  <2>4. UsageTold(r) => UsageTold(r)'
    BY <2>1 DEF UsageTold
  <2> QED BY <2>1, <2>2, <2>3, <2>4 DEF PromptKnown
<1> QED BY <1>3, <1>5, <1>6

LEMMA LlmInitInv == LlmInit => LlmInv
<1> SUFFICES ASSUME LlmInit PROVE LlmInv
  OBVIOUS
<1>1. NoPromptYet \in PromptRecords
  BY LlmProxyAssumption DEF NoPromptYet, PromptRecords
<1>2. /\ prompt \in [Prompts -> PromptRecords] /\ \A p \in Prompts : prompt[p] = NoPromptYet
      /\ usage \in [Prompts -> UsageRows \cup {NoRow}] /\ \A p \in Prompts : usage[p] = NoRow
      /\ traces = {} /\ unwritten = {} /\ today = 1
  BY <1>1 DEF LlmInit
<1>3. maxRpd \in [max : RpdLimits \cup {NoLimit}, changes : Nat]
  BY DEF LlmInit
<1>4. LlmTyped
  BY <1>2, <1>3 DEF LlmTyped
<1>5. Recorded = {}
  BY <1>2 DEF Recorded
<1>6. \A p \in Prompts : PromptKnown(p)
  BY <1>2 DEF PromptKnown, NoPromptYet
<1> QED BY <1>4, <1>5, <1>6, FS_EmptySet DEF LlmInv

-----------------------------------------------------------------------------

\* A request that is turned away, or whose answer passes unread, has no usage.
LEMMA PromptOverIs ==
    ASSUME LlmTyped, NEW p \in Prompts, NEW q \in PromptRecords, PromptOver(p, q)
    PROVE  \E r \in PromptRecords :
              /\ prompt' = [prompt EXCEPT ![p] = r] /\ prompt'[p] = r
              /\ r.pc = "over" /\ r.api = q.api /\ r.metered = q.metered /\ r.sent = q.sent
              /\ r.completed = q.completed
              /\ r.before = {} /\ r.day = 0 /\ r.from = 0
<1>1. PICK r : r = [NoPromptYet EXCEPT !.pc = "over", !.api = q.api, !.metered = q.metered,
                            !.sent = q.sent, !.completed = q.completed]
  OBVIOUS
<1>2. /\ r.pc = "over" /\ r.api = q.api /\ r.metered = q.metered /\ r.sent = q.sent
      /\ r.completed = q.completed /\ r.before = {} /\ r.day = 0 /\ r.from = 0
  BY <1>1 DEF NoPromptYet
<1>3. r \in PromptRecords
  <2>1. NoPromptYet \in PromptRecords
    BY LlmProxyAssumption DEF NoPromptYet, PromptRecords
  <2> QED BY <1>1, <2>1 DEF PromptRecords
<1>4. prompt' = [prompt EXCEPT ![p] = r]
  BY <1>1 DEF PromptOver
<1>5. prompt'[p] = r
  BY <1>4 DEF LlmTyped
<1> QED BY <1>2, <1>3, <1>4, <1>5

LEMMA OverWithoutUsage ==
    ASSUME LlmInv, NEW p \in Prompts, NEW q \in PromptRecords, PromptOver(p, q),
           usage[p] = NoRow, q.metered => ~q.completed, UNCHANGED <<rowVars, rpdRow>>
    PROVE  LlmInv'
<1> USE DEF LlmInv
<1>1. PICK r \in PromptRecords :
        /\ prompt' = [prompt EXCEPT ![p] = r] /\ prompt'[p] = r
        /\ r.pc = "over" /\ r.api = q.api /\ r.metered = q.metered /\ r.sent = q.sent
        /\ r.completed = q.completed
        /\ r.before = {} /\ r.day = 0 /\ r.from = 0
  BY PromptOverIs
<1>2. UNCHANGED <<usage, traces, unwritten, maxRpd, today>>
  BY DEF rowVars, rpdRow
<1>3. r.sent \in Nat
  BY LlmProxyAssumption DEF PromptRecords
<1>4. PromptKnown(p)'
  BY <1>1, <1>2, <1>3 DEF PromptKnown
<1>5. traces \subseteq Prompts \cup {Session} /\ unwritten \subseteq Prompts
  BY DEF LlmTyped
<1> QED BY <1>1, <1>2, <1>4, <1>5, OneRequestMoves

LEMMA NoPromptYetIs ==
    /\ NoPromptYet \in PromptRecords /\ NoPromptYet.pc = "idle" /\ ~NoPromptYet.metered
    /\ ~NoPromptYet.completed /\ NoPromptYet.day = 0 /\ NoPromptYet.before = {}
    /\ NoPromptYet.sent = 0 /\ NoPromptYet.from = 0 /\ NoPromptYet.heard = {}
BY LlmProxyAssumption DEF NoPromptYet, PromptRecords

LEMMA TurnAwayInv ==
    ASSUME LlmInv, NEW p \in Prompts, TurnAway(p), usage[p] = NoRow,
           UNCHANGED <<rowVars, rpdRow>>
    PROVE  LlmInv'
BY NoPromptYetIs, OverWithoutUsage DEF TurnAway

\* Up to the provider a request has nothing of an answer.
LEMMA BeforeTheAnswer ==
    ASSUME LlmInv, NEW p \in Prompts, NEW q \in PromptRecords,
           prompt' = [prompt EXCEPT ![p] = q],
           prompt[p].pc \notin {"close", "over"},
           q.pc \notin {"stream", "close", "over"},
           q.sent = 0, q.from = 0, q.heard = {}, ~q.completed,
           q.before \subseteq Recorded, q.pc # "trace" => q.day = 0,
           q.day > 0 => Cardinality({r \in q.before : usage[r].day = q.day}) < q.limit,
           usage' = usage, traces' \subseteq Prompts \cup {Session},
           unwritten \subseteq unwritten' /\ unwritten' \subseteq Prompts,
           UNCHANGED <<maxRpd, today>>
    PROVE  LlmInv'
<1>1. prompt'[p] = q
  BY DEF LlmInv, LlmTyped
<1>2. usage[p] = NoRow
  BY DEF LlmInv, PromptKnown
<1>3. Recorded' = Recorded
  BY DEF Recorded
<1>4. {r \in prompt'[p].before : usage'[r].day = prompt'[p].day} =
        {r \in q.before : usage[r].day = q.day}
  BY <1>1
<1>5. prompt'[p].day > 0 => Cardinality({r \in prompt'[p].before :
                                usage'[r].day = prompt'[p].day}) < prompt'[p].limit
  BY <1>1, <1>4
<1>6. /\ prompt'[p].before \subseteq Recorded' /\ prompt'[p].from <= prompt'[p].sent
      /\ usage'[p] = NoRow
      /\ prompt'[p].pc # "trace" => prompt'[p].day = 0
      /\ prompt'[p].sent = 0 /\ prompt'[p].from = 0 /\ prompt'[p].heard = {}
      /\ ~prompt'[p].completed /\ prompt'[p].pc \notin {"stream", "close", "over"}
  BY <1>1, <1>2, <1>3
<1>7. /\ usage'[p] # NoRow =>
            /\ prompt'[p].pc \in {"close", "over"}
            /\ usage'[p].says = Usage(prompt'[p].api, Said(prompt'[p].sent))
      /\ prompt'[p].pc # "stream" /\ prompt'[p].pc # "close" /\ prompt'[p].pc # "over"
  BY <1>6
<1>8. PromptKnown(p)'
  BY <1>5, <1>6, <1>7 DEF PromptKnown
<1> QED BY <1>8, OneRequestMoves

LEMMA BeforeTheAnswerUncounted ==
    ASSUME LlmInv, NEW p \in Prompts, NEW q \in PromptRecords,
           prompt' = [prompt EXCEPT ![p] = q],
           prompt[p].pc \notin {"close", "over"},
           q.pc \notin {"stream", "close", "over"},
           q.sent = 0, q.from = 0, q.heard = {}, ~q.completed,
           q.before \subseteq Recorded, q.day = 0,
           usage' = usage, traces' \subseteq Prompts \cup {Session},
           unwritten \subseteq unwritten' /\ unwritten' \subseteq Prompts,
           maxRpd' = maxRpd, today' = today
    PROVE  LlmInv'
<1>1. /\ q.day > 0 => Cardinality({r \in q.before : usage[r].day = q.day}) < q.limit
      /\ q.pc # "trace" => q.day = 0
  OBVIOUS
<1> QED BY <1>1, BeforeTheAnswer

LEMMA HandleProxyInv ==
    ASSUME LlmInv, NEW p \in Prompts, NEW api \in {"anthropic", "gemini", "openai"},
           NEW metered \in BOOLEAN, NEW stream \in BOOLEAN,
           HandleProxy(p, api, metered, stream)
    PROVE  LlmInv'
<1>1. prompt[p].pc = "idle" /\ UNCHANGED <<rowVars, rpdRow>>
  BY DEF HandleProxy, PromptAt
<1>2. usage[p] = NoRow
  BY <1>1 DEF LlmInv, PromptKnown
<1>3. CASE TurnAway(p)
  BY <1>1, <1>2, <1>3, TurnAwayInv
<1>4. CASE Validated(p, api, metered, stream) /\ ~TurnAway(p)
  <2>1. PICK found \in BOOLEAN :
          LET q == [NoPromptYet EXCEPT !.api = api, !.metered = metered,
                                       !.stream = stream, !.ms = found] IN
          prompt' = [prompt EXCEPT ![p] =
             IF metered /\ ~found
             THEN [q EXCEPT !.pc = "quota", !.before = {r \in Prompts : usage[r] # NoRow}]
             ELSE [q EXCEPT !.pc = AfterQuota(q)]]
    BY <1>4, Zenon DEF Validated
  <2>2. PICK q : q = [NoPromptYet EXCEPT !.api = api, !.metered = metered,
                                         !.stream = stream, !.ms = found]
    OBVIOUS
  <2>3. /\ q \in PromptRecords /\ q.day = 0 /\ q.sent = 0 /\ q.from = 0 /\ q.heard = {}
        /\ ~q.completed /\ q.before = {}
    BY <2>2, NoPromptYetIs, ZenonT(40) DEF PromptRecords
  <2>4. PICK r : r = IF metered /\ ~found
             THEN [q EXCEPT !.pc = "quota", !.before = {s \in Prompts : usage[s] # NoRow}]
             ELSE [q EXCEPT !.pc = AfterQuota(q)]
    BY Zenon
  <2>5. prompt' = [prompt EXCEPT ![p] = r]
    BY <2>1, <2>2, <2>4
  <2>6. AfterQuota(q) \in {"trace", "token", "forward"}
    BY DEF AfterQuota
  <2>7. /\ r \in PromptRecords /\ r.day = 0 /\ r.sent = 0 /\ r.from = 0 /\ r.heard = {}
        /\ ~r.completed /\ r.before \subseteq Recorded
        /\ r.pc \in {"quota", "trace", "token", "forward"}
    <3>1. CASE metered /\ ~found
      BY <2>3, <2>4, <3>1, Zenon DEF PromptRecords, Recorded
    <3>2. CASE ~(metered /\ ~found)
      BY <2>3, <2>4, <2>6, <3>2, Zenon DEF PromptRecords
    <3> QED BY <3>1, <3>2
  <2>8. UNCHANGED <<usage, traces, unwritten, maxRpd, today>>
    BY <1>1 DEF rowVars, rpdRow
  <2>9. traces \subseteq Prompts \cup {Session} /\ unwritten \subseteq Prompts
    BY DEF LlmInv, LlmTyped
  <2> QED BY <1>1, <2>5, <2>7, <2>8, <2>9, BeforeTheAnswerUncounted
<1> QED BY <1>3, <1>4 DEF HandleProxy

LEMMA ReadMaxRPDInv == ASSUME LlmInv, NEW p \in Prompts, ReadMaxRPD(p) PROVE LlmInv'
<1>1. prompt[p].pc = "quota" /\ UNCHANGED <<usage, traces, unwritten, maxRpd, today>>
  BY DEF ReadMaxRPD, PromptAt, rowVars, rpdRow
<1>2. PICK max \in {DefaultMaxRPD, IF maxRpd.max = NoLimit THEN DefaultMaxRPD ELSE maxRpd.max} :
         prompt' = [prompt EXCEPT ![p].limit = max,
                                  ![p].pc = IF max = 0 THEN "trace" ELSE "count"]
  BY DEF ReadMaxRPD
<1>3. max \in RpdLimits \cup {0, DefaultMaxRPD}
  BY <1>2 DEF LlmInv, LlmTyped
<1>4. prompt[p] \in PromptRecords /\ PromptKnown(p)
  BY PromptIsTyped DEF LlmInv
<1>5. PICK q \in PromptRecords :
        /\ prompt' = [prompt EXCEPT ![p] = q] /\ q.pc \in {"trace", "count"}
        /\ q.sent = prompt[p].sent /\ q.from = prompt[p].from /\ q.heard = prompt[p].heard
        /\ q.completed = prompt[p].completed /\ q.before = prompt[p].before
        /\ q.day = prompt[p].day
  <2>1. PICK q : q = [prompt[p] EXCEPT !.limit = max,
                                       !.pc = IF max = 0 THEN "trace" ELSE "count"]
    OBVIOUS
  <2>2. q \in PromptRecords /\ q.pc \in {"trace", "count"}
    BY <1>3, <1>4, <2>1 DEF PromptRecords
  <2>3. /\ q.sent = prompt[p].sent /\ q.from = prompt[p].from /\ q.heard = prompt[p].heard
        /\ q.completed = prompt[p].completed /\ q.before = prompt[p].before
        /\ q.day = prompt[p].day
    BY <2>1
  <2>4. prompt' = [prompt EXCEPT ![p] = q]
    BY <1>2, <2>1 DEF LlmInv, LlmTyped
  <2> QED BY <2>2, <2>3, <2>4
<1>6. /\ q.sent = 0 /\ q.from = 0 /\ q.heard = {} /\ ~q.completed
      /\ q.before \subseteq Recorded /\ q.day = 0
  BY <1>1, <1>4, <1>5 DEF PromptKnown
<1>7. traces \subseteq Prompts \cup {Session} /\ unwritten \subseteq Prompts
  BY DEF LlmInv, LlmTyped
<1> QED BY <1>1, <1>5, <1>6, <1>7, BeforeTheAnswerUncounted

LEMMA CountTodayRequestsInv ==
    ASSUME LlmInv, NEW p \in Prompts, CountTodayRequests(p) PROVE LlmInv'
<1>1. /\ prompt[p].pc = "count" /\ UNCHANGED <<rowVars, rpdRow>>
      /\ UNCHANGED <<usage, traces, unwritten, maxRpd, today>>
  BY DEF CountTodayRequests, PromptAt, rowVars, rpdRow
<1>2. prompt[p] \in PromptRecords /\ PromptKnown(p) /\ usage[p] = NoRow
  BY <1>1, PromptIsTyped DEF LlmInv, PromptKnown
<1>3. /\ prompt[p].sent = 0 /\ prompt[p].from = 0 /\ prompt[p].heard = {}
      /\ ~prompt[p].completed /\ prompt[p].before \subseteq Recorded /\ prompt[p].day = 0
  BY <1>1, <1>2 DEF PromptKnown
<1>4. traces \subseteq Prompts \cup {Session} /\ unwritten \subseteq Prompts
  BY DEF LlmInv, LlmTyped
<1>5. CASE TurnAway(p)
  BY <1>1, <1>2, <1>5, TurnAwayInv
<1>6. CASE PromptGoes(p, "trace")
  <2>1. PICK q \in PromptRecords :
          /\ prompt' = [prompt EXCEPT ![p] = q] /\ q.pc = "trace"
          /\ q.sent = 0 /\ q.from = 0 /\ q.heard = {}
          /\ ~q.completed /\ q.before \subseteq Recorded /\ q.day = 0
    <3>1. PICK q : q = [prompt[p] EXCEPT !.pc = "trace"]
      OBVIOUS
    <3>2. q \in PromptRecords
      BY <1>2, <3>1 DEF PromptRecords
    <3>3. /\ q.pc = "trace" /\ q.sent = 0 /\ q.from = 0 /\ q.heard = {}
          /\ ~q.completed /\ q.before \subseteq Recorded /\ q.day = 0
      BY <1>2, <1>3, <3>1 DEF PromptRecords
    <3>4. prompt' = [prompt EXCEPT ![p] = q]
      BY <1>6, <3>1 DEF PromptGoes, LlmInv, LlmTyped
    <3> QED BY <3>2, <3>3, <3>4
  <2> QED BY <1>1, <1>4, <2>1, BeforeTheAnswerUncounted
<1>7. CASE /\ ~(CountToday >= prompt[p].limit)
           /\ prompt' = [prompt EXCEPT ![p].pc = "trace", ![p].day = today]
  <2>1. today \in Nat
    BY DEF LlmInv, LlmTyped
  <2>2. PICK q \in PromptRecords :
          /\ prompt' = [prompt EXCEPT ![p] = q] /\ q.pc = "trace" /\ q.day = today
          /\ q.sent = 0 /\ q.from = 0 /\ q.heard = {}
          /\ ~q.completed /\ q.before \subseteq Recorded /\ q.limit = prompt[p].limit
    <3>1. PICK q : q = [prompt[p] EXCEPT !.pc = "trace", !.day = today]
      OBVIOUS
    <3>2. q \in PromptRecords
      BY <1>2, <2>1, <3>1 DEF PromptRecords
    <3>3. /\ q.pc = "trace" /\ q.sent = 0 /\ q.from = 0 /\ q.heard = {} /\ q.day = today
          /\ ~q.completed /\ q.before \subseteq Recorded /\ q.limit = prompt[p].limit
      BY <1>2, <1>3, <3>1 DEF PromptRecords
    <3>4. prompt' = [prompt EXCEPT ![p] = q]
      BY <1>7, <3>1 DEF LlmInv, LlmTyped
    <3> QED BY <3>2, <3>3, <3>4
  <2>3. PICK counted : counted = {r \in Prompts : usage[r] # NoRow /\ usage[r].day = today}
    OBVIOUS
  <2>4. IsFiniteSet(counted)
    <3>1. counted \subseteq Recorded /\ IsFiniteSet(Recorded)
      BY <2>3 DEF Recorded, LlmInv
    <3> QED BY <3>1, FS_Subset
  <2>5. {r \in q.before : usage[r].day = today} \subseteq counted
    BY <2>2, <2>3 DEF Recorded
  <2>6. /\ IsFiniteSet({r \in q.before : usage[r].day = today})
        /\ Cardinality({r \in q.before : usage[r].day = today}) <= Cardinality(counted)
    BY <2>4, <2>5, FS_Subset
  <2>7. /\ Cardinality(counted) \in Nat
        /\ Cardinality({r \in q.before : usage[r].day = today}) \in Nat
    BY <2>4, <2>6, FS_CardinalityType
  <2>8. q.limit \in Nat
    <3>1. q.limit \in RpdLimits \cup {0, DefaultMaxRPD}
      BY DEF PromptRecords
    <3>2. RpdLimits \subseteq Nat /\ DefaultMaxRPD \in Nat /\ 0 \in Nat
      BY LlmProxyAssumption
    <3> QED BY <3>1, <3>2
  <2>9. CountToday = Cardinality(counted)
    BY <2>3 DEF CountToday
  <2>10. Cardinality({r \in q.before : usage[r].day = q.day}) < q.limit
    BY <1>7, <2>2, <2>6, <2>7, <2>8, <2>9
  <2> QED BY <1>1, <1>4, <2>2, <2>10, BeforeTheAnswer
<1> QED BY <1>5, <1>6, <1>7 DEF CountTodayRequests

LEMMA GetOrCreateTraceInv ==
    ASSUME LlmInv, NEW p \in Prompts, GetOrCreateTrace(p) PROVE LlmInv'
<1>1. prompt[p].pc = "trace" /\ UNCHANGED rpdRow /\ UNCHANGED <<maxRpd, today>>
  BY DEF GetOrCreateTrace, PromptAt, rpdRow
<1>2. prompt[p] \in PromptRecords /\ PromptKnown(p) /\ usage[p] = NoRow
  BY <1>1, PromptIsTyped DEF LlmInv, PromptKnown
<1>3. CASE TurnAway(p) /\ UNCHANGED rowVars
  BY <1>1, <1>2, <1>3, TurnAwayInv
<1>4. CASE ~(TurnAway(p) /\ UNCHANGED rowVars)
  <2>1. PICK t \in {Session, p} :
            /\ prompt' = [prompt EXCEPT ![p] = [@ EXCEPT
                 !.pc = IF prompt[p].ms THEN "token" ELSE "forward",
                 !.limit = 0, !.before = {}, !.day = 0, !.trace = t]]
            /\ \/ traces' = traces \cup {t} /\ UNCHANGED <<usage, unwritten>>
               \/ unwritten' = unwritten \cup {p} /\ UNCHANGED <<usage, traces>>
    BY <1>4 DEF GetOrCreateTrace
  <2>2. PICK q : q = [prompt[p] EXCEPT
                 !.pc = IF prompt[p].ms THEN "token" ELSE "forward",
                 !.limit = 0, !.before = {}, !.day = 0, !.trace = t]
    OBVIOUS
  <2>3. q \in PromptRecords /\ q.pc \in {"token", "forward"}
    BY <1>2, <2>2 DEF PromptRecords
  <2>4. /\ q.sent = prompt[p].sent /\ q.from = prompt[p].from /\ q.heard = prompt[p].heard
        /\ q.completed = prompt[p].completed /\ q.before = {} /\ q.day = 0
    BY <1>2, <2>2 DEF PromptRecords
  <2>5. q.sent = 0 /\ q.from = 0 /\ q.heard = {} /\ ~q.completed
    BY <1>1, <1>2, <2>4 DEF PromptKnown
  <2>6. prompt' = [prompt EXCEPT ![p] = q]
    BY <2>1, <2>2 DEF LlmInv, LlmTyped
  <2>7. /\ usage' = usage /\ traces' \subseteq Prompts \cup {Session}
        /\ unwritten \subseteq unwritten' /\ unwritten' \subseteq Prompts
    BY <2>1 DEF LlmInv, LlmTyped
  <2> QED BY <1>1, <2>3, <2>4, <2>5, <2>6, <2>7, BeforeTheAnswerUncounted
<1> QED BY <1>3, <1>4

LEMMA AwaitModelserverTokenInv ==
    ASSUME LlmInv, NEW p \in Prompts, AwaitModelserverToken(p) PROVE LlmInv'
<1>1. /\ prompt[p].pc = "token" /\ UNCHANGED <<rowVars, rpdRow>>
      /\ UNCHANGED <<usage, traces, unwritten, maxRpd, today>>
  BY DEF AwaitModelserverToken, PromptAt, rowVars, rpdRow
<1>2. prompt[p] \in PromptRecords /\ PromptKnown(p) /\ usage[p] = NoRow
  BY <1>1, PromptIsTyped DEF LlmInv, PromptKnown
<1>3. /\ prompt[p].sent = 0 /\ prompt[p].from = 0 /\ prompt[p].heard = {}
      /\ ~prompt[p].completed /\ prompt[p].before \subseteq Recorded /\ prompt[p].day = 0
  BY <1>1, <1>2 DEF PromptKnown
<1>4. CASE TurnAway(p)
  BY <1>1, <1>2, <1>4, TurnAwayInv
<1>5. CASE PromptGoes(p, "forward")
  <2>1. PICK q : q = [prompt[p] EXCEPT !.pc = "forward"]
    OBVIOUS
  <2>2. q \in PromptRecords
    BY <1>2, <2>1 DEF PromptRecords
  <2>3. /\ q.pc = "forward" /\ q.sent = 0 /\ q.from = 0 /\ q.heard = {}
        /\ ~q.completed /\ q.before \subseteq Recorded /\ q.day = 0
    BY <1>2, <1>3, <2>1 DEF PromptRecords
  <2>4. prompt' = [prompt EXCEPT ![p] = q]
    BY <1>5, <2>1 DEF PromptGoes, LlmInv, LlmTyped
  <2>5. traces \subseteq Prompts \cup {Session} /\ unwritten \subseteq Prompts
    BY DEF LlmInv, LlmTyped
  <2> QED BY <1>1, <2>2, <2>3, <2>4, <2>5, BeforeTheAnswerUncounted
<1> QED BY <1>4, <1>5 DEF AwaitModelserverToken

-----------------------------------------------------------------------------

\* A row is written once, or the write fails.
LEMMA RecordUsageIs ==
    ASSUME LlmTyped, NEW p \in Prompts, NEW heard \in SUBSET Lines, RecordUsage(p, heard)
    PROVE  /\ traces' = traces
           /\ \/ /\ unwritten' = unwritten
                 /\ \E entry \in UsageRows :
                      /\ entry.day = today /\ entry.says = Usage(prompt[p].api, heard)
                      /\ usage' = [usage EXCEPT ![p] = entry]
                      /\ usage'[p] = entry /\ entry # NoRow
              \/ unwritten' = unwritten \cup {p} /\ usage' = usage
<1>1. CASE unwritten' = unwritten \cup {p} /\ UNCHANGED <<usage, traces>>
  BY <1>1
<1>2. CASE /\ UNCHANGED <<traces, unwritten>>
           /\ usage' = [usage EXCEPT ![p] =
                          [day |-> today, says |-> Usage(prompt[p].api, heard)]]
  <2>1. Usage(prompt[p].api, heard) \in SUBSET Lines /\ today \in Nat
    BY UsageIsLines DEF LlmTyped
  <2>2. PICK entry : entry = [day |-> today, says |-> Usage(prompt[p].api, heard)]
    OBVIOUS
  <2>3. entry \in UsageRows /\ entry.day = today /\ entry.says = Usage(prompt[p].api, heard)
    BY <2>1, <2>2 DEF UsageRows
  <2>4. NoRow \notin UsageRows
    BY LlmProxyAssumption DEF UsageRows, Lines
  <2>5. usage' = [usage EXCEPT ![p] = entry] /\ usage'[p] = entry
    BY <1>2, <2>2 DEF LlmTyped
  <2> QED BY <1>2, <2>3, <2>4, <2>5
<1> QED BY <1>1, <1>2 DEF RecordUsage

\* The end of an answer that is metered, all of whose whole lines were heard.
LEMMA AnswerEnds ==
    ASSUME LlmInv, NEW p \in Prompts, NEW r \in PromptRecords,
           prompt' = [prompt EXCEPT ![p] = r], usage[p] = NoRow,
           r.api = prompt[p].api, r.pc \in {"close", "over"},
           r.before \subseteq Recorded, r.day = 0, r.from <= r.sent, r.completed,
           r.pc = "close" => r.heard = Said(r.sent),
           \/ RecordUsage(p, Said(r.sent))
           \/ UNCHANGED rowVars /\ r.api = "anthropic" /\ 1 \notin Said(r.sent),
           UNCHANGED rpdRow
    PROVE  LlmInv'
<1>1. prompt'[p] = r /\ LlmTyped /\ UNCHANGED <<maxRpd, today>>
  BY DEF LlmInv, LlmTyped, rpdRow
<1>2. Said(r.sent) \in SUBSET Lines
  BY SaidIsLines
<1>3. traces \subseteq Prompts \cup {Session} /\ unwritten \subseteq Prompts
  BY DEF LlmInv, LlmTyped
<1>4. CASE UNCHANGED rowVars /\ r.api = "anthropic" /\ 1 \notin Said(r.sent)
  <2>1. UNCHANGED <<usage, traces, unwritten>> /\ Recorded' = Recorded
    BY <1>4 DEF rowVars, Recorded
  <2>2. UsageTold(p)'
    BY <1>1, <1>4 DEF UsageTold
  <2>3. PromptKnown(p)'
    BY <1>1, <2>1, <2>2 DEF PromptKnown
  <2> QED BY <1>1, <1>3, <2>1, <2>3, OneRequestMoves
<1>5. CASE RecordUsage(p, Said(r.sent))
  <2>1. /\ traces' = traces
        /\ \/ /\ unwritten' = unwritten
              /\ \E entry \in UsageRows :
                   /\ entry.day = today /\ entry.says = Usage(prompt[p].api, Said(r.sent))
                   /\ usage' = [usage EXCEPT ![p] = entry]
                   /\ usage'[p] = entry /\ entry # NoRow
           \/ unwritten' = unwritten \cup {p} /\ usage' = usage
    BY <1>1, <1>2, <1>5, RecordUsageIs
  <2>2. CASE unwritten' = unwritten \cup {p} /\ usage' = usage
    <3>1. UsageTold(p)' /\ Recorded' = Recorded
      BY <2>2 DEF UsageTold, Recorded
    <3>2. PromptKnown(p)'
      BY <1>1, <2>2, <3>1 DEF PromptKnown
    <3> QED BY <1>1, <1>3, <2>1, <2>2, <3>2, OneRequestMoves
  <2>3. CASE ~(unwritten' = unwritten \cup {p} /\ usage' = usage)
    <3>1. unwritten' = unwritten
      BY <2>1, <2>3
    <3>2. PICK entry \in UsageRows :
                   /\ entry.day = today /\ entry.says = Usage(prompt[p].api, Said(r.sent))
                   /\ usage' = [usage EXCEPT ![p] = entry]
                   /\ usage'[p] = entry /\ entry # NoRow
      BY <2>1, <2>3
    <3>3. Recorded \subseteq Recorded'
      BY <3>2 DEF Recorded, LlmInv, LlmTyped
    <3>4. UsageTold(p)'
      BY <3>2 DEF UsageTold
    <3>5. usage'[p].says = Usage(r.api, Said(r.sent))
      BY <3>2
    <3>6. PromptKnown(p)'
      BY <1>1, <3>3, <3>4, <3>5 DEF PromptKnown
    <3> QED BY <1>1, <1>3, <2>1, <3>1, <3>2, <3>6, OneRequestMoves
  <2> QED BY <2>2, <2>3
<1> QED BY <1>4, <1>5

LEMMA ServeWholeInv == ASSUME LlmInv, NEW p \in Prompts, ServeWhole(p) PROVE LlmInv'
<1>1. prompt[p].pc = "forward" /\ UNCHANGED rpdRow
  BY DEF ServeWhole, PromptAt
<1>2. prompt[p] \in PromptRecords /\ usage[p] = NoRow /\ LlmTyped /\ AnswerLines \in Nat
  BY <1>1, PromptIsTyped, LlmProxyAssumption DEF LlmInv, PromptKnown
<1>3. CASE PromptOver(p, [prompt[p] EXCEPT !.metered = FALSE]) /\ UNCHANGED rowVars
  <2>1. PICK q : q = [prompt[p] EXCEPT !.metered = FALSE]
    OBVIOUS
  <2>2. q \in PromptRecords /\ ~q.metered
    BY <1>2, <2>1 DEF PromptRecords
  <2> QED BY <1>1, <1>2, <1>3, <2>1, <2>2, OverWithoutUsage
<1>4. CASE /\ PromptOver(p, [prompt[p] EXCEPT !.sent = 3 * AnswerLines, !.completed = TRUE])
           /\ RecordUsage(p, 1..AnswerLines)
  <2>1. PICK q : q = [prompt[p] EXCEPT !.sent = 3 * AnswerLines, !.completed = TRUE]
    OBVIOUS
  <2>2. 3 * AnswerLines \in 0..(3 * AnswerLines)
    BY <1>2
  <2>3. /\ q \in PromptRecords /\ q.sent = 3 * AnswerLines /\ q.completed
        /\ q.api = prompt[p].api
    BY <1>2, <2>1, <2>2 DEF PromptRecords
  <2>4. PICK r \in PromptRecords :
          /\ prompt' = [prompt EXCEPT ![p] = r] /\ prompt'[p] = r
          /\ r.pc = "over" /\ r.api = q.api /\ r.metered = q.metered /\ r.sent = q.sent
          /\ r.completed = q.completed
          /\ r.before = {} /\ r.day = 0 /\ r.from = 0
    <3>1. PromptOver(p, q)
      BY <1>4, <2>1
    <3> QED BY <1>2, <2>3, <3>1, PromptOverIs
  <2>5. Said(r.sent) = 1..AnswerLines
    BY <1>2, <2>3, <2>4 DEF Said
  <2>6. RecordUsage(p, Said(r.sent))
    BY <1>4, <2>5
  <2>7. r.from <= r.sent /\ r.completed /\ r.before \subseteq Recorded /\ r.api = prompt[p].api
    BY <1>2, <2>3, <2>4
  <2>8. r.pc \in {"close", "over"} /\ r.pc # "close" /\ r.day = 0
    BY <2>4
  <2> QED BY <1>1, <1>2, <2>4, <2>6, <2>7, <2>8, AnswerEnds
<1> QED BY <1>3, <1>4 DEF ServeWhole

LEMMA InterceptStreamingInv ==
    ASSUME LlmInv, NEW p \in Prompts, InterceptStreaming(p) PROVE LlmInv'
<1>1. /\ prompt[p].pc = "forward" /\ PromptGoes(p, "stream")
      /\ UNCHANGED <<usage, traces, unwritten, maxRpd, today>>
  BY DEF InterceptStreaming, PromptAt, rowVars, rpdRow
<1>2. prompt[p] \in PromptRecords /\ usage[p] = NoRow /\ PromptKnown(p)
  BY <1>1, PromptIsTyped DEF LlmInv, PromptKnown
<1>3. /\ prompt[p].sent = 0 /\ prompt[p].from = 0 /\ prompt[p].heard = {}
      /\ ~prompt[p].completed /\ prompt[p].before \subseteq Recorded /\ prompt[p].day = 0
  BY <1>1, <1>2 DEF PromptKnown
<1>4. PICK q : q = [prompt[p] EXCEPT !.pc = "stream"]
  OBVIOUS
<1>5. q \in PromptRecords
  BY <1>2, <1>4 DEF PromptRecords
<1>6. /\ q.pc = "stream" /\ q.sent = 0 /\ q.from = 0 /\ q.heard = {}
      /\ ~q.completed /\ q.before \subseteq Recorded /\ q.day = 0
  BY <1>2, <1>3, <1>4 DEF PromptRecords
<1>7. prompt' = [prompt EXCEPT ![p] = q] /\ prompt'[p] = q
  BY <1>1, <1>4 DEF PromptGoes, LlmInv, LlmTyped
<1>8. LineEnd(0) = 0 /\ {k \in Lines : 3 * k <= 0} = {}
  <2>1. PICK m \in Nat : LineEnd(0) = 3 * m /\ 3 * m <= 0
    BY LineEndIs
  <2> QED BY <2>1, LlmProxyAssumption DEF Lines
<1>9. Recorded' = Recorded
  BY <1>1 DEF Recorded
<1>10. PromptKnown(p)'
  BY <1>1, <1>2, <1>6, <1>7, <1>8, <1>9 DEF PromptKnown
<1>11. traces \subseteq Prompts \cup {Session} /\ unwritten \subseteq Prompts
  BY DEF LlmInv, LlmTyped
<1> QED BY <1>1, <1>5, <1>7, <1>10, <1>11, OneRequestMoves

LEMMA ReadInv == ASSUME LlmInv, NEW p \in Prompts, Read(p) PROVE LlmInv'
<1>1. prompt[p].pc = "stream" /\ UNCHANGED <<usage, traces, unwritten, maxRpd, today>>
  BY DEF Read, PromptAt, rowVars, rpdRow
<1>2. prompt[p] \in PromptRecords /\ usage[p] = NoRow /\ PromptKnown(p)
  BY <1>1, PromptIsTyped DEF LlmInv, PromptKnown
<1>3. /\ prompt[p].from = LineEnd(prompt[p].sent) /\ ~prompt[p].completed
      /\ prompt[p].heard = {k \in Lines : 3 * k <= prompt[p].from}
      /\ prompt[p].before \subseteq Recorded /\ prompt[p].day = 0
  BY <1>1, <1>2 DEF PromptKnown
<1>4. PICK n \in (prompt[p].sent + 1)..(3 * AnswerLines) :
         prompt' = [prompt EXCEPT ![p].sent = n, ![p].from = LineEnd(n),
                      ![p].heard = @ \cup Parsed(prompt[p], LineEnd(n))]
  BY Zenon DEF Read
<1>5. /\ prompt[p].sent \in Nat /\ AnswerLines \in Nat /\ n \in Nat /\ prompt[p].sent <= n
      /\ n \in 0..(3 * AnswerLines)
  <2>1. AnswerLines \in Nat /\ prompt[p].sent \in 0..(3 * AnswerLines)
    BY <1>2, LlmProxyAssumption DEF PromptRecords
  <2> QED BY <1>4, <2>1
<1>6. prompt[p].heard \cup Parsed(prompt[p], LineEnd(n)) = {k \in Lines : 3 * k <= LineEnd(n)}
  BY <1>3, <1>5, HeardGrows
<1>7. LineEnd(n) \in 0..(3 * AnswerLines) /\ LineEnd(n) <= n
  <2>1. PICK m \in Nat : LineEnd(n) = 3 * m /\ 3 * m <= n
    BY <1>5, LineEndIs
  <2> QED BY <1>5, <2>1
<1>8. PICK q : q = [prompt[p] EXCEPT !.sent = n, !.from = LineEnd(n),
                      !.heard = {k \in Lines : 3 * k <= LineEnd(n)}]
  BY Zenon
<1>9. q \in PromptRecords
  BY <1>2, <1>5, <1>7, <1>8, Zenon DEF PromptRecords
<1>10. /\ q.sent = n /\ q.from = LineEnd(n) /\ q.heard = {k \in Lines : 3 * k <= q.from}
       /\ q.pc = "stream" /\ ~q.completed /\ q.before \subseteq Recorded /\ q.day = 0
  BY <1>1, <1>2, <1>3, <1>8 DEF PromptRecords
<1>11. prompt' = [prompt EXCEPT ![p] = q] /\ prompt'[p] = q
  <2>1. [prompt[p] EXCEPT !.sent = n, !.from = LineEnd(n),
                      !.heard = @ \cup Parsed(prompt[p], LineEnd(n))] = q
    BY <1>6, <1>8
  <2>2. prompt' = [prompt EXCEPT ![p] =
           [prompt[p] EXCEPT !.sent = n, !.from = LineEnd(n),
                      !.heard = @ \cup Parsed(prompt[p], LineEnd(n))]]
    BY <1>4 DEF LlmInv, LlmTyped
  <2> QED BY <2>1, <2>2 DEF LlmInv, LlmTyped
<1>12. Recorded' = Recorded
  BY <1>1 DEF Recorded
<1>13. PromptKnown(p)'
  BY <1>1, <1>2, <1>7, <1>10, <1>11, <1>12 DEF PromptKnown
<1>14. traces \subseteq Prompts \cup {Session} /\ unwritten \subseteq Prompts
  BY DEF LlmInv, LlmTyped
<1> QED BY <1>1, <1>9, <1>11, <1>13, <1>14, OneRequestMoves

\* What is in the buffer at the end is heard as well; flushed twice it says no more.
LEMMA FlushIs ==
    ASSUME LlmInv, NEW p \in Prompts, prompt[p].pc \in {"stream", "close"}
    PROVE  \E q \in PromptRecords :
              /\ q = FlushRemaining(prompt[p]) /\ q.heard = Said(q.sent) /\ q.from = q.sent
              /\ q.sent = prompt[p].sent /\ q.api = prompt[p].api /\ q.pc = prompt[p].pc
              /\ q.completed = prompt[p].completed /\ q.before = prompt[p].before
              /\ q.day = prompt[p].day /\ q.metered = prompt[p].metered
<1>1. prompt[p] \in PromptRecords /\ PromptKnown(p)
  BY PromptIsTyped DEF LlmInv
<1>2. prompt[p].sent \in 0..(3 * AnswerLines) /\ AnswerLines \in Nat
  BY <1>1, LlmProxyAssumption DEF PromptRecords
<1>3. prompt[p].heard \cup Parsed(prompt[p], prompt[p].sent) = Said(prompt[p].sent)
  <2>1. CASE prompt[p].pc = "stream"
    <3>1. /\ prompt[p].from = LineEnd(prompt[p].sent)
          /\ prompt[p].heard = {k \in Lines : 3 * k <= prompt[p].from}
      BY <1>1, <2>1 DEF PromptKnown
    <3>2. prompt[p].sent \in Nat
      BY <1>2
    <3> QED BY <3>1, <3>2, HeardAtEnd
  <2>2. CASE prompt[p].pc = "close"
    <3>1. prompt[p].heard = Said(prompt[p].sent)
      BY <1>1, <2>2 DEF PromptKnown
    <3>2. Parsed(prompt[p], prompt[p].sent) \subseteq Said(prompt[p].sent)
      BY DEF Parsed, Said
    <3> QED BY <3>1, <3>2
  <2> QED BY <2>1, <2>2
<1>4. PICK q : q = FlushRemaining(prompt[p])
  OBVIOUS
<1>5. q = [prompt[p] EXCEPT !.heard = Said(prompt[p].sent), !.from = prompt[p].sent]
  BY <1>3, <1>4 DEF FlushRemaining
<1>6. Said(prompt[p].sent) \in SUBSET Lines
  BY SaidIsLines
<1>7. q \in PromptRecords
  BY <1>1, <1>2, <1>5, <1>6 DEF PromptRecords
<1>8. /\ q.heard = Said(prompt[p].sent) /\ q.from = prompt[p].sent
      /\ q.sent = prompt[p].sent /\ q.api = prompt[p].api /\ q.pc = prompt[p].pc
      /\ q.completed = prompt[p].completed /\ q.before = prompt[p].before
      /\ q.day = prompt[p].day /\ q.metered = prompt[p].metered
  BY <1>1, <1>5 DEF PromptRecords
<1>9. q.heard = Said(q.sent) /\ q.from = q.sent
  BY <1>8
<1> QED BY <1>4, <1>7, <1>8, <1>9

LEMMA ReadEOFInv == ASSUME LlmInv, NEW p \in Prompts, ReadEOF(p) PROVE LlmInv'
<1>1. prompt[p].pc = "stream" /\ ~prompt[p].completed /\ UNCHANGED rpdRow
  BY DEF ReadEOF, PromptAt
<1>2. prompt[p] \in PromptRecords /\ usage[p] = NoRow /\ PromptKnown(p)
  BY <1>1, PromptIsTyped DEF LlmInv, PromptKnown
<1>3. PICK q \in PromptRecords :
              /\ q = FlushRemaining(prompt[p]) /\ q.heard = Said(q.sent) /\ q.from = q.sent
              /\ q.sent = prompt[p].sent /\ q.api = prompt[p].api /\ q.pc = prompt[p].pc
              /\ q.completed = prompt[p].completed /\ q.before = prompt[p].before
              /\ q.day = prompt[p].day /\ q.metered = prompt[p].metered
  BY <1>1, FlushIs
<1>4. /\ prompt' = [prompt EXCEPT ![p] = [q EXCEPT !.completed = TRUE, !.pc = "close"]]
      /\ Finish(p, q)
  BY <1>3 DEF ReadEOF
<1>5. PICK r : r = [q EXCEPT !.completed = TRUE, !.pc = "close"]
  OBVIOUS
<1>6. /\ r \in PromptRecords /\ r.completed /\ r.pc = "close"
      /\ r.heard = q.heard /\ r.from = q.from /\ r.sent = q.sent /\ r.api = q.api
      /\ r.before = q.before /\ r.day = q.day
  BY <1>5 DEF PromptRecords
<1>7. prompt' = [prompt EXCEPT ![p] = r]
  BY <1>4, <1>5
<1>8. r.before \subseteq Recorded /\ r.day = 0
  BY <1>1, <1>2, <1>3, <1>6 DEF PromptKnown
<1>9. \/ RecordUsage(p, Said(r.sent))
      \/ UNCHANGED rowVars /\ r.api = "anthropic" /\ 1 \notin Said(r.sent)
  <2>1. q.heard = Said(r.sent) /\ ~q.completed
    BY <1>1, <1>3, <1>6
  <2>2. CASE q.api = "anthropic" /\ 1 \notin q.heard
    BY <1>4, <1>6, <2>1, <2>2 DEF Finish
  <2>3. CASE ~(q.api = "anthropic" /\ 1 \notin q.heard)
    <3>1. RecordUsage(p, q.heard)
      BY <1>4, <2>1, <2>3 DEF Finish
    <3> QED BY <2>1, <3>1
  <2> QED BY <2>2, <2>3
<1>10. r.from <= r.sent
  <2>1. r.sent \in 0..(3 * AnswerLines) /\ AnswerLines \in Nat /\ r.from = r.sent
    BY <1>3, <1>6, LlmProxyAssumption DEF PromptRecords
  <2> QED BY <2>1
<1>11. r.heard = Said(r.sent) /\ r.api = prompt[p].api /\ r.pc \in {"close", "over"}
  BY <1>3, <1>6
<1> QED BY <1>1, <1>2, <1>6, <1>7, <1>8, <1>9, <1>10, <1>11, AnswerEnds

LEMMA CloseStreamInv == ASSUME LlmInv, NEW p \in Prompts, CloseStream(p) PROVE LlmInv'
<1>1. prompt[p].pc \in {"stream", "close"} /\ UNCHANGED rpdRow /\ UNCHANGED <<maxRpd, today>>
  BY DEF CloseStream, rpdRow
<1>2. prompt[p] \in PromptRecords /\ PromptKnown(p) /\ LlmTyped
  BY PromptIsTyped DEF LlmInv
<1>3. PICK q \in PromptRecords :
              /\ q = FlushRemaining(prompt[p]) /\ q.heard = Said(q.sent) /\ q.from = q.sent
              /\ q.sent = prompt[p].sent /\ q.api = prompt[p].api /\ q.pc = prompt[p].pc
              /\ q.completed = prompt[p].completed /\ q.before = prompt[p].before
              /\ q.day = prompt[p].day /\ q.metered = prompt[p].metered
  BY <1>1, FlushIs
<1>4. PromptOver(p, [q EXCEPT !.completed = TRUE]) /\ Finish(p, q)
  BY <1>3 DEF CloseStream
<1>5. PICK s : s = [q EXCEPT !.completed = TRUE]
  OBVIOUS
<1>6. s \in PromptRecords /\ s.completed /\ s.sent = q.sent /\ s.api = q.api
  BY <1>5 DEF PromptRecords
<1>7. PICK r \in PromptRecords :
        /\ prompt' = [prompt EXCEPT ![p] = r] /\ prompt'[p] = r
        /\ r.pc = "over" /\ r.api = s.api /\ r.metered = s.metered /\ r.sent = s.sent
        /\ r.completed = s.completed
        /\ r.before = {} /\ r.day = 0 /\ r.from = 0
  <2>1. PromptOver(p, s)
    BY <1>4, <1>5
  <2> QED BY <1>2, <1>6, <2>1, PromptOverIs
<1>8. r.from <= r.sent
  <2>1. r.sent \in 0..(3 * AnswerLines) /\ AnswerLines \in Nat
    BY LlmProxyAssumption DEF PromptRecords
  <2> QED BY <1>7, <2>1
<1>9. r.api = prompt[p].api /\ r.sent = prompt[p].sent /\ r.completed /\ q.heard = Said(r.sent)
  BY <1>3, <1>6, <1>7
<1>10. CASE prompt[p].pc = "stream"
  <2>1. usage[p] = NoRow /\ ~q.completed
    BY <1>2, <1>3, <1>10 DEF PromptKnown
  <2>2. \/ RecordUsage(p, Said(r.sent))
        \/ UNCHANGED rowVars /\ r.api = "anthropic" /\ 1 \notin Said(r.sent)
    <3>1. CASE q.api = "anthropic" /\ 1 \notin q.heard
      BY <1>3, <1>4, <1>9, <3>1 DEF Finish
    <3>2. CASE ~(q.api = "anthropic" /\ 1 \notin q.heard)
      <4>1. RecordUsage(p, q.heard)
        BY <1>4, <2>1, <3>2 DEF Finish
      <4> QED BY <1>9, <4>1
    <3> QED BY <3>1, <3>2
  <2>3. r.pc \in {"close", "over"} /\ r.pc # "close" /\ r.before \subseteq Recorded /\ r.day = 0
    BY <1>7
  <2> QED BY <1>1, <1>7, <1>8, <1>9, <2>1, <2>2, <2>3, AnswerEnds
<1>11. CASE prompt[p].pc = "close"
  <2>1. /\ q.completed /\ UsageTold(p)
        /\ usage[p] # NoRow => usage[p].says = Usage(prompt[p].api, Said(prompt[p].sent))
    BY <1>2, <1>3, <1>11 DEF PromptKnown
  <2>2. UNCHANGED <<usage, traces, unwritten>>
    BY <1>4, <2>1 DEF Finish, rowVars
  <2>3. UsageTold(p)'
    BY <1>7, <1>9, <2>1, <2>2 DEF UsageTold
  <2>4. usage'[p] # NoRow => usage'[p].says = Usage(r.api, Said(r.sent))
    BY <1>9, <2>1, <2>2
  <2>5. PromptKnown(p)'
    BY <1>7, <1>8, <2>3, <2>4 DEF PromptKnown
  <2>6. traces \subseteq Prompts \cup {Session} /\ unwritten \subseteq Prompts
    BY <1>2 DEF LlmTyped
  <2> QED BY <1>1, <1>7, <2>2, <2>5, <2>6, OneRequestMoves
<1> QED BY <1>1, <1>10, <1>11

-----------------------------------------------------------------------------

LEMMA RpdAndTimeInv ==
    ASSUME LlmInv,
           \/ SetWorkspaceQuota \/ DeleteWorkspaceQuota \/ NewDay \/ UNCHANGED llmVars
    PROVE  LlmInv'
<1> USE DEF LlmInv
<1>1. UNCHANGED <<prompt, usage, traces, unwritten>>
  BY DEF SetWorkspaceQuota, DeleteWorkspaceQuota, RpdChanges, NewDay, llmVars, rowVars
<1>2. today' \in Nat \ {0} /\ today <= today'
  BY DEF SetWorkspaceQuota, DeleteWorkspaceQuota, RpdChanges, NewDay, llmVars, LlmTyped
<1>3. maxRpd' \in [max : RpdLimits \cup {NoLimit}, changes : Nat]
  <2>1. ASSUME NEW max \in RpdLimits \cup {NoLimit}, RpdChanges(max)
        PROVE  maxRpd' \in [max : RpdLimits \cup {NoLimit}, changes : Nat]
    BY <2>1 DEF RpdChanges, LlmTyped
  <2>2. CASE SetWorkspaceQuota \/ DeleteWorkspaceQuota
    BY <2>1, <2>2 DEF SetWorkspaceQuota, DeleteWorkspaceQuota
  <2>3. CASE NewDay \/ UNCHANGED llmVars
    BY <2>3 DEF NewDay, llmVars, LlmTyped
  <2> QED BY <2>2, <2>3
<1>4. \A p \in Prompts : usage'[p] # NoRow => usage'[p].day \in 1..today'
  BY <1>1, <1>2 DEF LlmTyped
<1>5. LlmTyped'
  BY <1>1, <1>2, <1>3, <1>4 DEF LlmTyped
<1>6. Recorded' = Recorded
  BY <1>1 DEF Recorded
<1>7. \A p \in Prompts : PromptKnown(p)'
  BY <1>1, <1>6 DEF PromptKnown, UsageTold
<1> QED BY <1>5, <1>6, <1>7

LEMMA LlmNextInv == LlmInv /\ [LlmNext]_llmVars => LlmInv'
<1> SUFFICES ASSUME LlmInv, [LlmNext]_llmVars PROVE LlmInv'
  OBVIOUS
<1>1. ASSUME NEW p \in Prompts, NEW api \in {"anthropic", "gemini", "openai"},
             NEW metered \in BOOLEAN, NEW stream \in BOOLEAN,
             HandleProxy(p, api, metered, stream)
      PROVE  LlmInv'
  BY <1>1, HandleProxyInv
<1>2. ASSUME NEW p \in Prompts,
             HandleAnthropicProxy(p) \/ HandleGeminiProxy(p) \/ HandleOpenAIProxy(p)
      PROVE  LlmInv'
  BY <1>1, <1>2 DEF HandleAnthropicProxy, HandleGeminiProxy, HandleOpenAIProxy
<1>3. ASSUME NEW p \in Prompts,
             \/ ReadMaxRPD(p) \/ CountTodayRequests(p) \/ GetOrCreateTrace(p)
             \/ AwaitModelserverToken(p) \/ ServeWhole(p) \/ InterceptStreaming(p)
             \/ Read(p) \/ ReadEOF(p) \/ CloseStream(p)
      PROVE  LlmInv'
  BY <1>3, ReadMaxRPDInv, CountTodayRequestsInv, GetOrCreateTraceInv, AwaitModelserverTokenInv,
     ServeWholeInv, InterceptStreamingInv, ReadInv, ReadEOFInv, CloseStreamInv
<1>4. CASE \/ SetWorkspaceQuota \/ DeleteWorkspaceQuota \/ NewDay \/ UNCHANGED llmVars
  BY <1>4, RpdAndTimeInv
<1> QED BY <1>2, <1>3, <1>4 DEF LlmNext

LEMMA LlmInvSound == LlmInv => LlmTypeOK /\ LlmSound
<1> SUFFICES ASSUME LlmInv PROVE LlmTypeOK /\ LlmSound
  OBVIOUS
<1> USE DEF LlmInv
<1>1. ASSUME NEW p \in Prompts
      PROVE  /\ prompt[p].pc \in {"idle", "quota", "count", "trace", "token",
                                  "forward", "stream", "close", "over"}
             /\ prompt[p].limit \in RpdLimits \cup {0, DefaultMaxRPD}
             /\ prompt[p].sent \in 0..(3 * AnswerLines)
             /\ prompt[p].heard \subseteq 1..AnswerLines
  BY PromptIsTyped DEF PromptRecords, Lines
<1>2. \A p \in Prompts : /\ prompt[p].from <= prompt[p].sent
                         /\ usage[p] # NoRow => usage[p].day \in 1..today
  BY DEF PromptKnown, LlmTyped
<1>3. LlmTypeOK
  BY <1>1, <1>2 DEF LlmTypeOK, LlmTyped
<1>4. QuotaKept
  BY DEF QuotaKept, PromptKnown
<1>5. UsageExact
  BY DEF UsageExact, PromptKnown, UsageTold, PromptAt
<1> QED BY <1>3, <1>4, <1>5 DEF LlmSound

\* For any number of requests, lines and limits: a request that is counted and let
\* through found fewer of its day than its limit, and the usage of an answer is what its
\* whole lines said, wherever its chunks ended.
THEOREM LlmAlwaysSound == LlmSpec => [](LlmTypeOK /\ LlmSound)
<1>1. LlmSpec => []LlmInv
  BY LlmInitInv, LlmNextInv, PTL DEF LlmSpec
<1> QED BY <1>1, LlmInvSound, PTL

-----------------------------------------------------------------------------
(* Tokens of the model server *)

ForwardSteps == {"idle", "ask", "store", "forward"}
TokenRecords == [of : Nat, age : Nat, left : Nat]

\* A token is of the connection the workspace has, or of one that was replaced no
\* longer ago than the token is old.
TokenKnown(t) ==
    /\ t \in TokenRecords
    /\ t.of \in 0..msConnection
    /\ t.of = 0 \/ t.of = msConnection \/ replaced[t.of] <= t.age

\* What a request is about to store is fresh, what it forwards was when it was taken.
ForwardKnown(f) ==
    /\ TokenKnown(forward[f].token)
    /\ forward[f].token.age <= TokenTTL
    /\ forward[f].pc \in {"idle", "ask"} => forward[f].token.of = 0
    /\ forward[f].pc = "store" => forward[f].token.age = 0
    /\ forward[f].pc \in {"store", "forward"} =>
          forward[f].token.of > 0 /\ forward[f].token.left > 0

TokensInv ==
    /\ msConnection \in 0..MaxConnections
    /\ replaced \in [1..MaxConnections -> Nat]
    /\ \A c \in 1..MaxConnections : c >= msConnection => replaced[c] = 0
    /\ TokenKnown(msToken) /\ msToken.age <= TokenTTL + 1
    /\ forward \in [Forwards -> [pc : ForwardSteps, token : TokenRecords]]
    /\ \A f \in Forwards : ForwardKnown(f)

LEMMA NoTokenKnown == ASSUME TokensInv PROVE TokenKnown(NoToken) /\ NoToken.age = 0
<1>1. msConnection \in Nat
  BY ModelserverTokensAssumption DEF TokensInv
<1> QED BY <1>1 DEF TokenKnown, NoToken, TokenRecords

LEMMA TokensInitInv == TokensInit => TokensInv
<1> SUFFICES ASSUME TokensInit PROVE TokensInv
  OBVIOUS
<1>1. MaxConnections \in Nat /\ TokenTTL \in Nat
  BY ModelserverTokensAssumption
<1>2. TokenKnown(NoToken) /\ NoToken \in TokenRecords /\ NoToken.age = 0 /\ NoToken.of = 0
  BY <1>1 DEF TokensInit, TokenKnown, NoToken, TokenRecords
<1>3. NoForward.pc = "idle" /\ NoForward.token = NoToken
      /\ NoForward \in [pc : ForwardSteps, token : TokenRecords]
  BY <1>2 DEF NoForward, ForwardSteps
<1>5. forward \in [Forwards -> [pc : ForwardSteps, token : TokenRecords]]
  BY <1>3 DEF TokensInit
<1>4. ASSUME NEW f \in Forwards PROVE ForwardKnown(f)
  <2>1. forward[f].pc = "idle" /\ forward[f].token = NoToken
    BY <1>3 DEF TokensInit
  <2> QED BY <1>1, <1>2, <2>1 DEF ForwardKnown
<1> QED BY <1>1, <1>2, <1>4, <1>5 DEF TokensInit, TokensInv

\* What one request does keeps the rest, if the connections stay.
LEMMA ForwardGoesInv ==
    ASSUME TokensInv, NEW f \in Forwards, NEW pc, NEW t, ForwardGoes(f, pc, t),
           pc \in ForwardSteps, TokenKnown(t), t.age <= TokenTTL,
           pc \in {"idle", "ask"} => t.of = 0,
           pc = "store" => t.age = 0,
           pc \in {"store", "forward"} => t.of > 0 /\ t.left > 0,
           UNCHANGED <<msConnection, replaced>>,
           TokenKnown(msToken)', msToken'.age <= TokenTTL + 1
    PROVE  TokensInv'
<1>1. t \in TokenRecords
  BY DEF TokenKnown
<1>2. forward' \in [Forwards -> [pc : ForwardSteps, token : TokenRecords]]
  BY <1>1 DEF TokensInv, ForwardGoes
<1>3. forward'[f].pc = pc /\ forward'[f].token = t
  BY DEF TokensInv, ForwardGoes
<1>4. ForwardKnown(f)'
  <2>1. /\ t \in TokenRecords /\ t.of \in 0..msConnection
        /\ t.of = 0 \/ t.of = msConnection \/ replaced[t.of] <= t.age
    BY DEF TokenKnown
  <2>2. msConnection' = msConnection /\ replaced' = replaced
    OBVIOUS
  <2>3. TokenKnown(forward[f].token)'
    BY <1>3, <2>1, <2>2 DEF TokenKnown
  <2> QED BY <1>3, <2>3 DEF ForwardKnown
<1>5. ASSUME NEW g \in Forwards, g # f PROVE ForwardKnown(g)'
  BY <1>5 DEF TokensInv, ForwardGoes, ForwardKnown, TokenKnown
<1> QED BY <1>2, <1>4, <1>5 DEF TokensInv

LEMMA ReplaceConnectionInv == ASSUME TokensInv, ReplaceConnection PROVE TokensInv'
<1>1. /\ MaxConnections \in Nat /\ msConnection \in Nat
      /\ msConnection' = msConnection + 1 /\ msConnection < MaxConnections
      /\ UNCHANGED <<replaced, msToken, forward>>
  BY ModelserverTokensAssumption DEF TokensInv, ReplaceConnection
<1>2. ASSUME NEW t, TokenKnown(t) PROVE TokenKnown(t)'
  <2>1. CASE t.of = msConnection /\ t.of # 0
    <3>1. replaced[t.of] = 0 /\ t.age \in Nat
      BY <1>1, <1>2, <2>1 DEF TokensInv, TokenKnown, TokenRecords
    <3> QED BY <1>1, <1>2, <3>1 DEF TokenKnown
  <2>2. CASE ~(t.of = msConnection /\ t.of # 0)
    BY <1>1, <1>2, <2>2 DEF TokenKnown
  <2> QED BY <2>1, <2>2
<1>3. TokenKnown(msToken)'
  BY <1>1, <1>2 DEF TokensInv
<1>4. \A f \in Forwards : ForwardKnown(f)'
  BY <1>1, <1>2 DEF TokensInv, ForwardKnown
<1> QED BY <1>1, <1>3, <1>4 DEF TokensInv

LEMMA TickInv == ASSUME TokensInv, Tick PROVE TokensInv'
<1>1. /\ MaxConnections \in Nat /\ TokenTTL \in Nat /\ msConnection \in Nat
      /\ UNCHANGED <<msConnection, forward>>
      /\ msToken \in TokenRecords /\ msToken.of \in 0..msConnection
      /\ msToken.age <= TokenTTL + 1
  BY ModelserverTokensAssumption DEF TokensInv, Tick, TokenKnown
<1>2. /\ replaced' \in [1..MaxConnections -> Nat]
      /\ \A c \in 1..MaxConnections : replaced'[c] =
            IF c < msConnection THEN Least(replaced[c] + 1, TokenTTL + 1) ELSE 0
  BY <1>1 DEF Tick, TokensInv, Least
<1>3. /\ msToken' \in TokenRecords /\ msToken'.of = msToken.of
      /\ msToken'.age <= TokenTTL + 1
      /\ msToken.of # 0 => msToken'.age = Least(msToken.age + 1, TokenTTL + 1)
  <2>1. CASE msToken.of = 0
    BY <1>1, <2>1 DEF Tick, Older
  <2>2. CASE msToken.of # 0
    <3>1. msToken' = [msToken EXCEPT !.age = Least(@ + 1, TokenTTL + 1),
                                     !.left = IF @ = 0 THEN 0 ELSE @ - 1]
      BY <2>2 DEF Tick, Older
    <3>2. msToken.age \in Nat /\ msToken.left \in Nat
      BY <1>1 DEF TokenRecords
    <3>3. PICK a \in Nat : a = Least(msToken.age + 1, TokenTTL + 1)
      BY <1>1, <3>2 DEF Least
    <3>4. PICK l \in Nat : l = IF msToken.left = 0 THEN 0 ELSE msToken.left - 1
      BY <3>2
    <3>5. msToken' = [msToken EXCEPT !.age = a, !.left = l]
      BY <3>1, <3>3, <3>4
    <3>6. a <= TokenTTL + 1
      BY <1>1, <3>2, <3>3 DEF Least
    <3> QED BY <1>1, <3>3, <3>5, <3>6 DEF TokenRecords
  <2> QED BY <2>1, <2>2
<1>4. TokenKnown(msToken)'
  <2>1. ASSUME msToken.of # 0, msToken.of # msConnection
        PROVE  replaced'[msToken.of] <= msToken'.age
    <3>1. msToken.of \in 1..MaxConnections /\ msToken.of < msConnection
      BY <1>1, <2>1 DEF TokensInv
    <3>2. replaced[msToken.of] \in Nat /\ replaced[msToken.of] <= msToken.age
      BY <3>1, <2>1 DEF TokensInv, TokenKnown
    <3>3. msToken.age \in Nat
      BY <1>1 DEF TokenRecords
    <3> QED BY <1>1, <1>2, <1>3, <2>1, <3>1, <3>2, <3>3, SMTT(30) DEF Least
  <2> QED BY <1>1, <1>3, <2>1 DEF TokenKnown
<1>5. ASSUME NEW f \in Forwards PROVE ForwardKnown(f)'
  <2>1. forward[f].pc = "idle" /\ ForwardKnown(f)
    BY DEF Tick, ForwardAt, TokensInv
  <2>2. forward[f].token.of = 0
    BY <2>1 DEF ForwardKnown
  <2> QED BY <1>1, <2>1, <2>2 DEF ForwardKnown, TokenKnown
<1> QED BY <1>1, <1>2, <1>3, <1>4, <1>5 DEF TokensInv

LEMMA TokensNextInv == TokensInv /\ [TokensNext]_tokenVars => TokensInv'
<1> SUFFICES ASSUME TokensInv, [TokensNext]_tokenVars PROVE TokensInv'
  OBVIOUS
<1>0. TokenTTL \in Nat /\ TokenMargin \in Nat \ {0} /\ TokenLives \subseteq Nat \ {0}
  BY ModelserverTokensAssumption
<1>n. TokenKnown(NoToken) /\ NoToken.age = 0 /\ NoToken.of = 0
  BY NoTokenKnown DEF NoToken
<1>k. TokenKnown(msToken) /\ msToken.age <= TokenTTL + 1 /\ msToken \in TokenRecords
  BY DEF TokensInv, TokenKnown
<1>1. ASSUME NEW f \in Forwards, FetchModelserverToken(f) PROVE TokensInv'
  <2>1. UNCHANGED <<msConnection, replaced, msToken>>
    BY <1>1 DEF FetchModelserverToken
  <2>2. TokenKnown(msToken)' /\ msToken'.age <= TokenTTL + 1
    BY <1>k, <2>1 DEF TokenKnown
  <2>3. CASE Cached
    <3>1. ForwardGoes(f, "forward", msToken)
      BY <1>1, <2>3 DEF FetchModelserverToken
    <3>2. msToken.of > 0 /\ msToken.age <= TokenTTL /\ msToken.left > 0
      BY <1>0, <1>k, <2>3 DEF Cached, TokenRecords
    <3> QED BY <1>k, <2>1, <2>2, <3>1, <3>2, ForwardGoesInv DEF ForwardSteps
  <2>4. CASE ~Cached
    <3>1. ForwardGoes(f, "ask", NoToken)
      BY <1>1, <2>4 DEF FetchModelserverToken
    <3> QED BY <1>0, <1>n, <2>1, <2>2, <3>1, ForwardGoesInv DEF ForwardSteps
  <2> QED BY <2>3, <2>4
<1>2. ASSUME NEW f \in Forwards, AskModelserverToken(f) PROVE TokensInv'
  <2>1. UNCHANGED <<msConnection, replaced, msToken>>
    BY <1>2 DEF AskModelserverToken
  <2>2. TokenKnown(msToken)' /\ msToken'.age <= TokenTTL + 1
    BY <1>k, <2>1 DEF TokenKnown
  <2>3. CASE ForwardGoes(f, "idle", NoToken)
    BY <1>0, <1>n, <2>1, <2>2, <2>3, ForwardGoesInv DEF ForwardSteps
  <2>4. ASSUME NEW life \in TokenLives, msConnection > 0,
               ForwardGoes(f, "store", [of |-> msConnection, age |-> 0, left |-> life])
        PROVE  TokensInv'
    <3>1. PICK t : t = [of |-> msConnection, age |-> 0, left |-> life]
      OBVIOUS
    <3>2. msConnection \in Nat /\ life \in Nat /\ life > 0
      BY <1>0, ModelserverTokensAssumption DEF TokensInv
    <3>3. /\ t \in TokenRecords /\ t.of = msConnection /\ t.age = 0 /\ t.left = life
      BY <3>1, <3>2 DEF TokenRecords
    <3>4. TokenKnown(t)
      BY <3>2, <3>3 DEF TokenKnown
    <3>5. ForwardGoes(f, "store", t)
      BY <2>4, <3>1
    <3> HIDE <3>1
    <3> QED BY <1>0, <2>1, <2>2, <2>4, <3>2, <3>3, <3>4, <3>5, ForwardGoesInv DEF ForwardSteps
  <2> QED BY <1>2, <2>3, <2>4 DEF AskModelserverToken
<1>3. ASSUME NEW f \in Forwards, StoreModelserverToken(f) PROVE TokensInv'
  <2>1. /\ forward[f].pc = "store" /\ ForwardKnown(f)
        /\ ForwardGoes(f, "forward", forward[f].token)
        /\ msToken' = forward[f].token
        /\ UNCHANGED <<msConnection, replaced>>
    BY <1>3 DEF StoreModelserverToken, ForwardAt, TokensInv
  <2>2. /\ TokenKnown(forward[f].token) /\ forward[f].token.age = 0
        /\ forward[f].token.of > 0 /\ forward[f].token.left > 0
    BY <2>1 DEF ForwardKnown
  <2>3. TokenKnown(msToken)' /\ msToken'.age <= TokenTTL + 1
    BY <1>0, <2>1, <2>2 DEF TokenKnown
  <2> QED BY <1>0, <2>1, <2>2, <2>3, ForwardGoesInv DEF ForwardSteps
<1>4. ASSUME NEW f \in Forwards, Forwarded(f) PROVE TokensInv'
  <2>1. UNCHANGED <<msConnection, replaced, msToken>> /\ ForwardGoes(f, "idle", NoToken)
    BY <1>4 DEF Forwarded
  <2>2. TokenKnown(msToken)' /\ msToken'.age <= TokenTTL + 1
    BY <1>k, <2>1 DEF TokenKnown
  <2> QED BY <1>0, <1>n, <2>1, <2>2, ForwardGoesInv DEF ForwardSteps
<1>5. CASE UNCHANGED tokenVars
  BY <1>5 DEF tokenVars, TokensInv, TokenKnown, ForwardKnown
<1> QED BY <1>1, <1>2, <1>3, <1>4, <1>5, ReplaceConnectionInv, TickInv DEF TokensNext

\* For any number of requests, connections and lives of tokens: the cached token and
\* those on their way are of connections that are there, and none is kept for longer
\* than a cached token counts its age.
THEOREM ModelserverTokensAlwaysTyped == TokensSpec => []TokensTypeOK
<1>1. TokensInv => TokensTypeOK
  <2> SUFFICES ASSUME TokensInv PROVE TokensTypeOK
    OBVIOUS
  <2>1. msToken.age \in 0..(TokenTTL + 1)
    BY ModelserverTokensAssumption DEF TokensInv, TokenKnown, TokenRecords
  <2> QED BY <2>1 DEF TokensInv, TokensTypeOK, TokenKnown, ForwardKnown, ForwardSteps
<1> QED BY <1>1, TokensInitInv, TokensNextInv, PTL DEF TokensSpec

\* For any number of requests, connections and lives of tokens: no token is forwarded
\* that has ended, or whose connection was replaced longer ago than a cached token is
\* taken, in whatever order concurrent fetches store theirs.
THEOREM ForwardedAlwaysCurrent == TokensSpec => []ForwardedIsCurrent
<1>1. TokensInv => ForwardedIsCurrent
  <2> SUFFICES ASSUME TokensInv, NEW f \in Forwards, ForwardAt(f, "forward")
               PROVE  /\ forward[f].token.left > 0
                      /\ \/ forward[f].token.of = msConnection
                         \/ replaced[forward[f].token.of] <= TokenTTL
    BY DEF ForwardedIsCurrent
  <2>1. ForwardKnown(f) /\ forward[f].pc = "forward" /\ TokenTTL \in Nat
    BY ModelserverTokensAssumption DEF TokensInv, ForwardAt
  <2>2. /\ forward[f].token \in TokenRecords /\ forward[f].token.of # 0
        /\ forward[f].token.age <= TokenTTL /\ forward[f].token.left > 0
        /\ \/ forward[f].token.of = msConnection
           \/ replaced[forward[f].token.of] <= forward[f].token.age
    BY <2>1 DEF ForwardKnown, TokenKnown, TokenRecords
  <2>3. CASE forward[f].token.of # msConnection
    <3>1. forward[f].token.of \in 1..MaxConnections
      BY <2>1, <2>2, ModelserverTokensAssumption
         DEF ForwardKnown, TokenKnown, TokensInv, TokenRecords
    <3>2. replaced[forward[f].token.of] \in Nat
      BY <3>1 DEF TokensInv
    <3>3. forward[f].token.age \in Nat
      BY <2>2 DEF TokenRecords
    <3> QED BY <2>1, <2>2, <2>3, <3>2, <3>3
  <2> QED BY <2>2, <2>3
<1> QED BY <1>1, TokensInitInv, TokensNextInv, PTL DEF TokensSpec

-----------------------------------------------------------------------------
(* The operation log *)

ToolRecords ==
    [pc : {"none", "called", "answered"}, id : OpIds \cup {NoOp}, at : Workplaces,
     env : BOOLEAN, since : Nat, failed : BOOLEAN]
Ops == [of : ToolCalls, failed : BOOLEAN]

OpsTyped ==
    /\ tool \in [ToolCalls -> ToolRecords]
    /\ pairing \in [Workplaces -> [OpIds -> ToolCalls \cup {NoOp}]]
    /\ opQueue \in Seq(Ops) /\ Len(opQueue) <= LogCapacity
    /\ posting = {} \/ \E op \in Ops : posting = {op}
    /\ draining \in BOOLEAN
    /\ operations \subseteq Ops /\ pruned \subseteq [op : Ops, at : Nat]
    /\ unlogged \subseteq ToolCalls /\ mistaken \subseteq ToolCalls
    /\ page.rows \subseteq Ops
    /\ ticks \in 0..MaxTicks

\* An id is of at most one call that waits, and is paired with it until it gets its
\* answer or a request of the server is taken for it.
PairInv ==
    /\ \A w \in Workplaces, n \in OpIds : pairing[w][n] # NoOp =>
          /\ tool[pairing[w][n]].pc = "called" /\ pairing[w][n] \notin mistaken
          /\ tool[pairing[w][n]].at = w /\ tool[pairing[w][n]].id = n
    /\ \A t \in ToolCalls : tool[t].pc = "called" =>
          /\ tool[t].id \in OpIds
          /\ t \notin mistaken => pairing[tool[t].at][tool[t].id] = t
    /\ \A t, u \in ToolCalls :
          /\ tool[t].pc = "called" /\ tool[u].pc = "called"
          /\ tool[t].at = tool[u].at /\ tool[t].id = tool[u].id
          => t = u

PairedCalls == {t \in ToolCalls : tool[t].pc = "answered"} \cup mistaken
Logged == Queued \cup posting \cup Rowed
KeptCalls == {op.of : op \in Logged} \cup unlogged

\* A call is logged at most once, wherever its operation has come to.
LogInv ==
    /\ \A t \in mistaken : tool[t].pc # "none"
    /\ KeptCalls \subseteq PairedCalls
    /\ IsFiniteSet(PairedCalls \ KeptCalls)
    /\ dropped = Cardinality(PairedCalls \ KeptCalls)
    /\ LoggedIsTrue
    /\ \A op, other \in Logged : op.of = other.of => op = other
    /\ IsFiniteSet(Rowed)

OpsInv == OpsTyped /\ PairInv /\ LogInv /\ ShownAndKept

LEMMA QueueAppended ==
    ASSUME NEW S, NEW q \in Seq(S), NEW e \in S
    PROVE  /\ Append(q, e) \in Seq(S) /\ Len(Append(q, e)) = Len(q) + 1
           /\ {Append(q, e)[i] : i \in DOMAIN Append(q, e)} =
                {q[i] : i \in DOMAIN q} \cup {e}
<1>1. /\ Append(q, e) \in Seq(S) /\ Len(Append(q, e)) = Len(q) + 1 /\ Len(q) \in Nat
      /\ DOMAIN q = 1..Len(q) /\ DOMAIN Append(q, e) = 1..(Len(q) + 1)
      /\ \A i \in 1..Len(q) : Append(q, e)[i] = q[i]
      /\ Append(q, e)[Len(q) + 1] = e
  OBVIOUS
<1>2. ASSUME NEW x \in {Append(q, e)[i] : i \in DOMAIN Append(q, e)}
      PROVE  x \in {q[i] : i \in DOMAIN q} \cup {e}
  <2>1. PICK i \in 1..(Len(q) + 1) : x = Append(q, e)[i]
    BY <1>1, <1>2
  <2>2. i \in 1..Len(q) \/ i = Len(q) + 1
    BY <1>1
  <2> QED BY <1>1, <2>1, <2>2
<1>3. ASSUME NEW x \in {q[i] : i \in DOMAIN q} \cup {e}
      PROVE  x \in {Append(q, e)[i] : i \in DOMAIN Append(q, e)}
  <2>1. CASE x = e
    <3>1. Len(q) + 1 \in DOMAIN Append(q, e)
      BY <1>1
    <3> QED BY <1>1, <2>1, <3>1
  <2>2. CASE x \in {q[i] : i \in DOMAIN q}
    <3>1. PICK i \in 1..Len(q) : x = q[i]
      BY <1>1, <2>2
    <3>2. i \in DOMAIN Append(q, e) /\ x = Append(q, e)[i]
      BY <1>1, <3>1
    <3> QED BY <3>2
  <2> QED BY <1>3, <2>1, <2>2
<1> QED BY <1>1, <1>2, <1>3

LEMMA QueueTaken ==
    ASSUME NEW S, NEW q \in Seq(S), q # <<>>
    PROVE  /\ Head(q) \in S /\ Tail(q) \in Seq(S) /\ Len(Tail(q)) = Len(q) - 1
           /\ {q[i] : i \in DOMAIN q} =
                {Tail(q)[i] : i \in DOMAIN Tail(q)} \cup {Head(q)}
<1>1. /\ Head(q) = q[1] /\ q[1] \in S /\ Tail(q) \in Seq(S) /\ Len(q) \in Nat \ {0}
      /\ Len(Tail(q)) = Len(q) - 1
      /\ DOMAIN q = 1..Len(q) /\ DOMAIN Tail(q) = 1..(Len(q) - 1)
      /\ \A i \in 1..(Len(q) - 1) : Tail(q)[i] = q[i + 1]
  OBVIOUS
<1>2. ASSUME NEW x \in {q[i] : i \in DOMAIN q}
      PROVE  x \in {Tail(q)[i] : i \in DOMAIN Tail(q)} \cup {Head(q)}
  <2>1. PICK i \in 1..Len(q) : x = q[i]
    BY <1>1, <1>2
  <2>2. CASE i = 1
    BY <1>1, <2>1, <2>2
  <2>3. CASE i # 1
    <3>1. i - 1 \in 1..(Len(q) - 1) /\ (i - 1) + 1 = i
      BY <1>1, <2>1, <2>3
    <3>2. i - 1 \in DOMAIN Tail(q) /\ x = Tail(q)[i - 1]
      BY <1>1, <2>1, <3>1
    <3> QED BY <3>2
  <2> QED BY <2>2, <2>3
<1>3. ASSUME NEW x \in {Tail(q)[i] : i \in DOMAIN Tail(q)} \cup {Head(q)}
      PROVE  x \in {q[i] : i \in DOMAIN q}
  <2>1. CASE x = Head(q)
    <3>1. 1 \in DOMAIN q
      BY <1>1
    <3> QED BY <1>1, <2>1, <3>1
  <2>2. CASE x \in {Tail(q)[i] : i \in DOMAIN Tail(q)}
    <3>1. PICK i \in 1..(Len(q) - 1) : x = Tail(q)[i]
      BY <1>1, <2>2
    <3>2. i + 1 \in DOMAIN q /\ x = q[i + 1]
      BY <1>1, <3>1
    <3> QED BY <3>2
  <2> QED BY <1>3, <2>1, <2>2
<1> QED BY <1>1, <1>2, <1>3

LEMMA LoggedAreOps ==
    ASSUME OpsTyped
    PROVE  /\ Queued \subseteq Ops /\ Logged \subseteq Ops /\ Rowed \subseteq Ops
           /\ \A op \in Ops : op.of \in ToolCalls
<1>1. Queued \subseteq Ops
  BY DEF OpsTyped, Queued
<1>2. Rowed \subseteq Ops /\ posting \subseteq Ops
  BY DEF OpsTyped, Rowed
<1> QED BY <1>1, <1>2 DEF Logged, Ops

LEMMA OpsInitInv == OpsInit => OpsInv
<1> SUFFICES ASSUME OpsInit PROVE OpsInv
  OBVIOUS
<1>1. tool \in [ToolCalls -> ToolRecords] /\ \A t \in ToolCalls : tool[t].pc = "none"
  <2>1. \A w \in Workplaces : NoTool(w) \in ToolRecords /\ NoTool(w).pc = "none"
    BY DEF NoTool, ToolRecords
  <2>2. tool \in [ToolCalls -> {NoTool(w) : w \in Workplaces}]
    BY DEF OpsInit
  <2>3. \A t \in ToolCalls : tool[t] \in ToolRecords /\ tool[t].pc = "none"
    BY <2>1, <2>2
  <2> QED BY <2>2, <2>3
<1>2. /\ pairing \in [Workplaces -> [OpIds -> ToolCalls \cup {NoOp}]]
      /\ \A w \in Workplaces, n \in OpIds : pairing[w][n] = NoOp
  BY DEF OpsInit
<1>3. /\ opQueue \in Seq(Ops) /\ Len(opQueue) = 0 /\ posting = {} /\ draining \in BOOLEAN
      /\ dropped = 0 /\ operations = {} /\ pruned = {} /\ unlogged = {} /\ mistaken = {}
      /\ page.rows = {} /\ ticks = 0
  BY DEF OpsInit
<1>4. OpsTyped
  BY <1>1, <1>2, <1>3, OperationLogAssumption DEF OpsTyped
<1>5. PairInv
  BY <1>1, <1>2 DEF PairInv
<1>6. Queued = {} /\ Rowed = {}
  BY <1>3 DEF Queued, Rowed
<1>7. Logged = {} /\ KeptCalls = {} /\ PairedCalls = {}
  BY <1>1, <1>3, <1>6 DEF Logged, KeptCalls, PairedCalls
<1>8. IsFiniteSet({}) /\ Cardinality({}) = 0
  BY FS_EmptySet
<1>9. LoggedIsTrue
  BY <1>3, <1>6 DEF LoggedIsTrue
<1>10. PairedCalls \ KeptCalls = {}
  BY <1>7
<1>11. LogInv
  BY <1>3, <1>6, <1>7, <1>8, <1>9, <1>10 DEF LogInv
<1> QED BY <1>3, <1>4, <1>5, <1>11 DEF OpsInv, ShownAndKept

\* What becomes of the log when a call that was not in it is paired with an answer.
LEMMA SubmittedIsLogged ==
    ASSUME OpsTyped, LogInv, NEW t \in ToolCalls, NEW failed \in BOOLEAN,
           t \notin PairedCalls, Submit([of |-> t, failed |-> failed]),
           UNCHANGED <<posting, operations, pruned, unlogged>>,
           PairedCalls' = PairedCalls \cup {t}
    PROVE  /\ opQueue' \in Seq(Ops) /\ Len(opQueue') <= LogCapacity
           /\ Logged' \subseteq Logged \cup {[of |-> t, failed |-> failed]}
           /\ \A op, other \in Logged' : op.of = other.of => op = other
           /\ KeptCalls' \subseteq PairedCalls'
           /\ IsFiniteSet((PairedCalls \ KeptCalls)')
           /\ dropped' = Cardinality((PairedCalls \ KeptCalls)')
           /\ Rowed' = Rowed
<1> DEFINE op == [of |-> t, failed |-> failed]
<1>1. op \in Ops /\ op.of = t
  BY DEF Ops
<1>2. Logged \subseteq Ops /\ Rowed' = Rowed
  BY LoggedAreOps DEF Rowed
<1>3. t \notin KeptCalls
  BY DEF LogInv
<1>4. \A o \in Logged : o.of # t
  BY <1>3 DEF KeptCalls
<1>11. op \in Ops /\ opQueue \in Seq(Ops)
  BY <1>1 DEF OpsTyped
<1>5. opQueue \in Seq(Ops) /\ Len(opQueue) <= LogCapacity /\ Len(opQueue) \in Nat
      /\ LogCapacity \in Nat
  BY OperationLogAssumption DEF OpsTyped
<1>6. CASE Len(opQueue) < LogCapacity
  <2>1. opQueue' = Append(opQueue, op) /\ dropped' = dropped
    BY <1>6 DEF Submit
  <2>2. /\ Append(opQueue, op) \in Seq(Ops) /\ Len(Append(opQueue, op)) = Len(opQueue) + 1
        /\ {Append(opQueue, op)[i] : i \in DOMAIN Append(opQueue, op)} =
                {opQueue[i] : i \in DOMAIN opQueue} \cup {op}
    <3> HIDE DEF op
    <3> QED BY <1>11, QueueAppended
  <2>3. Queued' = Queued \cup {op}
    BY <2>1, <2>2 DEF Queued
  <2>4. Logged' = Logged \cup {op}
    BY <1>2, <2>3 DEF Logged
  <2>5. KeptCalls' = KeptCalls \cup {t}
    BY <1>1, <2>4 DEF KeptCalls
  <2>6. (PairedCalls \ KeptCalls)' = PairedCalls \ KeptCalls
    BY <2>5
  <2>7. opQueue' \in Seq(Ops) /\ Len(opQueue') <= LogCapacity
    BY <1>5, <1>6, <2>1, <2>2
  <2>8. \A o, other \in Logged' : o.of = other.of => o = other
    BY <1>1, <1>4, <2>4 DEF LogInv
  <2>9. KeptCalls' \subseteq PairedCalls'
    BY <2>5 DEF LogInv
  <2>10. /\ IsFiniteSet((PairedCalls \ KeptCalls)')
         /\ dropped' = Cardinality((PairedCalls \ KeptCalls)')
    BY <2>1, <2>6 DEF LogInv
  <2> QED BY <1>2, <2>4, <2>7, <2>8, <2>9, <2>10
<1>7. CASE ~(Len(opQueue) < LogCapacity)
  <2>1. opQueue' = opQueue /\ dropped' = dropped + 1
    BY <1>7 DEF Submit
  <2>2. Queued' = Queued
    BY <2>1 DEF Queued
  <2>3. Logged' = Logged
    BY <1>2, <2>2 DEF Logged
  <2>4. KeptCalls' = KeptCalls
    BY <2>3 DEF KeptCalls
  <2>5. (PairedCalls \ KeptCalls)' = (PairedCalls \ KeptCalls) \cup {t}
    BY <1>3, <2>4
  <2>6. t \notin PairedCalls \ KeptCalls /\ IsFiniteSet(PairedCalls \ KeptCalls)
    BY DEF LogInv
  <2>7. /\ IsFiniteSet((PairedCalls \ KeptCalls) \cup {t})
        /\ Cardinality((PairedCalls \ KeptCalls) \cup {t}) =
             Cardinality(PairedCalls \ KeptCalls) + 1
    BY <2>6, FS_AddElement
  <2>8. dropped = Cardinality(PairedCalls \ KeptCalls)
    BY DEF LogInv
  <2>9. \A o, other \in Logged' : o.of = other.of => o = other
    BY <2>3 DEF LogInv
  <2>10. KeptCalls' \subseteq PairedCalls'
    BY <2>4 DEF LogInv
  <2> QED BY <1>2, <1>5, <2>1, <2>3, <2>5, <2>7, <2>8, <2>9, <2>10
<1> QED BY <1>6, <1>7

\* What the client and agentserver do to operations that are logged only moves them.
LEMMA MovedIsLogged ==
    ASSUME OpsTyped, LogInv, UNCHANGED <<tool, mistaken, dropped>>,
           Logged' \subseteq Logged, KeptCalls' = KeptCalls,
           Rowed' \subseteq Rowed \cup posting
    PROVE  LogInv'
<1>1. PairedCalls' = PairedCalls
  BY DEF PairedCalls
<1>2. (PairedCalls \ KeptCalls)' = PairedCalls \ KeptCalls
  BY <1>1
<1>3. /\ KeptCalls' \subseteq PairedCalls' /\ IsFiniteSet((PairedCalls \ KeptCalls)')
      /\ dropped' = Cardinality((PairedCalls \ KeptCalls)')
      /\ \A t \in mistaken' : tool'[t].pc # "none"
      /\ \A op, other \in Logged' : op.of = other.of => op = other
  BY <1>1, <1>2 DEF LogInv
<1>4. \A op \in Logged : op.of \in mistaken \/
        (tool[op.of].pc = "answered" /\ op.failed = tool[op.of].failed)
  BY DEF LogInv, LoggedIsTrue, Logged
<1>5. LoggedIsTrue'
  <2>1. \A op \in Logged' : op.of \in mistaken' \/
          (tool'[op.of].pc = "answered" /\ op.failed = tool'[op.of].failed)
    BY <1>4
  <2> QED BY <2>1 DEF LoggedIsTrue, Logged
<1>6. IsFiniteSet(posting) /\ IsFiniteSet(Rowed)
  <2>1. IsFiniteSet(posting)
    <3>1. CASE posting = {}
      BY <3>1, FS_EmptySet
    <3>2. ASSUME NEW op, posting = {op} PROVE IsFiniteSet(posting)
      BY <3>2, FS_Singleton
    <3> QED BY <3>1, <3>2 DEF OpsTyped
  <2> QED BY <2>1 DEF LogInv
<1>7. IsFiniteSet(Rowed \cup posting)
  BY <1>6, FS_Union
<1>8. IsFiniteSet(Rowed')
  BY <1>7, FS_Subset
<1> QED BY <1>3, <1>5, <1>8 DEF LogInv

LEMMA OnClientFrameInv ==
    ASSUME OpsInv, NEW t \in ToolCalls, NEW n \in OpIds, NEW env \in BOOLEAN,
           OnClientFrame(t, n, env)
    PROVE  OpsInv'
<1> USE DEF OpsInv
<1>1. PICK w \in Workplaces : w = tool[t].at
  BY DEF OpsTyped, ToolRecords
<1>2. PICK q \in ToolRecords : /\ q.pc = "called" /\ q.id = n /\ q.at = w
                               /\ tool' = [tool EXCEPT ![t] = q]
  <2>1. tool[t] \in ToolRecords /\ ticks \in Nat
    BY DEF OpsTyped
  <2>2. [tool[t] EXCEPT !.pc = "called", !.id = n, !.env = env, !.since = ticks]
          \in ToolRecords
    BY <2>1 DEF ToolRecords
  <2>3. [tool[t] EXCEPT !.pc = "called", !.id = n, !.env = env, !.since = ticks].at = w
    BY <1>1, <2>1 DEF ToolRecords
  <2>4. /\ [tool[t] EXCEPT !.pc = "called", !.id = n, !.env = env, !.since = ticks].pc = "called"
        /\ [tool[t] EXCEPT !.pc = "called", !.id = n, !.env = env, !.since = ticks].id = n
    BY <2>1 DEF ToolRecords
  <2>5. tool' = [tool EXCEPT ![t] =
           [tool[t] EXCEPT !.pc = "called", !.id = n, !.env = env, !.since = ticks]]
    BY DEF OnClientFrame, OpsTyped
  <2> QED BY <2>2, <2>3, <2>4, <2>5
<1>3. /\ tool[t].pc = "none" /\ FreeId(w, n) /\ pairing' = [pairing EXCEPT ![w][n] = t]
      /\ UNCHANGED <<clientVars, tableVars, unlogged, mistaken, ticks>>
  BY <1>1 DEF OnClientFrame
<1>4. /\ UNCHANGED <<opQueue, posting, draining, dropped, operations, pruned, page>>
      /\ UNCHANGED <<unlogged, mistaken, ticks>>
  BY <1>3 DEF clientVars, tableVars
<1>5. /\ tool' \in [ToolCalls -> ToolRecords] /\ tool'[t] = q
      /\ \A u \in ToolCalls : u # t => tool'[u] = tool[u]
      /\ \A u \in ToolCalls : tool'[u].at = tool[u].at
  BY <1>1, <1>2 DEF OpsTyped
<1>6. /\ pairing' \in [Workplaces -> [OpIds -> ToolCalls \cup {NoOp}]]
      /\ pairing'[w][n] = t
      /\ \A v \in Workplaces, m \in OpIds : ~(v = w /\ m = n) => pairing'[v][m] = pairing[v][m]
  BY <1>3 DEF OpsTyped
<1>7. t \notin mistaken /\ t \notin PairedCalls
  BY <1>3 DEF LogInv, PairedCalls
<1>8. PairedCalls' = PairedCalls
  BY <1>2, <1>3, <1>4, <1>5 DEF PairedCalls
<1>9. Queued' = Queued /\ Rowed' = Rowed
  BY <1>4 DEF Queued, Rowed
<1>10. Logged' = Logged
  BY <1>4, <1>9 DEF Logged
<1>11. KeptCalls' = KeptCalls
  BY <1>4, <1>10 DEF KeptCalls
<1>12. \A op \in Logged : op.of \in ToolCalls /\ op.of # t
  <2>1. \A op \in Logged : op.of \in KeptCalls
    BY DEF KeptCalls
  <2> QED BY <1>7, <2>1, LoggedAreOps DEF LogInv
<1>13. OpsTyped'
  BY <1>4, <1>5, <1>6 DEF OpsTyped
<1>14. PairInv'
  <2>1. ASSUME NEW v \in Workplaces, NEW m \in OpIds, pairing'[v][m] # NoOp
        PROVE  /\ tool'[pairing'[v][m]].pc = "called" /\ pairing'[v][m] \notin mistaken'
               /\ tool'[pairing'[v][m]].at = v /\ tool'[pairing'[v][m]].id = m
    <3>1. CASE v = w /\ m = n
      BY <1>2, <1>4, <1>5, <1>6, <1>7, <3>1
    <3>2. CASE ~(v = w /\ m = n)
      <4>1. PICK u \in ToolCalls : u = pairing[v][m]
        BY <1>6, <2>1, <3>2 DEF OpsTyped
      <4>2. tool[u].pc = "called" /\ u \notin mistaken /\ tool[u].at = v /\ tool[u].id = m
        BY <1>6, <2>1, <3>2, <4>1 DEF PairInv
      <4>3. u # t
        BY <1>3, <4>2
      <4> QED BY <1>4, <1>5, <1>6, <3>2, <4>1, <4>2, <4>3
    <3> QED BY <3>1, <3>2
  <2>2. ASSUME NEW u \in ToolCalls, tool'[u].pc = "called"
        PROVE  /\ tool'[u].id \in OpIds
               /\ u \notin mistaken' => pairing'[tool'[u].at][tool'[u].id] = u
    <3>1. CASE u = t
      BY <1>2, <1>5, <1>6, <3>1
    <3>2. CASE u # t
      <4>1. tool'[u] = tool[u] /\ tool[u].pc = "called"
        BY <1>5, <2>2, <3>2
      <4>2. tool[u].id \in OpIds /\ tool[u].at \in Workplaces
        BY <4>1 DEF PairInv, OpsTyped, ToolRecords
      <4>3. ~(tool[u].at = w /\ tool[u].id = n)
        BY <1>3, <4>1 DEF FreeId
      <4>4. u \notin mistaken => pairing[tool[u].at][tool[u].id] = u
        BY <4>1 DEF PairInv
      <4> QED BY <1>4, <1>6, <4>1, <4>2, <4>3, <4>4
    <3> QED BY <3>1, <3>2
  <2>3. ASSUME NEW x \in ToolCalls, NEW u \in ToolCalls,
               tool'[x].pc = "called" /\ tool'[u].pc = "called",
               tool'[x].at = tool'[u].at /\ tool'[x].id = tool'[u].id
        PROVE  x = u
    BY <1>2, <1>3, <1>5, <2>3 DEF FreeId, PairInv
  <2> QED BY <2>1, <2>2, <2>3 DEF PairInv
<1>15. LogInv'
  <2>1. \A u \in mistaken' : tool'[u].pc # "none"
    BY <1>4, <1>5, <1>7 DEF LogInv, OpsTyped
  <2>2. \A op \in Logged' : op.of \in mistaken' \/
          (tool'[op.of].pc = "answered" /\ op.failed = tool'[op.of].failed)
    BY <1>4, <1>5, <1>10, <1>12 DEF LogInv, LoggedIsTrue, Logged
  <2>3. LoggedIsTrue'
    BY <2>2 DEF LoggedIsTrue, Logged
  <2>4. (PairedCalls \ KeptCalls)' = PairedCalls \ KeptCalls
    BY <1>8, <1>11
  <2> QED BY <1>4, <1>8, <1>9, <1>10, <1>11, <2>1, <2>3, <2>4 DEF LogInv
<1>16. ShownAndKept'
  <2>1. \A r \in pruned : r.op \in Logged
    BY DEF Logged, Rowed
  <2>2. \A r \in pruned : tool'[r.op.of].since = tool[r.op.of].since
    BY <1>5, <1>12, <2>1
  <2>3. \A op \in page.rows : op.of \in ToolCalls
    BY DEF OpsTyped, Ops
  <2> QED BY <1>4, <1>5, <2>2, <2>3 DEF ShownAndKept
<1> QED BY <1>13, <1>14, <1>15, <1>16

\* The two ways a pair leaves the interceptor: it is gone, or it was none.
LEMMA UnpairedIsSound ==
    ASSUME OpsTyped, PairInv, NEW t \in ToolCalls, tool[t].pc = "called", t \notin mistaken,
           tool' \in [ToolCalls -> ToolRecords], mistaken' \subseteq ToolCalls,
           \A u \in ToolCalls : u # t => tool'[u] = tool[u],
           tool'[t].pc # "called" \/ (t \in mistaken' /\ tool'[t] = tool[t]),
           mistaken \subseteq mistaken' /\ mistaken' \subseteq mistaken \cup {t},
           pairing' = [pairing EXCEPT ![tool[t].at][tool[t].id] = NoOp]
    PROVE  PairInv' /\ pairing' \in [Workplaces -> [OpIds -> ToolCalls \cup {NoOp}]]
<1>1. PICK w \in Workplaces : w = tool[t].at
  BY DEF OpsTyped, ToolRecords
<1>2. PICK n \in OpIds : n = tool[t].id
  BY DEF PairInv
<1>3. /\ pairing' \in [Workplaces -> [OpIds -> ToolCalls \cup {NoOp}]]
      /\ pairing'[w][n] = NoOp
      /\ \A v \in Workplaces, m \in OpIds : ~(v = w /\ m = n) => pairing'[v][m] = pairing[v][m]
  BY <1>1, <1>2 DEF OpsTyped
<1>4. ASSUME NEW v \in Workplaces, NEW m \in OpIds, pairing'[v][m] # NoOp
      PROVE  /\ tool'[pairing'[v][m]].pc = "called" /\ pairing'[v][m] \notin mistaken'
             /\ tool'[pairing'[v][m]].at = v /\ tool'[pairing'[v][m]].id = m
  <2>1. ~(v = w /\ m = n) /\ pairing'[v][m] = pairing[v][m]
    BY <1>3, <1>4
  <2>2. PICK u \in ToolCalls : u = pairing[v][m]
    BY <1>4, <2>1 DEF OpsTyped
  <2>3. tool[u].pc = "called" /\ u \notin mistaken /\ tool[u].at = v /\ tool[u].id = m
    BY <1>4, <2>1, <2>2 DEF PairInv
  <2>4. u # t
    BY <1>1, <1>2, <2>1, <2>3
  <2> QED BY <2>1, <2>2, <2>3, <2>4
<1>5. ASSUME NEW u \in ToolCalls, tool'[u].pc = "called"
      PROVE  /\ tool'[u].id \in OpIds
             /\ u \notin mistaken' => pairing'[tool'[u].at][tool'[u].id] = u
  <2>1. tool'[u] = tool[u] /\ tool[u].pc = "called"
    BY <1>5
  <2>2. tool[u].id \in OpIds /\ tool[u].at \in Workplaces
    BY <2>1 DEF PairInv, OpsTyped, ToolRecords
  <2>3. ASSUME u \notin mistaken'
        PROVE  pairing'[tool[u].at][tool[u].id] = u
    <3>1. u # t /\ u \notin mistaken
      BY <1>5, <2>3
    <3>2. ~(tool[u].at = w /\ tool[u].id = n)
      BY <1>1, <1>2, <2>1, <3>1 DEF PairInv
    <3>3. pairing[tool[u].at][tool[u].id] = u
      BY <2>1, <3>1 DEF PairInv
    <3> QED BY <1>3, <2>2, <3>2, <3>3
  <2> QED BY <2>1, <2>2, <2>3
<1>6. ASSUME NEW x \in ToolCalls, NEW u \in ToolCalls,
             tool'[x].pc = "called" /\ tool'[u].pc = "called",
             tool'[x].at = tool'[u].at /\ tool'[x].id = tool'[u].id
      PROVE  x = u
  <2>1. tool'[x] = tool[x] /\ tool'[u] = tool[u]
    BY <1>6
  <2> QED BY <1>6, <2>1 DEF PairInv
<1> QED BY <1>3, <1>4, <1>5, <1>6, SMTT(30) DEF PairInv

LEMMA OnServerFrameInv ==
    ASSUME OpsInv, NEW t \in ToolCalls, NEW failed \in BOOLEAN, OnServerFrame(t, failed)
    PROVE  OpsInv'
<1> USE DEF OpsInv
<1>1. /\ tool[t].pc = "called" /\ Paired(tool[t].at, tool[t].id, failed)
      /\ UNCHANGED <<posting, draining, tableVars, unlogged, mistaken, ticks>>
  BY DEF OnServerFrame
<1>2. UNCHANGED <<posting, draining, operations, pruned, page, unlogged, mistaken, ticks>>
  BY <1>1 DEF tableVars
<1>3. /\ tool' \in [ToolCalls -> ToolRecords]
      /\ \A u \in ToolCalls : u # t => tool'[u] = tool[u]
      /\ \A u \in ToolCalls : tool'[u].at = tool[u].at /\ tool'[u].since = tool[u].since
      /\ tool'[t].pc = "answered" /\ tool'[t].failed = failed
  BY DEF OnServerFrame, OpsTyped, ToolRecords
<1>4. PICK w \in Workplaces : w = tool[t].at
  BY DEF OpsTyped, ToolRecords
<1>5. PICK n \in OpIds : n = tool[t].id
  BY <1>1 DEF PairInv
<1>6. PairedCalls' = PairedCalls \cup {t}
  BY <1>2, <1>3 DEF PairedCalls
<1>7. \A op \in Logged : op.of \in ToolCalls /\ op.of \in PairedCalls
  <2>1. \A op \in Logged : op.of \in KeptCalls
    BY DEF KeptCalls
  <2> QED BY <2>1, LoggedAreOps DEF LogInv
<1>8. \A u \in mistaken' : tool'[u].pc # "none"
  BY <1>2, <1>3 DEF LogInv, OpsTyped
<1>9. ASSUME NEW op \in Logged
      PROVE  op.of \in mistaken' \/
               (tool'[op.of].pc = "answered" /\ op.failed = tool'[op.of].failed)
  <2>1. op.of \in mistaken \/
          (tool[op.of].pc = "answered" /\ op.failed = tool[op.of].failed)
    BY DEF LogInv, LoggedIsTrue, Logged
  <2> QED BY <1>1, <1>2, <1>3, <1>7, <2>1
<1>10. CASE pairing[w][n] = NoOp
  <2>1. UNCHANGED <<pairing, opQueue, dropped>>
    BY <1>1, <1>4, <1>5, <1>10 DEF Paired
  <2>2. t \in mistaken
    BY <1>1, <1>4, <1>5, <1>10, OperationLogAssumption DEF PairInv
  <2>3. PairedCalls' = PairedCalls
    BY <1>6, <2>2 DEF PairedCalls
  <2>4. Queued' = Queued /\ Rowed' = Rowed
    BY <1>2, <2>1 DEF Queued, Rowed
  <2>5. Logged' = Logged
    BY <1>2, <2>4 DEF Logged
  <2>6. KeptCalls' = KeptCalls
    BY <1>2, <2>5 DEF KeptCalls
  <2>7. OpsTyped'
    BY <1>2, <1>3, <2>1 DEF OpsTyped
  <2>8. PairInv'
    <3>1. \A v \in Workplaces, m \in OpIds : pairing[v][m] # NoOp =>
            pairing[v][m] \in ToolCalls /\ pairing[v][m] # t
      BY <2>2 DEF PairInv, OpsTyped
    <3>2. \A u \in ToolCalls : tool'[u].pc = "called" => tool'[u] = tool[u]
      BY <1>3
    <3>3. \A v \in Workplaces, m \in OpIds : pairing'[v][m] # NoOp =>
            /\ tool'[pairing'[v][m]].pc = "called" /\ pairing'[v][m] \notin mistaken'
            /\ tool'[pairing'[v][m]].at = v /\ tool'[pairing'[v][m]].id = m
      BY <1>2, <1>3, <2>1, <3>1 DEF PairInv
    <3> QED BY <1>2, <2>1, <3>2, <3>3 DEF PairInv
  <2>9. LoggedIsTrue'
    <3>1. \A op \in Logged' : op.of \in mistaken' \/
            (tool'[op.of].pc = "answered" /\ op.failed = tool'[op.of].failed)
      BY <1>9, <2>5
    <3> QED BY <3>1 DEF LoggedIsTrue, Logged
  <2>10. (PairedCalls \ KeptCalls)' = PairedCalls \ KeptCalls
    BY <2>3, <2>6
  <2>11. LogInv'
    BY <1>8, <2>1, <2>3, <2>4, <2>5, <2>6, <2>9, <2>10 DEF LogInv
  <2>12. ShownAndKept'
    <3>1. \A op \in page.rows : op.of \in ToolCalls
      BY DEF OpsTyped, Ops
    <3>2. \A r \in pruned : r.op.of \in ToolCalls
      BY DEF OpsTyped, Ops
    <3> QED BY <1>2, <1>3, <3>1, <3>2 DEF ShownAndKept
  <2> QED BY <2>7, <2>8, <2>11, <2>12
<1>11. CASE pairing[w][n] # NoOp
  <2>1. pairing[w][n] = t /\ t \notin mistaken
    <3>1. PICK u \in ToolCalls : u = pairing[w][n]
      BY <1>11 DEF OpsTyped
    <3>2. tool[u].pc = "called" /\ u \notin mistaken /\ tool[u].at = w /\ tool[u].id = n
      BY <1>11, <3>1 DEF PairInv
    <3> QED BY <1>1, <1>4, <1>5, <3>1, <3>2 DEF PairInv
  <2>2. /\ pairing' = [pairing EXCEPT ![tool[t].at][tool[t].id] = NoOp]
        /\ Submit([of |-> t, failed |-> failed])
    BY <1>1, <1>4, <1>5, <1>11, <2>1 DEF Paired
  <2>3. t \notin PairedCalls
    BY <1>1, <2>1 DEF PairedCalls
  <2>4. PairInv' /\ pairing' \in [Workplaces -> [OpIds -> ToolCalls \cup {NoOp}]]
    <3>1. /\ mistaken' \subseteq ToolCalls /\ mistaken \subseteq mistaken'
          /\ mistaken' \subseteq mistaken \cup {t} /\ tool'[t].pc # "called"
      BY <1>2, <1>3 DEF OpsTyped
    <3> QED BY <1>1, <1>3, <2>1, <2>2, <3>1, UnpairedIsSound
  <2>5. /\ opQueue' \in Seq(Ops) /\ Len(opQueue') <= LogCapacity
        /\ Logged' \subseteq Logged \cup {[of |-> t, failed |-> failed]}
        /\ \A op, other \in Logged' : op.of = other.of => op = other
        /\ KeptCalls' \subseteq PairedCalls'
        /\ IsFiniteSet((PairedCalls \ KeptCalls)')
        /\ dropped' = Cardinality((PairedCalls \ KeptCalls)')
        /\ Rowed' = Rowed
    BY <1>2, <1>6, <2>2, <2>3, SubmittedIsLogged
  <2>6. OpsTyped'
    BY <1>2, <1>3, <2>4, <2>5 DEF OpsTyped
  <2>7. LoggedIsTrue'
    <3>1. \A op \in Logged' : op.of \in mistaken' \/
            (tool'[op.of].pc = "answered" /\ op.failed = tool'[op.of].failed)
      BY <1>3, <1>9, <2>5
    <3> QED BY <3>1 DEF LoggedIsTrue, Logged
  <2>8. IsFiniteSet(Rowed')
    BY <2>5 DEF LogInv
  <2>9. LogInv'
    BY <1>8, <2>5, <2>7, <2>8 DEF LogInv
  <2>10. ShownAndKept'
    <3>1. \A op \in page.rows : op.of \in ToolCalls
      BY DEF OpsTyped, Ops
    <3>2. \A r \in pruned : r.op.of \in ToolCalls
      BY DEF OpsTyped, Ops
    <3> QED BY <1>2, <1>3, <3>1, <3>2 DEF ShownAndKept
  <2> QED BY <2>4, <2>6, <2>9, <2>10
<1> QED BY <1>10, <1>11

LEMMA ServerRequestsInv ==
    ASSUME OpsInv, NEW w \in Workplaces, NEW n \in OpIds, ServerRequests(w, n)
    PROVE  OpsInv'
<1> USE DEF OpsInv
<1>1. /\ pairing[w][n] # NoOp /\ Paired(w, n, FALSE)
      /\ mistaken' = mistaken \cup {pairing[w][n]}
      /\ UNCHANGED <<tool, posting, draining, tableVars, unlogged, ticks>>
  BY DEF ServerRequests
<1>2. UNCHANGED <<tool, posting, draining, operations, pruned, page, unlogged, ticks>>
  BY <1>1 DEF tableVars
<1>3. PICK t \in ToolCalls : t = pairing[w][n]
  BY <1>1 DEF OpsTyped
<1>4. tool[t].pc = "called" /\ t \notin mistaken /\ tool[t].at = w /\ tool[t].id = n
  BY <1>1, <1>3 DEF PairInv
<1>5. /\ pairing' = [pairing EXCEPT ![tool[t].at][tool[t].id] = NoOp]
      /\ Submit([of |-> t, failed |-> FALSE]) /\ mistaken' = mistaken \cup {t}
  BY <1>1, <1>3, <1>4 DEF Paired
<1>6. PairedCalls' = PairedCalls \cup {t}
  BY <1>2, <1>5 DEF PairedCalls
<1>7. t \notin PairedCalls
  BY <1>4 DEF PairedCalls
<1>8. PairInv' /\ pairing' \in [Workplaces -> [OpIds -> ToolCalls \cup {NoOp}]]
  <2>1. /\ mistaken' \subseteq ToolCalls /\ mistaken \subseteq mistaken'
        /\ mistaken' \subseteq mistaken \cup {t} /\ t \in mistaken'
    BY <1>5 DEF OpsTyped
  <2>2. tool' = tool /\ tool \in [ToolCalls -> ToolRecords]
    BY <1>2 DEF OpsTyped
  <2> QED BY <1>4, <1>5, <2>1, <2>2, UnpairedIsSound
<1>9. /\ opQueue' \in Seq(Ops) /\ Len(opQueue') <= LogCapacity
      /\ Logged' \subseteq Logged \cup {[of |-> t, failed |-> FALSE]}
      /\ \A op, other \in Logged' : op.of = other.of => op = other
      /\ KeptCalls' \subseteq PairedCalls'
      /\ IsFiniteSet((PairedCalls \ KeptCalls)')
      /\ dropped' = Cardinality((PairedCalls \ KeptCalls)')
      /\ Rowed' = Rowed
  BY <1>2, <1>5, <1>6, <1>7, SubmittedIsLogged
<1>10. OpsTyped'
  BY <1>2, <1>5, <1>8, <1>9 DEF OpsTyped
<1>11. LoggedIsTrue'
  <2>1. \A op \in Logged : op.of \in mistaken \/
          (tool[op.of].pc = "answered" /\ op.failed = tool[op.of].failed)
    BY DEF LogInv, LoggedIsTrue, Logged
  <2>2. \A op \in Logged' : op.of \in mistaken' \/
          (tool'[op.of].pc = "answered" /\ op.failed = tool'[op.of].failed)
    BY <1>2, <1>5, <1>9, <2>1
  <2> QED BY <2>2 DEF LoggedIsTrue, Logged
<1>12. LogInv'
  <2>1. \A u \in mistaken' : tool'[u].pc # "none"
    BY <1>2, <1>4, <1>5 DEF LogInv
  <2>2. IsFiniteSet(Rowed')
    BY <1>9 DEF LogInv
  <2> QED BY <1>9, <1>11, <2>1, <2>2 DEF LogInv
<1>13. ShownAndKept'
  BY <1>2 DEF ShownAndKept
<1> QED BY <1>8, <1>10, <1>12, <1>13

LEMMA DrainInv == ASSUME OpsInv, Drain PROVE OpsInv'
<1> USE DEF OpsInv
<1>1. /\ posting = {} /\ opQueue # <<>> /\ posting' = {Head(opQueue)}
      /\ opQueue' = Tail(opQueue)
      /\ UNCHANGED <<tool, pairing, draining, dropped, operations, pruned, page>>
      /\ UNCHANGED <<unlogged, mistaken, ticks>>
  BY DEF Drain, tableVars
<1>2. opQueue \in Seq(Ops) /\ Len(opQueue) <= LogCapacity /\ LogCapacity \in Nat
  BY OperationLogAssumption DEF OpsTyped
<1>3. /\ Head(opQueue) \in Ops /\ Tail(opQueue) \in Seq(Ops)
      /\ Len(Tail(opQueue)) = Len(opQueue) - 1
      /\ {opQueue[i] : i \in DOMAIN opQueue} =
           {Tail(opQueue)[i] : i \in DOMAIN Tail(opQueue)} \cup {Head(opQueue)}
  BY <1>1, <1>2, QueueTaken
<1>4. opQueue' \in Seq(Ops) /\ Len(opQueue') <= LogCapacity
  BY <1>1, <1>2, <1>3
<1>5. OpsTyped'
  BY <1>1, <1>3, <1>4 DEF OpsTyped
<1>6. Queued = Queued' \cup {Head(opQueue)} /\ Rowed' = Rowed
  BY <1>1, <1>3 DEF Queued, Rowed
<1>7. Logged' = Logged
  BY <1>1, <1>6 DEF Logged
<1>8. KeptCalls' = KeptCalls
  BY <1>1, <1>7 DEF KeptCalls
<1>9. LogInv'
  BY <1>1, <1>6, <1>7, <1>8, MovedIsLogged
<1> QED BY <1>1, <1>5, <1>9 DEF PairInv, ShownAndKept

LEMMA PostInternalOperationsInv == ASSUME OpsInv, PostInternalOperations PROVE OpsInv'
<1> USE DEF OpsInv
<1>1. PICK op \in posting :
        /\ operations' = operations \cup {op} /\ posting' = {}
        /\ UNCHANGED <<tool, pairing, opQueue, draining, dropped, pruned, page,
                       unlogged, mistaken, ticks>>
  BY DEF PostInternalOperations
<1>2. posting = {op} /\ op \in Ops
  BY DEF OpsTyped
<1>3. OpsTyped'
  BY <1>1, <1>2 DEF OpsTyped
<1>4. Queued' = Queued /\ Rowed' = Rowed \cup {op}
  BY <1>1 DEF Queued, Rowed
<1>5. Logged' = Logged
  BY <1>1, <1>2, <1>4 DEF Logged
<1>6. KeptCalls' = KeptCalls
  BY <1>1, <1>5 DEF KeptCalls
<1>7. LogInv'
  BY <1>1, <1>2, <1>4, <1>5, <1>6, MovedIsLogged
<1> QED BY <1>1, <1>3, <1>7 DEF PairInv, ShownAndKept

LEMMA PostFailsInv == ASSUME OpsInv, PostFails PROVE OpsInv'
<1> USE DEF OpsInv
<1>1. PICK op \in posting :
        /\ posting' = {} /\ unlogged' = unlogged \cup {op.of}
        /\ UNCHANGED <<tool, pairing, opQueue, draining, dropped, tableVars, mistaken, ticks>>
  BY DEF PostFails
<1>2. UNCHANGED <<operations, pruned, page>>
  BY <1>1 DEF tableVars
<1>3. posting = {op} /\ op \in Ops /\ op.of \in ToolCalls
  BY DEF OpsTyped, Ops
<1>4. OpsTyped'
  BY <1>1, <1>2, <1>3 DEF OpsTyped
<1>5. Queued' = Queued /\ Rowed' = Rowed
  BY <1>1, <1>2 DEF Queued, Rowed
<1>6. Logged' \cup {op} = Logged
  BY <1>1, <1>3, <1>5 DEF Logged
<1>7. KeptCalls' = KeptCalls
  BY <1>1, <1>6 DEF KeptCalls
<1>8. LogInv'
  BY <1>1, <1>5, <1>6, <1>7, MovedIsLogged
<1> QED BY <1>1, <1>2, <1>4, <1>8 DEF PairInv, ShownAndKept

LEMMA CloseLogInv == ASSUME OpsInv, CloseLog PROVE OpsInv'
<1> USE DEF OpsInv
<1>1. PICK done \in SUBSET posting :
        /\ operations' = operations \cup done
        /\ unlogged' = unlogged \cup {op.of : op \in posting \ done}
                                \cup {opQueue[i].of : i \in DOMAIN opQueue}
  BY DEF CloseLog
<1>2. /\ draining' = FALSE /\ posting' = {} /\ opQueue' = <<>>
      /\ UNCHANGED <<tool, pairing, dropped, pruned, page, mistaken, ticks>>
  BY DEF CloseLog
<1>3. Queued \subseteq Ops /\ posting \subseteq Ops /\ \A op \in Ops : op.of \in ToolCalls
  <2>1. posting \subseteq Ops
    BY DEF OpsTyped
  <2> QED BY <2>1, LoggedAreOps
<1>4. {opQueue[i].of : i \in DOMAIN opQueue} = {op.of : op \in Queued}
  BY DEF Queued
<1>5. unlogged' \subseteq ToolCalls
  BY <1>1, <1>3, <1>4 DEF OpsTyped
<1>6. opQueue' \in Seq(Ops) /\ Len(opQueue') <= LogCapacity /\ DOMAIN opQueue' = {}
  BY <1>2, OperationLogAssumption
<1>7. OpsTyped'
  BY <1>1, <1>2, <1>3, <1>5, <1>6 DEF OpsTyped
<1>8. Queued' = {} /\ Rowed' = Rowed \cup done
  BY <1>1, <1>2, <1>6 DEF Queued, Rowed
<1>9. Logged' = Rowed \cup done
  BY <1>2, <1>8 DEF Logged
<1>10. KeptCalls' = KeptCalls
  BY <1>1, <1>4, <1>9 DEF KeptCalls, Logged
<1>11. Logged' \subseteq Logged /\ Rowed' \subseteq Rowed \cup posting
  BY <1>8, <1>9 DEF Logged
<1>12. LogInv'
  BY <1>2, <1>10, <1>11, MovedIsLogged
<1> QED BY <1>2, <1>7, <1>12 DEF PairInv, ShownAndKept

LEMMA PruneInv == ASSUME OpsInv, PruneOperationsOlderThan PROVE OpsInv'
<1> USE DEF OpsInv
<1>1. PICK old : old = {op \in operations : tool[op.of].since + OpTTL < ticks}
  OBVIOUS
<1>2. /\ operations' = operations \ old
      /\ pruned' = pruned \cup {[op |-> op, at |-> ticks] : op \in old}
      /\ UNCHANGED <<tool, pairing, clientVars, unlogged, mistaken, page, ticks>>
  BY <1>1 DEF PruneOperationsOlderThan
<1>3. UNCHANGED <<opQueue, posting, draining, dropped>>
  BY <1>2 DEF clientVars
<1>4. old \subseteq operations /\ operations \subseteq Ops /\ ticks \in Nat /\ OpTTL \in Nat
  BY <1>1, OperationLogAssumption DEF OpsTyped
<1>5. {[op |-> op, at |-> ticks] : op \in old} \subseteq [op : Ops, at : Nat]
  BY <1>4
<1>6. OpsTyped'
  BY <1>2, <1>3, <1>4, <1>5 DEF OpsTyped
<1>7. Queued' = Queued
  BY <1>3 DEF Queued
<1>8. {r.op : r \in pruned'} = {r.op : r \in pruned} \cup old
  <2>1. \A r \in pruned' : r \in pruned \/ r.op \in old
    BY <1>2
  <2>2. ASSUME NEW x \in old PROVE \E r \in pruned' : r.op = x
    <3>1. [op |-> x, at |-> ticks] \in pruned'
      BY <1>2
    <3> QED BY <3>1
  <2>3. \A r \in pruned : r \in pruned'
    BY <1>2
  <2> QED BY <2>1, <2>2, <2>3
<1>9. Rowed' = Rowed
  BY <1>2, <1>4, <1>8 DEF Rowed
<1>10. Logged' = Logged
  BY <1>3, <1>7, <1>9 DEF Logged
<1>11. KeptCalls' = KeptCalls
  BY <1>2, <1>10 DEF KeptCalls
<1>12. LogInv'
  BY <1>2, <1>3, <1>9, <1>10, <1>11, MovedIsLogged
<1>13. ShownAndKept'
  <2>1. ASSUME NEW op \in old
        PROVE  ticks - tool[op.of].since > OpTTL
    <3>1. tool[op.of].since + OpTTL < ticks /\ op.of \in ToolCalls
      BY <1>1, <1>4 DEF Ops
    <3>2. tool[op.of].since \in Nat
      BY <3>1 DEF OpsTyped, ToolRecords
    <3> QED BY <1>4, <3>1, <3>2
  <2>2. \A r \in pruned' : r \in pruned \/ (r.op \in old /\ r.at = ticks)
    BY <1>2
  <2>3. \A r \in pruned' : r.at - tool'[r.op.of].since > OpTTL
    BY <1>2, <2>1, <2>2 DEF ShownAndKept
  <2> QED BY <1>2, <2>3 DEF ShownAndKept
<1> QED BY <1>2, <1>6, <1>12, <1>13 DEF PairInv

LEMMA GetInternalOperationsInv ==
    ASSUME OpsInv, NEW w \in Workplaces, GetInternalOperations(w, w) PROVE OpsInv'
<1> USE DEF OpsInv
<1>1. PICK rows \in SUBSET operations :
        Newest(w, rows) /\ page' = [for |-> w, rows |-> rows]
  BY DEF GetInternalOperations
<1>2. /\ UNCHANGED <<tool, pairing, opQueue, posting, draining, dropped, operations>>
      /\ UNCHANGED <<pruned, unlogged, mistaken, ticks>>
  BY DEF GetInternalOperations, clientVars
<1>3. page'.for = w /\ page'.rows = rows /\ \A op \in rows : tool[op.of].at = w
  BY <1>1 DEF Newest
<1>4. OpsTyped'
  BY <1>1, <1>2, <1>3 DEF OpsTyped
<1>5. Queued' = Queued /\ Rowed' = Rowed
  BY <1>2 DEF Queued, Rowed
<1>6. Logged' = Logged
  BY <1>2, <1>5 DEF Logged
<1>7. KeptCalls' = KeptCalls
  BY <1>2, <1>6 DEF KeptCalls
<1>8. LogInv'
  BY <1>2, <1>5, <1>6, <1>7, MovedIsLogged
<1>9. ShownAndKept'
  BY <1>2, <1>3 DEF ShownAndKept
<1> QED BY <1>2, <1>4, <1>8, <1>9 DEF PairInv

LEMMA OpTickInv == ASSUME OpsInv, OpTick \/ UNCHANGED opVars PROVE OpsInv'
<1> USE DEF OpsInv
<1>1. /\ UNCHANGED <<tool, pairing, opQueue, posting, draining, dropped, operations>>
      /\ UNCHANGED <<pruned, page, unlogged, mistaken>>
  BY DEF OpTick, opVars, clientVars, tableVars
<1>2. ticks' \in 0..MaxTicks
  BY OperationLogAssumption DEF OpTick, opVars, OpsTyped
<1>3. OpsTyped'
  BY <1>1, <1>2 DEF OpsTyped
<1>4. Queued' = Queued /\ Rowed' = Rowed
  BY <1>1 DEF Queued, Rowed
<1>5. Logged' = Logged
  BY <1>1, <1>4 DEF Logged
<1>6. KeptCalls' = KeptCalls
  BY <1>1, <1>5 DEF KeptCalls
<1>7. LogInv'
  BY <1>1, <1>4, <1>5, <1>6, MovedIsLogged
<1> QED BY <1>1, <1>3, <1>7 DEF PairInv, ShownAndKept

LEMMA OpsNextInv == OpsInv /\ [OpsNext]_opVars => OpsInv'
<1> SUFFICES ASSUME OpsInv, [OpsNext]_opVars PROVE OpsInv'
  OBVIOUS
<1>1. ASSUME NEW t \in ToolCalls, NEW n \in OpIds, NEW env \in BOOLEAN,
             OnClientFrame(t, n, env)
      PROVE  OpsInv'
  BY <1>1, OnClientFrameInv
<1>2. ASSUME NEW t \in ToolCalls, NEW failed \in BOOLEAN, OnServerFrame(t, failed)
      PROVE  OpsInv'
  BY <1>2, OnServerFrameInv
<1>3. ASSUME NEW w \in Workplaces, NEW n \in OpIds, ServerRequests(w, n) PROVE OpsInv'
  BY <1>3, ServerRequestsInv
<1>4. CASE Drain
  BY <1>4, DrainInv
<1>5. CASE PostInternalOperations
  BY <1>5, PostInternalOperationsInv
<1>6. CASE PostFails
  BY <1>6, PostFailsInv
<1>7. CASE CloseLog
  BY <1>7, CloseLogInv
<1>8. CASE PruneOperationsOlderThan
  BY <1>8, PruneInv
<1>9. ASSUME NEW w \in Workplaces,
             \/ TryHandleOperationsList(w)
             \/ \E asked \in Workplaces : GetWorkspaceOperations(w, asked)
      PROVE  OpsInv'
  <2>1. GetInternalOperations(w, w)
    BY <1>9 DEF TryHandleOperationsList, GetWorkspaceOperations
  <2> QED BY <2>1, GetInternalOperationsInv
<1>10. CASE OpTick \/ UNCHANGED opVars
  BY <1>10, OpTickInv
<1> QED BY <1>1, <1>2, <1>3, <1>4, <1>5, <1>6, <1>7, <1>8, <1>9, <1>10 DEF OpsNext

LEMMA OpsInvSound == OpsInv => OpsTypeOK /\ OpsSound
<1> SUFFICES ASSUME OpsInv PROVE OpsTypeOK /\ OpsSound
  OBVIOUS
<1> USE DEF OpsInv
<1>1. Logged \subseteq Ops /\ Rowed \subseteq Ops /\ \A op \in Ops : op.of \in ToolCalls
  BY LoggedAreOps
<1>2. OpsTypeOK
  <2>1. Cardinality(posting) <= 1
    <3>1. CASE posting = {}
      BY <3>1, FS_EmptySet
    <3>2. ASSUME NEW op, posting = {op} PROVE Cardinality(posting) <= 1
      <4>1. Cardinality({op}) = 1
        BY FS_Singleton
      <4> QED BY <3>2, <4>1
    <3> QED BY <3>1, <3>2 DEF OpsTyped
  <2>2. \A t \in ToolCalls : tool[t].pc \in {"none", "called", "answered"}
    BY DEF OpsTyped, ToolRecords
  <2>3. \A w \in Workplaces, n \in OpIds : pairing[w][n] \in ToolCalls \cup {NoOp}
    BY DEF OpsTyped
  <2>4. {op.of : op \in operations} \subseteq ToolCalls
    BY <1>1 DEF OpsTyped
  <2>5. /\ Len(opQueue) <= LogCapacity /\ unlogged \cup mistaken \subseteq ToolCalls
        /\ ticks \in 0..MaxTicks
    BY DEF OpsTyped
  <2> QED BY <2>1, <2>2, <2>3, <2>4, <2>5 DEF OpsTypeOK
<1>3. NothingUnaccounted
  <2>1. KeptCalls = {op.of : op \in Queued \cup posting \cup Rowed} \cup unlogged
    BY DEF KeptCalls, Logged
  <2>2. PairedCalls = {t \in ToolCalls : tool[t].pc = "answered"} \cup mistaken
    BY DEF PairedCalls
  <2>3. KeptCalls \subseteq PairedCalls /\ dropped = Cardinality(PairedCalls \ KeptCalls)
    BY DEF LogInv
  <2>4. Cardinality({op.of : op \in Rowed}) = Cardinality(Rowed)
    <3> DEFINE f == [op \in Rowed |-> op.of]
    <3>1. \A op, other \in Rowed : op.of = other.of => op = other
      BY DEF LogInv, Logged
    <3>2. f \in Bijection(Rowed, {op.of : op \in Rowed})
      BY <3>1 DEF Bijection, Injection, Surjection, IsInjective
    <3>3. ExistsBijection(Rowed, {op.of : op \in Rowed})
      BY <3>2 DEF ExistsBijection
    <3>4. IsFiniteSet(Rowed)
      BY DEF LogInv
    <3> QED BY <3>3, <3>4, FS_Bijection
  <2> QED BY <2>1, <2>2, <2>3, <2>4 DEF NothingUnaccounted
<1> QED BY <1>2, <1>3 DEF OpsSound, LogInv

\* For any number of calls, ids and workspaces and every capacity: what the log says of
\* a call is what it was answered, unless a request of the server passed for the answer;
\* every pair is accounted for once; a list shows one workspace, and rows go only when
\* their time is over.
THEOREM OpsAlwaysSound == OpsSpec => [](OpsTypeOK /\ OpsSound)
<1>1. OpsSpec => []OpsInv
  BY OpsInitInv, OpsNextInv, PTL DEF OpsSpec
<1> QED BY <1>1, OpsInvSound, PTL

-----------------------------------------------------------------------------
(* Credential bindings *)

CreationRecords == [pc : {"none", "device", "insert", "over"}, first : BOOLEAN, oidc : BOOLEAN]
FlowRecords == [known : BOOLEAN, live : BOOLEAN, once : {"fresh", "running", "done"}]
CompleteRecords ==
    [pc : {"idle", "once", "exchange", "insert", "drop"}, of : Creds \cup {NoCred}]
RemoveRecords == [pc : {"idle", "count", "delete"}, of : Creds \cup {NoCred}]

CredTyped ==
    /\ creation \in [Creds -> CreationRecords]
    /\ credRow \in [Creds -> {"none", "plain", "default"}]
    /\ flow \in [Creds -> FlowRecords]
    /\ complete \in [Completes -> CompleteRecords]
    /\ remove \in [Removes -> RemoveRecords]
    /\ exchanged \in [Creds -> Nat]
    /\ overlap \in BOOLEAN /\ credRestarts \in Nat

\* A creation that is not over has left nothing; only a static one inserts a row.
CreationKnown(b) ==
    /\ creation[b].pc # "over" =>
          /\ credRow[b] = "none" /\ exchanged[b] = 0
          /\ flow[b].once = "fresh" /\ ~flow[b].known
    /\ creation[b].pc = "insert" => ~creation[b].oidc

\* The issuer is asked by the one call that holds the flow.
FlowKnown(b) ==
    /\ flow[b].once \in {"fresh", "running"} => exchanged[b] = 0
    /\ exchanged[b] <= 1
    /\ creation[b].oidc /\ credRow[b] # "none" => exchanged[b] = 1

CompleteKnown(c) ==
    LET b == complete[c].of IN
    /\ complete[c].pc # "idle" => b \in Creds /\ creation[b].oidc /\ creation[b].pc = "over"
    /\ complete[c].pc = "exchange" => flow[b].once = "running"
    /\ complete[c].pc = "insert" =>
          flow[b].once = "done" /\ exchanged[b] = 1 /\ credRow[b] = "none"

HoldsFlow(c) == complete[c].pc \in {"exchange", "insert"}

ExchangeInv ==
    /\ \A b \in Creds : CreationKnown(b) /\ FlowKnown(b)
    /\ \A c \in Completes : CompleteKnown(c)
    /\ \A c, e \in Completes :
          HoldsFlow(c) /\ HoldsFlow(e) /\ complete[c].of = complete[e].of => c = e

\* What a DELETE found is so when it deletes.
RemoveKnown(d) ==
    LET b == remove[d].of IN
    /\ remove[d].pc = "count" => credRow[b] = "default"
    /\ remove[d].pc = "delete" => credRow[b] = "plain" \/ BindingRows = {b}

\* As long as nothing has overlapped there is one default among the rows, and a
\* binding on its way that did not see itself first is not the only one.
RowsInv ==
    ~overlap =>
        /\ BindingRows # {} => \E b \in Creds : Default = {b}
        /\ \A b \in Adding : creation[b].first \/ BindingRows # {}
        /\ \A d \in Removes : RemoveKnown(d)

CredInv ==
    /\ CredTyped /\ ExchangeInv /\ RowsInv
    /\ IsFiniteSet(BindingRows)
    /\ \A d \in Removes : remove[d].pc # "idle" => remove[d].of \in Creds

AddingCred(b) ==
    \/ creation[b].pc \in {"device", "insert"} \/ flow[b].known
    \/ \E c \in Completes : complete[c].pc # "idle" /\ complete[c].of = b

LEMMA AddingMeans ==
    ASSUME CredTyped, \A c \in Completes : CompleteKnown(c)
    PROVE  Adding \subseteq Creds /\ \A b \in Creds : b \in Adding <=> AddingCred(b)
BY DEF Adding, AddingCred, CompleteKnown

LEMMA CredInitInv == CredInit => CredInv
<1> SUFFICES ASSUME CredInit PROVE CredInv
  OBVIOUS
<1>1. /\ creation \in [Creds -> CreationRecords] /\ flow \in [Creds -> FlowRecords]
      /\ \A b \in Creds : /\ creation[b].pc = "none" /\ flow[b].once = "fresh"
                          /\ ~flow[b].known
  BY DEF CredInit, NoCreation, NoFlow, CreationRecords, FlowRecords
<1>2. /\ complete \in [Completes -> CompleteRecords] /\ remove \in [Removes -> RemoveRecords]
      /\ \A c \in Completes : complete[c].pc = "idle"
      /\ \A d \in Removes : remove[d].pc = "idle"
  BY DEF CredInit, CompleteRecords, RemoveRecords
<1>3. /\ credRow \in [Creds -> {"none", "plain", "default"}] /\ exchanged \in [Creds -> Nat]
      /\ \A b \in Creds : credRow[b] = "none" /\ exchanged[b] = 0
      /\ overlap = FALSE /\ credRestarts = 0
  BY DEF CredInit
<1>4. CredTyped
  BY <1>1, <1>2, <1>3 DEF CredTyped
<1>5. ExchangeInv
  BY <1>1, <1>2, <1>3 DEF ExchangeInv, CreationKnown, FlowKnown, CompleteKnown, HoldsFlow
<1>6. BindingRows = {}
  BY <1>3 DEF BindingRows
<1>7. Adding = {}
  BY <1>1, <1>2 DEF Adding
<1>8. RowsInv
  BY <1>2, <1>6, <1>7 DEF RowsInv, RemoveKnown
<1> QED BY <1>2, <1>4, <1>5, <1>6, <1>8, FS_EmptySet DEF CredInv

\* A step that touches no row, and after which no more bindings are on their way.
LEMMA RowsUntouched ==
    ASSUME CredInv, CredTyped', ExchangeInv', UNCHANGED <<credRow, overlap>>,
           \A b \in Creds : AddingCred(b)' =>
               AddingCred(b) /\ creation'[b].first = creation[b].first,
           \A d \in Removes : remove'[d] = remove[d] \/ remove'[d].pc = "idle"
    PROVE  CredInv'
<1>1. BindingRows' = BindingRows /\ Default' = Default
  BY DEF BindingRows, Default
<1>2. \A b \in Adding' : b \in Adding /\ creation'[b].first = creation[b].first
  <2>1. Adding' \subseteq Creds /\ \A b \in Creds : b \in Adding' <=> AddingCred(b)'
    BY AddingMeans DEF ExchangeInv, Adding, AddingCred, CompleteKnown, CredTyped
  <2>2. \A b \in Creds : b \in Adding <=> AddingCred(b)
    BY AddingMeans DEF CredInv, ExchangeInv
  <2> QED BY <2>1, <2>2
<1>3. RowsInv'
  <2> SUFFICES ASSUME ~overlap
               PROVE  /\ BindingRows # {} => \E b \in Creds : Default = {b}
                      /\ \A b \in Adding' : creation'[b].first \/ BindingRows # {}
                      /\ \A d \in Removes : RemoveKnown(d)'
    BY <1>1 DEF RowsInv
  <2>1. ASSUME NEW d \in Removes PROVE RemoveKnown(d)'
    <3>1. RemoveKnown(d)
      BY DEF CredInv, RowsInv
    <3> QED BY <1>1, <3>1 DEF RemoveKnown
  <2> QED BY <1>2, <2>1 DEF CredInv, RowsInv
<1>4. \A d \in Removes : remove'[d].pc # "idle" => remove'[d].of \in Creds
  BY DEF CredInv
<1> QED BY <1>1, <1>3, <1>4 DEF CredInv

LEMMA CreateInv ==
    ASSUME CredInv, NEW b \in Creds, CreateCredentialBinding(b) PROVE CredInv'
<1>1. /\ creation[b].pc = "none"
      /\ UNCHANGED <<credRow, flow, complete, remove, exchanged, overlap, credRestarts>>
  BY DEF CreateCredentialBinding
<1>2. PICK q \in CreationRecords :
        /\ creation' = [creation EXCEPT ![b] = q] /\ q.pc # "none"
        /\ q.pc = "insert" => ~q.oidc
        /\ q.pc # "over" => (q.first <=> BindingRows = {})
  <2>1. PICK upload \in ParseKubeconfig :
          IF upload = "refused" THEN CreationGoes(b, "over")
          ELSE creation' = [creation EXCEPT ![b] =
                 [pc |-> IF upload = "oidc" THEN "device" ELSE "insert",
                  first |-> BindingRows = {}, oidc |-> upload = "oidc"]]
    BY DEF CreateCredentialBinding
  <2>2. CASE upload = "refused"
    <3>1. PICK q : q = [creation[b] EXCEPT !.pc = "over"]
      OBVIOUS
    <3>2. q \in CreationRecords /\ q.pc = "over" /\ creation' = [creation EXCEPT ![b] = q]
      BY <2>1, <2>2, <3>1 DEF CreationGoes, CredInv, CredTyped, CreationRecords
    <3> QED BY <3>2
  <2>3. CASE upload # "refused"
    <3>1. PICK first \in BOOLEAN, oidc \in BOOLEAN :
            first = (BindingRows = {}) /\ oidc = (upload = "oidc")
      OBVIOUS
    <3>2. PICK pc \in {"device", "insert"} : pc = IF upload = "oidc" THEN "device" ELSE "insert"
      OBVIOUS
    <3>3. PICK q : q = [pc |-> pc, first |-> first, oidc |-> oidc]
      OBVIOUS
    <3>4. /\ q \in CreationRecords /\ q.pc = pc /\ q.first = first /\ q.oidc = oidc
      BY <3>1, <3>2, <3>3 DEF CreationRecords
    <3>5. creation' = [creation EXCEPT ![b] = q]
      BY <2>1, <2>3, <3>1, <3>2, <3>3
    <3>6. pc = "insert" => ~oidc
      BY <3>1, <3>2
    <3> QED BY <3>1, <3>2, <3>4, <3>5, <3>6
  <2> QED BY <2>2, <2>3
<1>3. /\ creation' \in [Creds -> CreationRecords] /\ creation'[b] = q
      /\ \A a \in Creds \ {b} : creation'[a] = creation[a]
  BY <1>2 DEF CredInv, CredTyped
<1>4. CredTyped'
  BY <1>1, <1>3 DEF CredInv, CredTyped
<1>5. credRow[b] = "none" /\ exchanged[b] = 0 /\ flow[b].once = "fresh" /\ ~flow[b].known
  BY <1>1 DEF CredInv, ExchangeInv, CreationKnown
<1>6. \A c \in Completes : complete[c].pc # "idle" => complete[c].of \in Creds \ {b}
  BY <1>1 DEF CredInv, ExchangeInv, CompleteKnown
<1>7. ExchangeInv'
  <2>1. \A a \in Creds : CreationKnown(a)' /\ FlowKnown(a)'
    BY <1>1, <1>2, <1>3, <1>5 DEF CredInv, ExchangeInv, CreationKnown, FlowKnown
  <2>2. \A c \in Completes : CompleteKnown(c)'
    BY <1>1, <1>3, <1>6 DEF CredInv, ExchangeInv, CompleteKnown
  <2> QED BY <1>1, <2>1, <2>2 DEF CredInv, ExchangeInv, HoldsFlow
<1>8. BindingRows' = BindingRows /\ Default' = Default
  BY <1>1 DEF BindingRows, Default
<1>9. \A a \in Adding' : a = b \/ (a \in Adding /\ creation'[a].first = creation[a].first)
  <2>1. Adding' \subseteq Creds /\ \A a \in Creds : a \in Adding' <=> AddingCred(a)'
    BY <1>4, <1>7, AddingMeans DEF ExchangeInv, Adding, AddingCred, CompleteKnown, CredTyped
  <2>2. \A a \in Creds : a \in Adding <=> AddingCred(a)
    BY AddingMeans DEF CredInv, ExchangeInv
  <2>3. ASSUME NEW a \in Creds, a # b, AddingCred(a)' PROVE AddingCred(a)
    BY <1>1, <1>3, <2>3 DEF AddingCred
  <2> QED BY <1>3, <2>1, <2>2, <2>3
<1>10. ASSUME ~overlap, b \in Adding' PROVE q.first \/ BindingRows # {}
  <2>1. AddingCred(b)'
    BY <1>4, <1>7, <1>10, AddingMeans DEF ExchangeInv, Adding, AddingCred, CompleteKnown, CredTyped
  <2>2. q.pc # "over"
    BY <1>1, <1>3, <1>5, <1>6, <2>1 DEF AddingCred
  <2> QED BY <1>2, <2>2
<1>11. RowsInv'
  <2> SUFFICES ASSUME ~overlap
               PROVE  /\ BindingRows # {} => \E a \in Creds : Default = {a}
                      /\ \A a \in Adding' : creation'[a].first \/ BindingRows # {}
                      /\ \A d \in Removes : RemoveKnown(d)'
    BY <1>1, <1>8 DEF RowsInv
  <2>1. \A d \in Removes : RemoveKnown(d)'
    BY <1>1, <1>8 DEF CredInv, RowsInv, RemoveKnown
  <2> QED BY <1>3, <1>9, <1>10, <2>1 DEF CredInv, RowsInv
<1> QED BY <1>1, <1>4, <1>7, <1>8, <1>11 DEF CredInv

LEMMA CreateOIDCInv == ASSUME CredInv, NEW b \in Creds, CreateOIDCBinding(b) PROVE CredInv'
<1>1. /\ creation[b].pc = "device" /\ CreationGoes(b, "over")
      /\ UNCHANGED <<credRow, complete, remove, exchanged, overlap, credRestarts>>
  BY DEF CreateOIDCBinding
<1>2. /\ creation' \in [Creds -> CreationRecords] /\ creation'[b].pc = "over"
      /\ creation'[b].oidc = creation[b].oidc /\ creation'[b].first = creation[b].first
      /\ \A a \in Creds \ {b} : creation'[a] = creation[a]
  BY <1>1 DEF CreationGoes, CredInv, CredTyped, CreationRecords
<1>3. /\ flow' \in [Creds -> FlowRecords] /\ flow'[b].once = "fresh"
      /\ \A a \in Creds \ {b} : flow'[a] = flow[a]
  <2>1. flow \in [Creds -> FlowRecords] /\ flow[b].once = "fresh"
    BY <1>1 DEF CredInv, CredTyped, ExchangeInv, CreationKnown
  <2>2. CASE flow' = [flow EXCEPT ![b] = [known |-> TRUE, live |-> TRUE, once |-> "fresh"]]
    BY <2>1, <2>2 DEF FlowRecords
  <2>3. CASE flow' = flow
    BY <2>1, <2>3
  <2> QED BY <2>2, <2>3 DEF CreateOIDCBinding
<1>4. CredTyped'
  BY <1>1, <1>2, <1>3 DEF CredInv, CredTyped
<1>5. /\ credRow[b] = "none" /\ exchanged[b] = 0
      /\ \A c \in Completes : complete[c].pc # "idle" => complete[c].of \in Creds \ {b}
  BY <1>1 DEF CredInv, ExchangeInv, CreationKnown, CompleteKnown
<1>6. ExchangeInv'
  <2>1. \A a \in Creds : CreationKnown(a)' /\ FlowKnown(a)'
    BY <1>1, <1>2, <1>3, <1>5 DEF CredInv, ExchangeInv, CreationKnown, FlowKnown
  <2>2. \A c \in Completes : CompleteKnown(c)'
    BY <1>1, <1>2, <1>3, <1>5 DEF CredInv, ExchangeInv, CompleteKnown
  <2> QED BY <1>1, <2>1, <2>2 DEF CredInv, ExchangeInv, HoldsFlow
<1>7. \A a \in Creds : /\ AddingCred(a)' => AddingCred(a)
                       /\ creation'[a].first = creation[a].first
  BY <1>1, <1>2, <1>3 DEF AddingCred
<1> QED BY <1>1, <1>4, <1>6, <1>7, RowsUntouched

LEMMA FlowAgesInv ==
    ASSUME CredInv, (\E b \in Creds : FlowExpires(b)) \/ SweepExpiredDeviceFlows PROVE CredInv'
<1>1. UNCHANGED <<callVars, credRow, exchanged, overlap, credRestarts>>
  BY DEF FlowExpires, SweepExpiredDeviceFlows
<1>2. /\ flow' \in [Creds -> FlowRecords]
      /\ \A b \in Creds : flow'[b].once = flow[b].once /\ (flow'[b].known => flow[b].known)
  <2>1. flow \in [Creds -> FlowRecords]
    BY DEF CredInv, CredTyped
  <2>2. CASE \E b \in Creds : FlowExpires(b)
    <3>1. PICK b \in Creds : FlowExpires(b)
      BY <2>2
    <3>2. flow' = [flow EXCEPT ![b].live = FALSE]
      BY <3>1 DEF FlowExpires
    <3> QED BY <2>1, <3>2 DEF FlowRecords
  <2>3. CASE SweepExpiredDeviceFlows
    BY <2>1, <2>3 DEF SweepExpiredDeviceFlows, FlowRecords
  <2> QED BY <2>2, <2>3
<1>3. CredTyped'
  BY <1>1, <1>2 DEF CredInv, CredTyped, callVars
<1>4. ExchangeInv'
  BY <1>1, <1>2 DEF CredInv, ExchangeInv, CreationKnown, FlowKnown, CompleteKnown, HoldsFlow,
     callVars
<1>5. \A b \in Creds : AddingCred(b)' => AddingCred(b) /\ creation'[b].first = creation[b].first
  BY <1>1, <1>2 DEF AddingCred, callVars
<1> QED BY <1>1, <1>3, <1>4, <1>5, RowsUntouched DEF callVars

\* A call of device-complete for a binding that was, or is, in its flow.
LEMMA CompleteStepInv ==
    ASSUME CredInv, NEW c \in Completes, NEW q \in CompleteRecords,
           complete' = [complete EXCEPT ![c] = q],
           q.pc # "idle" => /\ q.of \in Creds /\ creation[q.of].oidc /\ creation[q.of].pc = "over"
                            /\ AddingCred(q.of),
           UNCHANGED <<creation, remove, credRow, exchanged, overlap, credRestarts>>,
           flow' \in [Creds -> FlowRecords],
           \A b \in Creds : flow'[b].known => flow[b].known,
           \A b \in Creds : creation[b].pc # "over" => flow'[b].once = "fresh",
           \A b \in Creds : FlowKnown(b)',
           \A e \in Completes : CompleteKnown(e)',
           HoldsFlow(c)' => \A e \in Completes \ {c} : HoldsFlow(e) => complete[e].of # q.of
    PROVE  CredInv'
<1>1. /\ complete' \in [Completes -> CompleteRecords] /\ complete'[c] = q
      /\ \A e \in Completes \ {c} : complete'[e] = complete[e]
  BY DEF CredInv, CredTyped
<1>2. CredTyped'
  BY <1>1 DEF CredInv, CredTyped
<1>3. ExchangeInv'
  <2>1. \A b \in Creds : CreationKnown(b)'
    BY DEF CredInv, ExchangeInv, CreationKnown
  <2>2. \A d, e \in Completes :
          HoldsFlow(d)' /\ HoldsFlow(e)' /\ complete'[d].of = complete'[e].of => d = e
    BY <1>1 DEF CredInv, ExchangeInv, HoldsFlow
  <2> QED BY <2>1, <2>2 DEF ExchangeInv, HoldsFlow
<1>4. ASSUME NEW b \in Creds, AddingCred(b)' PROVE AddingCred(b)
  <2>1. CASE \E e \in Completes : complete'[e].pc # "idle" /\ complete'[e].of = b
    BY <1>1, <2>1 DEF AddingCred
  <2>2. CASE ~\E e \in Completes : complete'[e].pc # "idle" /\ complete'[e].of = b
    BY <1>4, <2>2 DEF AddingCred
  <2> QED BY <2>1, <2>2
<1> QED BY <1>2, <1>3, <1>4, RowsUntouched

LEMMA DropFlowKeeps ==
    ASSUME CredInv, NEW b \in Creds, DropFlow(b)
    PROVE  /\ flow' \in [Creds -> FlowRecords]
           /\ \A a \in Creds : flow'[a].once = flow[a].once /\ (flow'[a].known => flow[a].known)
BY DEF CredInv, CredTyped, DropFlow, FlowRecords

LEMMA DeviceCodeCompleteInv ==
    ASSUME CredInv, NEW c \in Completes, NEW b \in Creds, DeviceCodeComplete(c, b)
    PROVE  CredInv'
<1>1. /\ complete[c].pc = "idle" /\ creation[b].oidc /\ flow[b].known
      /\ UNCHANGED <<creation, remove, credRow, exchanged, overlap, credRestarts>>
  BY DEF DeviceCodeComplete
<1>2. creation[b].pc = "over" /\ AddingCred(b)
  BY <1>1 DEF CredInv, ExchangeInv, CreationKnown, AddingCred
<1>3. CASE flow[b].live
  <2>1. PICK q : q = [pc |-> "once", of |-> b]
    OBVIOUS
  <2>2. /\ q \in CompleteRecords /\ q.pc = "once" /\ q.of = b
        /\ complete' = [complete EXCEPT ![c] = q] /\ flow' = flow
    BY <1>3, <2>1 DEF DeviceCodeComplete, CompleteRecords
  <2>3. complete'[c] = q /\ \A e \in Completes \ {c} : complete'[e] = complete[e]
    BY <2>2 DEF CredInv, CredTyped
  <2>4. \A e \in Completes : CompleteKnown(e)'
    BY <1>1, <1>2, <2>2, <2>3 DEF CredInv, ExchangeInv, CompleteKnown
  <2>5. \A a \in Creds : FlowKnown(a)' /\ (creation[a].pc # "over" => flow'[a].once = "fresh")
    BY <1>1, <2>2 DEF CredInv, ExchangeInv, FlowKnown, CreationKnown
  <2>6. ~HoldsFlow(c)'
    BY <2>2, <2>3 DEF HoldsFlow
  <2>7. flow' \in [Creds -> FlowRecords]
    BY <2>2 DEF CredInv, CredTyped
  <2> QED BY <1>1, <1>2, <2>2, <2>4, <2>5, <2>6, <2>7, CompleteStepInv
<1>4. CASE ~flow[b].live
  <2>1. DropFlow(b) /\ complete' = complete
    BY <1>4 DEF DeviceCodeComplete
  <2>2. /\ flow' \in [Creds -> FlowRecords]
        /\ \A a \in Creds : flow'[a].once = flow[a].once /\ (flow'[a].known => flow[a].known)
    BY <2>1, DropFlowKeeps
  <2>3. CredTyped'
    BY <1>1, <2>1, <2>2 DEF CredInv, CredTyped
  <2>4. ExchangeInv'
    BY <1>1, <2>1, <2>2 DEF CredInv, ExchangeInv, CreationKnown, FlowKnown, CompleteKnown, HoldsFlow
  <2>5. \A a \in Creds : AddingCred(a)' => AddingCred(a)
    BY <1>1, <2>1, <2>2 DEF AddingCred
  <2> QED BY <1>1, <2>3, <2>4, <2>5, RowsUntouched
<1> QED BY <1>3, <1>4

LEMMA IdleComplete ==
    ASSUME CredInv, NEW c \in Completes, CompleteAnswered(c)
    PROVE  \E q \in CompleteRecords : /\ q.pc = "idle" /\ complete' = [complete EXCEPT ![c] = q]
                                      /\ complete'[c] = q
<1>1. PICK q : q = [pc |-> "idle", of |-> NoCred]
  OBVIOUS
<1>2. q \in CompleteRecords /\ q.pc = "idle" /\ complete' = [complete EXCEPT ![c] = q]
  BY <1>1 DEF CompleteAnswered, CompleteRecords
<1> QED BY <1>2 DEF CredInv, CredTyped

LEMMA CompleteGoesOn ==
    ASSUME CredInv, NEW c \in Completes, NEW pc \in {"once", "exchange", "insert", "drop"},
           CompleteGoes(c, pc)
    PROVE  \E q \in CompleteRecords : /\ q.pc = pc /\ q.of = complete[c].of
                                      /\ complete' = [complete EXCEPT ![c] = q]
                                      /\ complete'[c] = q
<1>1. PICK q : q = [complete[c] EXCEPT !.pc = pc]
  OBVIOUS
<1>2. /\ q \in CompleteRecords /\ q.pc = pc /\ q.of = complete[c].of
      /\ complete' = [complete EXCEPT ![c] = q]
  BY <1>1 DEF CompleteGoes, CompleteRecords, CredInv, CredTyped
<1> QED BY <1>2 DEF CredInv, CredTyped

\* What is known of a call under way.
LEMMA CompleteUnderWay ==
    ASSUME CredInv, NEW c \in Completes, complete[c].pc # "idle"
    PROVE  /\ complete[c].of \in Creds /\ creation[complete[c].of].oidc
           /\ creation[complete[c].of].pc = "over" /\ AddingCred(complete[c].of)
BY DEF CredInv, ExchangeInv, CompleteKnown, AddingCred

LEMMA EnterOnceInv == ASSUME CredInv, NEW c \in Completes, EnterOnce(c) PROVE CredInv'
<1>1. PICK b \in Creds : b = complete[c].of /\ creation[b].oidc /\ creation[b].pc = "over"
                         /\ AddingCred(b)
  BY CompleteUnderWay DEF EnterOnce
<1>2. UNCHANGED <<creation, remove, credRow, exchanged, overlap, credRestarts>>
  BY DEF EnterOnce
<1>3. CASE flow[b].once = "fresh" /\ CompleteGoes(c, "exchange")
           /\ flow' = [flow EXCEPT ![b].once = "running"]
  <2>1. PICK q \in CompleteRecords : /\ q.pc = "exchange" /\ q.of = b
                                     /\ complete' = [complete EXCEPT ![c] = q]
                                     /\ complete'[c] = q
    BY <1>1, <1>3, CompleteGoesOn
  <2>2. \A e \in Completes \ {c} : complete'[e] = complete[e]
    BY <2>1 DEF CredInv, CredTyped
  <2>3. /\ flow' \in [Creds -> FlowRecords] /\ flow'[b].once = "running"
        /\ flow'[b].known = flow[b].known
        /\ \A a \in Creds \ {b} : flow'[a] = flow[a]
    BY <1>3 DEF CredInv, CredTyped, FlowRecords
  <2>4. \A e \in Completes : HoldsFlow(e) => complete[e].of # b
    BY <1>3 DEF CredInv, ExchangeInv, CompleteKnown, HoldsFlow
  <2>5. \A a \in Creds : FlowKnown(a)'
    BY <1>2, <1>3, <2>3 DEF CredInv, ExchangeInv, FlowKnown
  <2>6. \A e \in Completes : CompleteKnown(e)'
    <3>1. CompleteKnown(c)'
      BY <1>1, <1>2, <2>1, <2>3 DEF CompleteKnown
    <3>2. ASSUME NEW e \in Completes \ {c} PROVE CompleteKnown(e)'
      <4>1. CompleteKnown(e) /\ complete'[e] = complete[e]
        BY <2>2 DEF CredInv, ExchangeInv
      <4> QED BY <1>2, <2>3, <2>4, <4>1 DEF CompleteKnown, HoldsFlow
    <3> QED BY <3>1, <3>2
  <2>7. \A a \in Creds : creation[a].pc # "over" => flow'[a].once = "fresh"
    BY <1>1, <2>3 DEF CredInv, ExchangeInv, CreationKnown
  <2>8. \A a \in Creds : flow'[a].known => flow[a].known
    BY <2>3
  <2>9. \A e \in Completes \ {c} : HoldsFlow(e) => complete[e].of # q.of
    BY <2>1, <2>4
  <2>10. /\ q.of \in Creds /\ creation[q.of].oidc /\ creation[q.of].pc = "over"
         /\ AddingCred(q.of)
    BY <1>1, <2>1
  <2> QED BY <1>2, <2>1, <2>3, <2>5, <2>6, <2>7, <2>8, <2>9, <2>10, CompleteStepInv
<1>4. CASE CompleteAnswered(c) /\ UNCHANGED flow
  <2>1. PICK q \in CompleteRecords : /\ q.pc = "idle" /\ complete' = [complete EXCEPT ![c] = q]
                                     /\ complete'[c] = q
    BY <1>4, IdleComplete
  <2>2. \A e \in Completes \ {c} : complete'[e] = complete[e]
    BY <2>1 DEF CredInv, CredTyped
  <2>3. \A e \in Completes : CompleteKnown(e)'
    BY <1>2, <1>4, <2>1, <2>2 DEF CredInv, ExchangeInv, CompleteKnown
  <2>4. \A a \in Creds : FlowKnown(a)' /\ (creation[a].pc # "over" => flow'[a].once = "fresh")
    BY <1>2, <1>4 DEF CredInv, ExchangeInv, FlowKnown, CreationKnown
  <2>5. ~HoldsFlow(c)'
    BY <2>1 DEF HoldsFlow
  <2>6. flow' \in [Creds -> FlowRecords]
    BY <1>4 DEF CredInv, CredTyped
  <2> QED BY <1>2, <1>4, <2>1, <2>3, <2>4, <2>5, <2>6, CompleteStepInv
<1> QED BY <1>1, <1>3, <1>4 DEF EnterOnce

LEMMA DeviceAccessTokenInv ==
    ASSUME CredInv, NEW c \in Completes, DeviceAccessToken(c) PROVE CredInv'
<1>1. PICK b \in Creds : b = complete[c].of /\ creation[b].oidc /\ creation[b].pc = "over"
                         /\ AddingCred(b)
  BY CompleteUnderWay DEF DeviceAccessToken
<1>2. /\ UNCHANGED <<creation, remove, credRow, overlap, credRestarts>>
      /\ complete[c].pc = "exchange" /\ flow' = [flow EXCEPT ![b].once = "done"]
  BY <1>1 DEF DeviceAccessToken
<1>3. /\ flow' \in [Creds -> FlowRecords] /\ flow'[b].once = "done"
      /\ flow'[b].known = flow[b].known
      /\ \A a \in Creds \ {b} : flow'[a] = flow[a]
  BY <1>2 DEF CredInv, CredTyped, FlowRecords
<1>4. flow[b].once = "running" /\ exchanged[b] = 0 /\ credRow[b] = "none"
  <2>1. flow[b].once = "running"
    BY <1>1, <1>2 DEF CredInv, ExchangeInv, CompleteKnown
  <2>2. exchanged[b] = 0
    BY <2>1 DEF CredInv, ExchangeInv, FlowKnown
  <2> QED BY <1>1, <2>1, <2>2 DEF CredInv, ExchangeInv, FlowKnown
<1>5. PICK pc \in {"insert", "drop"} :
        /\ CompleteGoes(c, pc) /\ exchanged' \in [Creds -> Nat]
        /\ \A a \in Creds \ {b} : exchanged'[a] = exchanged[a]
        /\ exchanged'[b] \in {0, 1} /\ (pc = "insert" => exchanged'[b] = 1)
  <2>0. exchanged \in [Creds -> Nat]
    BY DEF CredInv, CredTyped
  <2>1. CASE CompleteGoes(c, "insert") /\ exchanged' = [exchanged EXCEPT ![b] = @ + 1]
    BY <1>4, <2>0, <2>1
  <2>2. CASE CompleteGoes(c, "drop") /\ UNCHANGED exchanged
    BY <1>4, <2>0, <2>2
  <2> QED BY <1>1, <2>1, <2>2 DEF DeviceAccessToken
<1>6. PICK q \in CompleteRecords : /\ q.pc = pc /\ q.of = b
                                   /\ complete' = [complete EXCEPT ![c] = q]
                                   /\ complete'[c] = q
  BY <1>1, <1>5, CompleteGoesOn
<1>7. complete' \in [Completes -> CompleteRecords]
      /\ \A e \in Completes \ {c} : complete'[e] = complete[e]
  BY <1>6 DEF CredInv, CredTyped
<1>8. ASSUME NEW e \in Completes \ {c}, HoldsFlow(e) PROVE complete[e].of # b
  BY <1>1, <1>2, <1>8 DEF CredInv, ExchangeInv, HoldsFlow
<1>9. CredTyped'
  BY <1>2, <1>3, <1>5, <1>7 DEF CredInv, CredTyped
<1>10. ExchangeInv'
  <2>1. \A a \in Creds : CreationKnown(a)'
    BY <1>1, <1>2, <1>3, <1>5 DEF CredInv, ExchangeInv, CreationKnown
  <2>2. \A a \in Creds : FlowKnown(a)'
    BY <1>2, <1>3, <1>4, <1>5 DEF CredInv, ExchangeInv, FlowKnown
  <2>3. \A e \in Completes : CompleteKnown(e)'
    <3>1. CompleteKnown(c)'
      BY <1>1, <1>2, <1>3, <1>4, <1>5, <1>6 DEF CompleteKnown
    <3>2. ASSUME NEW e \in Completes \ {c} PROVE CompleteKnown(e)'
      <4>1. CompleteKnown(e) /\ complete'[e] = complete[e]
        BY <1>7 DEF CredInv, ExchangeInv
      <4> QED BY <1>2, <1>3, <1>5, <1>8, <4>1 DEF CompleteKnown, HoldsFlow
    <3> QED BY <3>1, <3>2
  <2>4. \A d, e \in Completes :
          HoldsFlow(d)' /\ HoldsFlow(e)' /\ complete'[d].of = complete'[e].of => d = e
    BY <1>6, <1>7, <1>8 DEF CredInv, ExchangeInv, HoldsFlow
  <2> QED BY <2>1, <2>2, <2>3, <2>4 DEF ExchangeInv, HoldsFlow
<1>11. \A a \in Creds : AddingCred(a)' => AddingCred(a) /\ creation'[a].first = creation[a].first
  BY <1>1, <1>2, <1>3, <1>6, <1>7 DEF AddingCred
<1> QED BY <1>2, <1>9, <1>10, <1>11, RowsUntouched

LEMMA CompleteEndsInv == ASSUME CredInv, NEW c \in Completes, CompleteEnds(c) PROVE CredInv'
<1>1. PICK b \in Creds : b = complete[c].of
  BY CompleteUnderWay DEF CompleteEnds
<1>2. /\ UNCHANGED <<creation, remove, credRow, exchanged, overlap, credRestarts>>
      /\ CompleteAnswered(c) /\ DropFlow(b)
  BY <1>1 DEF CompleteEnds
<1>3. PICK q \in CompleteRecords : /\ q.pc = "idle" /\ complete' = [complete EXCEPT ![c] = q]
                                   /\ complete'[c] = q
  BY <1>2, IdleComplete
<1>4. \A e \in Completes \ {c} : complete'[e] = complete[e]
  BY <1>3 DEF CredInv, CredTyped
<1>5. /\ flow' \in [Creds -> FlowRecords]
      /\ \A a \in Creds : flow'[a].once = flow[a].once /\ (flow'[a].known => flow[a].known)
  BY <1>2, DropFlowKeeps
<1>6. \A e \in Completes : CompleteKnown(e)'
  BY <1>2, <1>3, <1>4, <1>5 DEF CredInv, ExchangeInv, CompleteKnown
<1>7. \A a \in Creds : FlowKnown(a)' /\ (creation[a].pc # "over" => flow'[a].once = "fresh")
  BY <1>2, <1>5 DEF CredInv, ExchangeInv, FlowKnown, CreationKnown
<1>8. ~HoldsFlow(c)'
  BY <1>3 DEF HoldsFlow
<1> QED BY <1>2, <1>3, <1>5, <1>6, <1>7, <1>8, CompleteStepInv

-----------------------------------------------------------------------------
(* Rows *)

\* The row of a binding on its way: it is inserted when nobody deletes, or something
\* has overlapped.
LEMMA InsertedRow ==
    ASSUME CredInv, NEW b \in Creds, AddingCred(b), credRow[b] = "none", InsertCred(b)
    PROVE  /\ credRow' \in [Creds -> {"none", "plain", "default"}] /\ overlap' \in BOOLEAN
           /\ \A a \in Creds \ {b} : credRow'[a] = credRow[a]
           /\ IsFiniteSet(BindingRows')
           /\ credRow'[b] = "none" => UNCHANGED <<credRow, overlap>>
           /\ credRow'[b] # "none" /\ ~overlap' =>
                 ~overlap /\ Removing = {} /\ \E a \in Creds : Default' = {a}
<1>1. credRow \in [Creds -> {"none", "plain", "default"}] /\ overlap \in BOOLEAN
      /\ IsFiniteSet(BindingRows)
  BY DEF CredInv, CredTyped
<1>2. CASE UNCHANGED <<credRow, overlap>>
  <2>1. BindingRows' = BindingRows
    BY <1>2 DEF BindingRows
  <2> QED BY <1>1, <1>2, <2>1
<1>3. CASE /\ creation[b].first => Default = {}
           /\ credRow' = [credRow EXCEPT ![b] = IF creation[b].first THEN "default" ELSE "plain"]
           /\ overlap' = (overlap \/ Removing # {})
  <2>1. PICK r \in {"default", "plain"} : r = IF creation[b].first THEN "default" ELSE "plain"
    OBVIOUS
  <2>2. /\ credRow' \in [Creds -> {"none", "plain", "default"}] /\ credRow'[b] = r
        /\ \A a \in Creds \ {b} : credRow'[a] = credRow[a]
    BY <1>1, <1>3, <2>1
  <2>3. BindingRows' = BindingRows \cup {b}
    BY <2>1, <2>2 DEF BindingRows
  <2>4. IsFiniteSet(BindingRows')
    BY <1>1, <2>3, FS_AddElement
  <2>5. ASSUME ~overlap' PROVE ~overlap /\ Removing = {} /\ \E a \in Creds : Default' = {a}
    <3>1. ~overlap /\ Removing = {}
      BY <1>3, <2>5
    <3>2. b \in Adding
      BY AddingMeans DEF CredInv, ExchangeInv
    <3>3. CASE creation[b].first
      <4>1. r = "default" /\ Default = {}
        BY <1>3, <2>1, <3>3
      <4>2. Default' = {b}
        BY <2>2, <4>1 DEF Default
      <4> QED BY <3>1, <4>2
    <3>4. CASE ~creation[b].first
      <4>1. BindingRows # {}
        BY <3>1, <3>2, <3>4 DEF CredInv, RowsInv
      <4>2. PICK a \in Creds : Default = {a}
        BY <3>1, <4>1 DEF CredInv, RowsInv
      <4>3. r = "plain" /\ a # b
        BY <2>1, <3>4, <4>2 DEF Default
      <4>4. Default' = {a}
        BY <2>2, <4>2, <4>3 DEF Default
      <4> QED BY <3>1, <4>4
    <3> QED BY <3>3, <3>4
  <2>6. overlap' \in BOOLEAN
    BY <1>3
  <2> QED BY <2>1, <2>2, <2>4, <2>5, <2>6
<1> QED BY <1>2, <1>3 DEF InsertCred

\* A step that inserts a row, if it does, and adds no binding that was not on its way.
LEMMA InsertKeepsInv ==
    ASSUME CredInv, NEW b \in Creds, AddingCred(b), credRow[b] = "none", InsertCred(b),
           CredTyped', ExchangeInv', remove' = remove,
           \A a \in Creds : AddingCred(a)' =>
               AddingCred(a) /\ creation'[a].first = creation[a].first
    PROVE  CredInv'
<1>1. /\ IsFiniteSet(BindingRows')
      /\ credRow'[b] = "none" => UNCHANGED <<credRow, overlap>>
      /\ credRow'[b] # "none" /\ ~overlap' =>
                 ~overlap /\ Removing = {} /\ \E a \in Creds : Default' = {a}
  BY InsertedRow
<1>2. CASE credRow'[b] = "none"
  BY <1>1, <1>2, RowsUntouched
<1>3. CASE credRow'[b] # "none"
  <2>1. BindingRows' # {}
    BY <1>3 DEF BindingRows
  <2>2. Removing = {} => \A d \in Removes : RemoveKnown(d)'
    BY DEF Removing, RemoveKnown
  <2>3. RowsInv'
    BY <1>1, <1>3, <2>1, <2>2 DEF RowsInv
  <2> QED BY <1>1, <2>3 DEF CredInv
<1> QED BY <1>2, <1>3

LEMMA InsertBindingInv == ASSUME CredInv, NEW b \in Creds, InsertBinding(b) PROVE CredInv'
<1>1. /\ creation[b].pc = "insert" /\ CreationGoes(b, "over") /\ InsertCred(b)
      /\ UNCHANGED <<flow, complete, remove, exchanged, credRestarts>>
  BY DEF InsertBinding
<1>2. /\ creation' \in [Creds -> CreationRecords] /\ creation'[b].pc = "over"
      /\ creation'[b].oidc = creation[b].oidc /\ creation'[b].first = creation[b].first
      /\ \A a \in Creds \ {b} : creation'[a] = creation[a]
  BY <1>1 DEF CreationGoes, CredInv, CredTyped, CreationRecords
<1>3. /\ credRow[b] = "none" /\ ~creation[b].oidc /\ AddingCred(b)
      /\ \A c \in Completes : complete[c].pc # "idle" => complete[c].of \in Creds \ {b}
  BY <1>1 DEF CredInv, ExchangeInv, CreationKnown, CompleteKnown, AddingCred
<1>4. /\ credRow' \in [Creds -> {"none", "plain", "default"}] /\ overlap' \in BOOLEAN
      /\ \A a \in Creds \ {b} : credRow'[a] = credRow[a]
  BY <1>1, <1>3, InsertedRow
<1>5. CredTyped'
  BY <1>1, <1>2, <1>4 DEF CredInv, CredTyped
<1>6. ExchangeInv'
  <2>1. \A a \in Creds : CreationKnown(a)' /\ FlowKnown(a)'
    BY <1>1, <1>2, <1>3, <1>4 DEF CredInv, ExchangeInv, CreationKnown, FlowKnown
  <2>2. \A c \in Completes : CompleteKnown(c)'
    BY <1>1, <1>2, <1>3, <1>4 DEF CredInv, ExchangeInv, CompleteKnown
  <2> QED BY <1>1, <2>1, <2>2 DEF CredInv, ExchangeInv, HoldsFlow
<1>7. \A a \in Creds : /\ AddingCred(a)' => AddingCred(a)
                       /\ creation'[a].first = creation[a].first
  BY <1>1, <1>2 DEF AddingCred
<1> QED BY <1>1, <1>3, <1>5, <1>6, <1>7, InsertKeepsInv

LEMMA CompleteInsertInv == ASSUME CredInv, NEW c \in Completes, CompleteInsert(c) PROVE CredInv'
<1>1. PICK b \in Creds : b = complete[c].of /\ creation[b].oidc /\ creation[b].pc = "over"
                         /\ AddingCred(b)
  BY CompleteUnderWay DEF CompleteInsert
<1>2. /\ UNCHANGED <<creation, remove, flow, exchanged, credRestarts>>
      /\ complete[c].pc = "insert" /\ InsertCred(b)
  BY <1>1 DEF CompleteInsert
<1>3. flow[b].once = "done" /\ exchanged[b] = 1 /\ credRow[b] = "none"
  BY <1>1, <1>2 DEF CredInv, ExchangeInv, CompleteKnown
<1>4. /\ credRow' \in [Creds -> {"none", "plain", "default"}] /\ overlap' \in BOOLEAN
      /\ \A a \in Creds \ {b} : credRow'[a] = credRow[a]
  BY <1>1, <1>2, <1>3, InsertedRow
<1>5. PICK q \in CompleteRecords : /\ q.pc \in {"idle", "drop"} /\ (q.pc = "drop" => q.of = b)
                                   /\ complete' = [complete EXCEPT ![c] = q]
                                   /\ complete'[c] = q
  <2>1. CASE CompleteGoes(c, "drop")
    BY <1>1, <2>1, CompleteGoesOn
  <2>2. CASE CompleteAnswered(c)
    BY <2>2, IdleComplete
  <2> QED BY <2>1, <2>2 DEF CompleteInsert
<1>6. /\ complete' \in [Completes -> CompleteRecords]
      /\ \A e \in Completes \ {c} : complete'[e] = complete[e]
  BY <1>5 DEF CredInv, CredTyped
<1>7. ASSUME NEW e \in Completes \ {c}, HoldsFlow(e) PROVE complete[e].of # b
  BY <1>1, <1>2, <1>7 DEF CredInv, ExchangeInv, HoldsFlow
<1>8. CredTyped'
  BY <1>2, <1>4, <1>6 DEF CredInv, CredTyped
<1>9. ExchangeInv'
  <2>1. \A a \in Creds : CreationKnown(a)' /\ FlowKnown(a)'
    BY <1>1, <1>2, <1>3, <1>4 DEF CredInv, ExchangeInv, CreationKnown, FlowKnown
  <2>2. \A e \in Completes : CompleteKnown(e)'
    <3>1. CompleteKnown(c)'
      BY <1>1, <1>2, <1>5 DEF CompleteKnown
    <3>2. ASSUME NEW e \in Completes \ {c} PROVE CompleteKnown(e)'
      <4>1. CompleteKnown(e) /\ complete'[e] = complete[e]
        BY <1>6 DEF CredInv, ExchangeInv
      <4> QED BY <1>2, <1>4, <1>7, <4>1 DEF CompleteKnown, HoldsFlow
    <3> QED BY <3>1, <3>2
  <2>3. \A d, e \in Completes :
          HoldsFlow(d)' /\ HoldsFlow(e)' /\ complete'[d].of = complete'[e].of => d = e
    BY <1>5, <1>6 DEF CredInv, ExchangeInv, HoldsFlow
  <2> QED BY <2>1, <2>2, <2>3 DEF ExchangeInv, HoldsFlow
<1>10. \A a \in Creds : AddingCred(a)' => AddingCred(a) /\ creation'[a].first = creation[a].first
  BY <1>1, <1>2, <1>5, <1>6 DEF AddingCred
<1> QED BY <1>1, <1>2, <1>3, <1>8, <1>9, <1>10, InsertKeepsInv

LEMMA DeleteCredentialBindingInv ==
    ASSUME CredInv, NEW d \in Removes, NEW b \in Creds, DeleteCredentialBinding(d, b)
    PROVE  CredInv'
<1>1. /\ credRow[b] # "none"
      /\ UNCHANGED <<creation, complete, credRow, flow, exchanged, overlap, credRestarts>>
  BY DEF DeleteCredentialBinding
<1>2. PICK pc \in {"count", "delete"} :
        pc = IF credRow[b] = "default" THEN "count" ELSE "delete"
  OBVIOUS
<1>3. PICK q : q = [pc |-> pc, of |-> b]
  OBVIOUS
<1>4. /\ q \in RemoveRecords /\ q.pc = pc /\ q.of = b
      /\ remove' = [remove EXCEPT ![d] = q]
  BY <1>2, <1>3 DEF DeleteCredentialBinding, RemoveRecords
<1>5. /\ remove' \in [Removes -> RemoveRecords] /\ remove'[d] = q
      /\ \A e \in Removes \ {d} : remove'[e] = remove[e]
  BY <1>4 DEF CredInv, CredTyped
<1>6. CredTyped' /\ ExchangeInv' /\ BindingRows' = BindingRows /\ Default' = Default
      /\ Adding' = Adding
  BY <1>1, <1>5 DEF CredInv, CredTyped, ExchangeInv, CreationKnown, FlowKnown, CompleteKnown,
     HoldsFlow, BindingRows, Default, Adding
<1>7. RemoveKnown(d)'
  <2>1. credRow[b] \in {"plain", "default"}
    BY <1>1 DEF CredInv, CredTyped
  <2> QED BY <1>1, <1>2, <1>4, <1>5, <2>1 DEF RemoveKnown
<1>8. RowsInv'
  <2> SUFFICES ASSUME ~overlap
               PROVE  /\ BindingRows # {} => \E a \in Creds : Default = {a}
                      /\ \A a \in Adding : creation[a].first \/ BindingRows # {}
                      /\ \A e \in Removes : RemoveKnown(e)'
    BY <1>1, <1>6 DEF RowsInv
  <2>1. ASSUME NEW e \in Removes \ {d} PROVE RemoveKnown(e)'
    <3>1. RemoveKnown(e)
      BY DEF CredInv, RowsInv
    <3> QED BY <1>1, <1>5, <1>6, <3>1 DEF RemoveKnown
  <2> QED BY <1>7, <2>1 DEF CredInv, RowsInv
<1>9. \A e \in Removes : remove'[e].pc # "idle" => remove'[e].of \in Creds
  BY <1>4, <1>5 DEF CredInv
<1> QED BY <1>6, <1>8, <1>9 DEF CredInv

LEMMA CountBindingsInv == ASSUME CredInv, NEW d \in Removes, CountBindings(d) PROVE CredInv'
<1>1. /\ remove[d].pc = "count" /\ remove[d].of \in Creds
      /\ UNCHANGED <<creation, complete, credRow, flow, exchanged, overlap, credRestarts>>
  BY DEF CountBindings, CredInv
<1>2. PICK b \in Creds : b = remove[d].of
  BY <1>1
<1>3. PICK q \in RemoveRecords :
        /\ remove' = [remove EXCEPT ![d] = q]
        /\ q.pc = "idle" \/ (q.pc = "delete" /\ q.of = b /\ ~(Cardinality(BindingRows) > 1))
  <2>1. CASE Cardinality(BindingRows) > 1
    <3>1. PICK q : q = [pc |-> "idle", of |-> NoCred]
      OBVIOUS
    <3>2. q \in RemoveRecords /\ q.pc = "idle" /\ remove' = [remove EXCEPT ![d] = q]
      BY <2>1, <3>1 DEF CountBindings, RemoveAnswered, RemoveRecords
    <3> QED BY <3>2
  <2>2. CASE ~(Cardinality(BindingRows) > 1)
    <3>1. PICK q : q = [remove[d] EXCEPT !.pc = "delete"]
      OBVIOUS
    <3>2. remove' = [remove EXCEPT ![d].pc = "delete"]
      BY <2>2 DEF CountBindings
    <3>3. /\ q \in RemoveRecords /\ q.pc = "delete" /\ q.of = b
          /\ remove' = [remove EXCEPT ![d] = q]
      BY <1>2, <3>1, <3>2 DEF RemoveRecords, CredInv, CredTyped
    <3> QED BY <2>2, <3>3
  <2> QED BY <2>1, <2>2
<1>4. /\ remove' \in [Removes -> RemoveRecords] /\ remove'[d] = q
      /\ \A e \in Removes \ {d} : remove'[e] = remove[e]
  BY <1>3 DEF CredInv, CredTyped
<1>5. CredTyped' /\ ExchangeInv' /\ BindingRows' = BindingRows /\ Default' = Default
      /\ Adding' = Adding
  BY <1>1, <1>4 DEF CredInv, CredTyped, ExchangeInv, CreationKnown, FlowKnown, CompleteKnown,
     HoldsFlow, BindingRows, Default, Adding
<1>6. ASSUME ~overlap PROVE RemoveKnown(d)'
  <2>1. CASE q.pc = "idle"
    BY <1>4, <2>1 DEF RemoveKnown
  <2>2. CASE q.pc = "delete" /\ q.of = b /\ ~(Cardinality(BindingRows) > 1)
    <3>1. b \in BindingRows
      BY <1>1, <1>2, <1>6 DEF CredInv, RowsInv, RemoveKnown, BindingRows
    <3>2. IsFiniteSet(BindingRows) /\ {b} \in SUBSET BindingRows
      BY <3>1 DEF CredInv
    <3>3. Cardinality({b}) = 1 /\ Cardinality(BindingRows) \in Nat
      BY <3>2, FS_Singleton, FS_CardinalityType
    <3>4. /\ Cardinality({b}) <= Cardinality(BindingRows)
          /\ Cardinality(BindingRows) = Cardinality({b}) => BindingRows = {b}
      BY <3>2, FS_Subset
    <3>5. BindingRows = {b}
      BY <2>2, <3>3, <3>4
    <3> QED BY <1>4, <1>5, <2>2, <3>5 DEF RemoveKnown
  <2> QED BY <1>3, <2>1, <2>2
<1>7. RowsInv'
  <2> SUFFICES ASSUME ~overlap
               PROVE  /\ BindingRows # {} => \E a \in Creds : Default = {a}
                      /\ \A a \in Adding : creation[a].first \/ BindingRows # {}
                      /\ \A e \in Removes : RemoveKnown(e)'
    BY <1>1, <1>5 DEF RowsInv
  <2>1. ASSUME NEW e \in Removes \ {d} PROVE RemoveKnown(e)'
    <3>1. RemoveKnown(e)
      BY DEF CredInv, RowsInv
    <3> QED BY <1>1, <1>4, <1>5, <3>1 DEF RemoveKnown
  <2> QED BY <1>6, <2>1 DEF CredInv, RowsInv
<1>8. \A e \in Removes : remove'[e].pc # "idle" => remove'[e].of \in Creds
  BY <1>3, <1>4 DEF CredInv
<1> QED BY <1>5, <1>7, <1>8 DEF CredInv

LEMMA DeleteRowInv == ASSUME CredInv, NEW d \in Removes, DeleteRow(d) PROVE CredInv'
<1>1. /\ remove[d].pc = "delete" /\ remove[d].of \in Creds
      /\ UNCHANGED <<creation, complete, flow, exchanged, credRestarts>>
      /\ overlap' = (overlap \/ Adding # {} \/ Removing # {d})
  BY DEF DeleteRow, CredInv
<1>2. PICK b \in Creds : b = remove[d].of
  BY <1>1
<1>3. PICK q : q = [pc |-> "idle", of |-> NoCred]
  OBVIOUS
<1>4. q \in RemoveRecords /\ q.pc = "idle" /\ remove' = [remove EXCEPT ![d] = q]
  BY <1>3 DEF DeleteRow, RemoveAnswered, RemoveRecords
<1>5. /\ remove' \in [Removes -> RemoveRecords] /\ remove'[d] = q
      /\ \A e \in Removes \ {d} : remove'[e] = remove[e]
  BY <1>4 DEF CredInv, CredTyped
<1>6. credRow' = [credRow EXCEPT ![b] = "none"]
  BY <1>2 DEF DeleteRow
<1>7. /\ credRow' \in [Creds -> {"none", "plain", "default"}] /\ credRow'[b] = "none"
      /\ \A a \in Creds \ {b} : credRow'[a] = credRow[a]
  BY <1>6 DEF CredInv, CredTyped
<1>8. overlap' \in BOOLEAN
  BY <1>1
<1>9. CredTyped'
  BY <1>1, <1>5, <1>7, <1>8 DEF CredInv, CredTyped
<1>10. ExchangeInv'
  <2>1. \A a \in Creds : CreationKnown(a)' /\ FlowKnown(a)'
    BY <1>1, <1>7 DEF CredInv, ExchangeInv, CreationKnown, FlowKnown
  <2>2. \A c \in Completes : CompleteKnown(c)'
    BY <1>1, <1>7 DEF CredInv, ExchangeInv, CompleteKnown
  <2> QED BY <1>1, <2>1, <2>2 DEF CredInv, ExchangeInv, HoldsFlow
<1>11. BindingRows' = BindingRows \ {b} /\ Default' = Default \ {b}
  BY <1>7 DEF BindingRows, Default
<1>12. IsFiniteSet(BindingRows')
  BY <1>11, FS_RemoveElement DEF CredInv
<1>13. RowsInv'
  <2> SUFFICES ASSUME ~overlap'
               PROVE  /\ BindingRows' # {} => \E a \in Creds : Default' = {a}
                      /\ \A a \in Adding' : creation'[a].first \/ BindingRows' # {}
                      /\ \A e \in Removes : RemoveKnown(e)'
    BY DEF RowsInv
  <2>1. ~overlap /\ Adding = {} /\ Removing = {d}
    BY <1>1
  <2>2. Adding' = {}
    BY <1>1, <2>1 DEF Adding
  <2>3. \A e \in Removes : remove'[e].pc = "idle"
    BY <1>4, <1>5, <2>1 DEF Removing
  <2>4. \A e \in Removes : RemoveKnown(e)'
    BY <2>3 DEF RemoveKnown
  <2>5. credRow[b] = "plain" \/ BindingRows = {b}
    BY <1>1, <1>2, <2>1 DEF CredInv, RowsInv, RemoveKnown
  <2>6. ASSUME BindingRows' # {} PROVE \E a \in Creds : Default' = {a}
    <3>1. BindingRows # {} /\ credRow[b] = "plain"
      BY <1>11, <2>5, <2>6
    <3>2. PICK a \in Creds : Default = {a}
      BY <2>1, <3>1 DEF CredInv, RowsInv
    <3>3. b \notin Default
      BY <3>1 DEF Default
    <3> QED BY <1>11, <3>2, <3>3
  <2> QED BY <2>2, <2>4, <2>6
<1>14. \A e \in Removes : remove'[e].pc # "idle" => remove'[e].of \in Creds
  BY <1>4, <1>5 DEF CredInv
<1> QED BY <1>9, <1>10, <1>12, <1>13, <1>14 DEF CredInv

LEMMA SetDefaultInv ==
    ASSUME CredInv, NEW b \in Creds, SetCredentialBindingDefault(b) PROVE CredInv'
<1>1. /\ UNCHANGED <<creation, complete, remove, flow, exchanged, credRestarts>>
      /\ credRow[b] # "none" /\ overlap' = (overlap \/ Removing # {})
      /\ credRow' = [a \in Creds |-> IF credRow[a] = "none" THEN "none"
                               ELSE IF a = b THEN "default" ELSE "plain"]
  BY DEF SetCredentialBindingDefault, callVars
<1>2. /\ credRow' \in [Creds -> {"none", "plain", "default"}]
      /\ \A a \in Creds : /\ credRow'[a] = "none" <=> credRow[a] = "none"
                          /\ credRow'[a] = "default" <=> a = b
  BY <1>1
<1>3. overlap' \in BOOLEAN
  BY <1>1
<1>4. CredTyped'
  BY <1>1, <1>2, <1>3 DEF CredInv, CredTyped
<1>5. ExchangeInv'
  BY <1>1, <1>2 DEF CredInv, ExchangeInv, CreationKnown, FlowKnown, CompleteKnown, HoldsFlow
<1>6. BindingRows' = BindingRows /\ Default' = {b} /\ Adding' = Adding
  BY <1>1, <1>2 DEF BindingRows, Default, Adding
<1>7. RowsInv'
  <2> SUFFICES ASSUME ~overlap'
               PROVE  /\ BindingRows' # {} => \E a \in Creds : Default' = {a}
                      /\ \A a \in Adding' : creation'[a].first \/ BindingRows' # {}
                      /\ \A e \in Removes : RemoveKnown(e)'
    BY DEF RowsInv
  <2>1. ~overlap /\ Removing = {}
    BY <1>1
  <2>2. \A e \in Removes : RemoveKnown(e)'
    BY <1>1, <2>1 DEF Removing, RemoveKnown
  <2> QED BY <1>1, <1>6, <2>1, <2>2 DEF CredInv, RowsInv
<1> QED BY <1>1, <1>4, <1>5, <1>6, <1>7 DEF CredInv

LEMMA CredRestartInv == ASSUME CredInv, CredRestart PROVE CredInv'
<1>1. /\ UNCHANGED <<credRow, exchanged, overlap>> /\ credRestarts' = credRestarts + 1
      /\ flow' = [b \in Creds |-> [flow[b] EXCEPT !.known = FALSE]]
      /\ creation' = [b \in Creds |-> IF creation[b].pc = "none" THEN NoCreation
                                      ELSE [creation[b] EXCEPT !.pc = "over"]]
      /\ complete' = [c \in Completes |-> [pc |-> "idle", of |-> NoCred]]
      /\ remove' = [d \in Removes |-> [pc |-> "idle", of |-> NoCred]]
  BY DEF CredRestart
<1>2. /\ flow' \in [Creds -> FlowRecords]
      /\ \A b \in Creds : flow'[b].once = flow[b].once /\ ~flow'[b].known
  BY <1>1 DEF CredInv, CredTyped, FlowRecords
<1>3. ASSUME NEW b \in Creds
      PROVE  /\ creation'[b] \in CreationRecords
             /\ creation'[b].pc = IF creation[b].pc = "none" THEN "none" ELSE "over"
             /\ creation'[b].oidc => creation[b].oidc
  <2>1. creation[b] \in CreationRecords
    BY DEF CredInv, CredTyped
  <2>2. CASE creation[b].pc = "none"
    BY <1>1, <2>2 DEF NoCreation, CreationRecords
  <2>3. CASE creation[b].pc # "none"
    BY <1>1, <2>1, <2>3 DEF CreationRecords
  <2> QED BY <2>2, <2>3
<1>4. /\ complete' \in [Completes -> CompleteRecords] /\ remove' \in [Removes -> RemoveRecords]
      /\ \A c \in Completes : complete'[c].pc = "idle"
      /\ \A d \in Removes : remove'[d].pc = "idle"
  BY <1>1 DEF CompleteRecords, RemoveRecords
<1>5. creation' \in [Creds -> CreationRecords]
  BY <1>1, <1>3
<1>6. credRestarts' \in Nat
  BY <1>1 DEF CredInv, CredTyped
<1>7. CredTyped'
  BY <1>1, <1>2, <1>4, <1>5, <1>6 DEF CredInv, CredTyped
<1>8. ExchangeInv'
  <2>1. ASSUME NEW b \in Creds PROVE CreationKnown(b)'
    <3>1. CreationKnown(b)
      BY DEF CredInv, ExchangeInv
    <3>2. /\ credRow'[b] = credRow[b] /\ exchanged'[b] = exchanged[b]
          /\ flow'[b].once = flow[b].once /\ ~flow'[b].known
          /\ creation'[b].pc \in {"none", "over"}
          /\ creation'[b].pc = "none" => creation[b].pc = "none"
      <4>1. credRow'[b] = credRow[b] /\ exchanged'[b] = exchanged[b]
        BY <1>1
      <4>2. flow'[b].once = flow[b].once /\ ~flow'[b].known
        BY <1>2
      <4>3. creation'[b].pc = IF creation[b].pc = "none" THEN "none" ELSE "over"
        BY <1>3
      <4> QED BY <4>1, <4>2, <4>3
    <3> QED BY <3>1, <3>2, <1>3 DEF CreationKnown
  <2>2. \A b \in Creds : FlowKnown(b)'
    BY <1>1, <1>2, <1>3 DEF CredInv, ExchangeInv, FlowKnown
  <2> QED BY <1>4, <2>1, <2>2 DEF ExchangeInv, CompleteKnown, HoldsFlow
<1>9. \A b \in Creds : ~AddingCred(b)'
  BY <1>2, <1>3, <1>4 DEF AddingCred
<1> QED BY <1>1, <1>4, <1>7, <1>8, <1>9, RowsUntouched

LEMMA CredNextInv == CredInv /\ [CredNext]_credVars => CredInv'
<1> SUFFICES ASSUME CredInv, [CredNext]_credVars PROVE CredInv'
  OBVIOUS
<1>1. CASE UNCHANGED credVars
  <2>1. CredTyped' /\ ExchangeInv'
    BY <1>1 DEF credVars, CredInv, CredTyped, ExchangeInv, CreationKnown, FlowKnown,
       CompleteKnown, HoldsFlow
  <2>2. \A b \in Creds : AddingCred(b)' => AddingCred(b) /\ creation'[b].first = creation[b].first
    BY <1>1 DEF credVars, AddingCred
  <2> QED BY <1>1, <2>1, <2>2, RowsUntouched DEF credVars
<1>2. CASE CredNext
  BY <1>2, CreateInv, CreateOIDCInv, InsertBindingInv, FlowAgesInv, SetDefaultInv,
     DeviceCodeCompleteInv, DeleteCredentialBindingInv, EnterOnceInv, DeviceAccessTokenInv,
     CompleteInsertInv, CompleteEndsInv, CountBindingsInv, DeleteRowInv, CredRestartInv
     DEF CredNext
<1> QED BY <1>1, <1>2

\* For any number of bindings and calls: creations, rows, flows and calls are always of
\* their types.
THEOREM CredAlwaysTyped == CredSpec => []CredTypeOK
<1>1. CredInv => CredTypeOK
  BY DEF CredInv, CredTyped, CredTypeOK, CreationRecords, FlowRecords, CompleteRecords,
     RemoveRecords
<1> QED BY <1>1, CredInitInv, CredNextInv, PTL DEF CredSpec

\* For any number of bindings and calls: as long as no DELETE overlaps with another
\* call a workspace that has credentials has one default among them, and a device code
\* is exchanged once.
THEOREM CredentialsAlwaysKept == CredSpec => []CredentialsKept
<1>1. CredInv => CredentialsKept
  <2> SUFFICES ASSUME CredInv PROVE CredentialsKept
    OBVIOUS
  <2>1. ExchangedOnce
    BY DEF CredInv, ExchangeInv, FlowKnown, ExchangedOnce
  <2>2. KubeconfigKept
    <3> SUFFICES ASSUME ~overlap, BindingRows # {}
                 PROVE  /\ BuildMergedKubeconfig.current \in BuildMergedKubeconfig.contexts
                        /\ Cardinality(Default) = 1
      BY DEF KubeconfigKept, BuildCredentialConfig
    <3>1. PICK b \in Creds : Default = {b}
      BY DEF CredInv, RowsInv
    <3>2. Cardinality(Default) = 1
      BY <3>1, FS_Singleton
    <3>3. BuildMergedKubeconfig.current = CHOOSE a \in Default : TRUE
      BY <3>1 DEF BuildMergedKubeconfig
    <3>4. BuildMergedKubeconfig.current = b
      BY <3>1, <3>3
    <3>5. b \in BindingRows
      BY <3>1 DEF Default, BindingRows
    <3> QED BY <3>2, <3>4, <3>5 DEF BuildMergedKubeconfig
  <2> QED BY <2>1, <2>2 DEF CredentialsKept
<1> QED BY <1>1, CredInitInv, CredNextInv, PTL DEF CredSpec

-----------------------------------------------------------------------------
(* Tokens of a binding *)

RefreshSteps == {"none", "asks", "answered", "refused"}
KubectlSteps == {"idle", "bearer", "join", "wait", "served", "failed"}

\* The refresh token that the proxy has, or is about to have.
KeptToken ==
    IF refresh.state = "answered" THEN refresh.new
    ELSE IF access.refresh > 0 THEN access.refresh ELSE Stored

BindingTyped ==
    /\ issuer \in [rotates : BOOLEAN, good : Nat, revoked : BOOLEAN]
    /\ access \in [refresh : Nat, good : BOOLEAN]
    /\ kubectl \in [Kubectls -> [pc : KubectlSteps, saw : Nat]]
    /\ refresh \in [state : RefreshSteps, with : Nat, new : Nat]
    /\ forgotten \in BOOLEAN /\ bought \in 0..MaxRefreshes /\ proxyRestarts \in Nat
    /\ refresh.state = "none" => Waiting = {}

\* Each purchase makes one token at most, and the proxy knows no others.
TokensBought ==
    /\ issuer.good \in 1..(bought + 1)
    /\ access.refresh <= bought + 1
    /\ refresh.state = "answered" => refresh.new \in 1..(bought + 1)

\* Without rotation there is one refresh token.
OneToken ==
    ~issuer.rotates => /\ issuer.good = Stored /\ access.refresh \in {0, Stored}
                       /\ refresh.state = "answered" => refresh.new = Stored

\* While nothing is forgotten the proxy has the good token, and asks with it.
GoodIsKept ==
    ~forgotten => /\ ~issuer.revoked /\ issuer.good = KeptToken
                  /\ refresh.state = "asks" => refresh.with = issuer.good

BindingInv == BindingTyped /\ TokensBought /\ OneToken /\ GoodIsKept

LEMMA BindingInitInv == BindingInit => BindingInv
<1> SUFFICES ASSUME BindingInit PROVE BindingInv
  OBVIOUS
<1>1. PICK r \in BOOLEAN : issuer = [rotates |-> r, good |-> Stored, revoked |-> FALSE]
  BY BindingTokensAssumption DEF BindingInit
<1>2. /\ issuer \in [rotates : BOOLEAN, good : Nat, revoked : BOOLEAN]
      /\ issuer.good = 1 /\ issuer.revoked = FALSE
  BY <1>1 DEF Stored
<1>3. /\ access \in [refresh : Nat, good : BOOLEAN] /\ access.refresh = 0
      /\ refresh \in [state : RefreshSteps, with : Nat, new : Nat] /\ refresh.state = "none"
  BY DEF BindingInit, NoRefresh, RefreshSteps
<1>4. /\ kubectl \in [Kubectls -> [pc : KubectlSteps, saw : Nat]]
      /\ \A k \in Kubectls : kubectl[k].pc = "idle"
  BY DEF BindingInit, NoKubectl, KubectlSteps
<1>5. Waiting = {}
  BY <1>4 DEF Waiting, KubectlAt
<1>6. BindingTyped
  <2>1. forgotten = FALSE /\ bought = 0 /\ proxyRestarts = 0
    BY DEF BindingInit
  <2>2. forgotten \in BOOLEAN /\ proxyRestarts \in Nat
    BY <2>1
  <2>3. bought \in 0..MaxRefreshes
    BY <2>1, BindingTokensAssumption
  <2> QED BY <1>2, <1>3, <1>4, <1>5, <2>2, <2>3 DEF BindingTyped
<1>7. TokensBought /\ OneToken /\ GoodIsKept
  BY <1>2, <1>3 DEF BindingInit, TokensBought, OneToken, GoodIsKept, KeptToken, Stored
<1> QED BY <1>6, <1>7 DEF BindingInv

\* A request that takes a step for itself, and does not begin to wait.
LEMMA KubectlStepInv ==
    ASSUME BindingInv, NEW k \in Kubectls, NEW q \in [pc : KubectlSteps, saw : Nat],
           q.pc # "wait", kubectl' = [kubectl EXCEPT ![k] = q],
           UNCHANGED <<issuer, access, refresh, forgotten, bought, proxyRestarts>>
    PROVE  BindingInv'
<1>1. kubectl' \in [Kubectls -> [pc : KubectlSteps, saw : Nat]]
  BY DEF BindingInv, BindingTyped
<1>2. Waiting' \subseteq Waiting
  BY DEF BindingInv, BindingTyped, Waiting, KubectlAt
<1>3. BindingTyped'
  BY <1>1, <1>2 DEF BindingInv, BindingTyped
<1> QED BY <1>3 DEF BindingInv, TokensBought, OneToken, GoodIsKept, KeptToken

LEMMA JoinRefreshInv ==
    ASSUME BindingInv, NEW k \in Kubectls, JoinRefresh(k) PROVE BindingInv'
<1>1. UNCHANGED <<issuer, access, forgotten, bought, proxyRestarts>>
  BY DEF JoinRefresh
<1>2. kubectl' \in [Kubectls -> [pc : KubectlSteps, saw : Nat]]
  BY DEF JoinRefresh, BindingInv, BindingTyped, KubectlSteps
<1>3. /\ refresh' \in [state : RefreshSteps, with : Nat, new : Nat] /\ refresh'.state # "none"
      /\ refresh' = refresh \/ (/\ refresh.state = "none" /\ refresh'.state = "asks"
                                /\ refresh'.with = KeptToken)
  <2>1. CASE refresh.state # "none"
    BY <2>1 DEF JoinRefresh, BindingInv, BindingTyped
  <2>2. CASE refresh.state = "none"
    <3>1. PICK w \in Nat : w = IF access.refresh > 0 THEN access.refresh ELSE Stored
      BY DEF BindingInv, BindingTyped, Stored
    <3>2. w = KeptToken
      BY <2>2, <3>1 DEF KeptToken
    <3>3. refresh' = [NoRefresh EXCEPT !.state = "asks", !.with = w]
      BY <2>2, <3>1 DEF JoinRefresh
    <3> QED BY <2>2, <3>2, <3>3 DEF NoRefresh, RefreshSteps
  <2> QED BY <2>1, <2>2
<1>4. BindingTyped'
  BY <1>1, <1>2, <1>3 DEF BindingInv, BindingTyped
<1>5. TokensBought'
  BY <1>1, <1>3 DEF BindingInv, TokensBought
<1>6. OneToken'
  BY <1>1, <1>3 DEF BindingInv, OneToken
<1>7. KeptToken' = KeptToken
  BY <1>1, <1>3 DEF KeptToken
<1>8. GoodIsKept'
  BY <1>1, <1>3, <1>7 DEF BindingInv, GoodIsKept
<1> QED BY <1>4, <1>5, <1>6, <1>8 DEF BindingInv

LEMMA IssuerRefreshesInv == ASSUME BindingInv, IssuerRefreshes PROVE BindingInv'
<1>1. /\ UNCHANGED <<access, kubectl, forgotten, proxyRestarts>>
      /\ refresh.state = "asks" /\ bought < MaxRefreshes /\ MaxRefreshes \in Nat
  BY BindingTokensAssumption DEF IssuerRefreshes
<1>2. /\ issuer \in [rotates : BOOLEAN, good : Nat, revoked : BOOLEAN] /\ bought \in Nat
      /\ refresh \in [state : RefreshSteps, with : Nat, new : Nat]
      /\ access \in [refresh : Nat, good : BOOLEAN] /\ issuer.good \in 1..(bought + 1)
      /\ access.refresh <= bought + 1
  BY <1>1 DEF BindingInv, BindingTyped, TokensBought
<1>w. Waiting' = Waiting
  BY <1>1 DEF Waiting, KubectlAt
<1>3. CASE refresh.with = issuer.good /\ ~issuer.revoked
  <2>1. PICK new \in Nat : new = IF issuer.rotates THEN issuer.good + 1 ELSE issuer.good
    BY <1>2
  <2>2. /\ issuer' = [issuer EXCEPT !.good = new]
        /\ refresh' = [refresh EXCEPT !.state = "answered", !.new = new]
        /\ bought' = bought + 1
    BY <1>3, <2>1 DEF IssuerRefreshes
  <2>3. new \in 1..(bought + 2) /\ (~issuer.rotates => new = issuer.good)
    BY <1>2, <2>1
  <2>4. /\ issuer' \in [rotates : BOOLEAN, good : Nat, revoked : BOOLEAN]
        /\ issuer'.good = new /\ issuer'.rotates = issuer.rotates
        /\ issuer'.revoked = issuer.revoked
    BY <1>2, <2>2
  <2>5. /\ refresh' \in [state : RefreshSteps, with : Nat, new : Nat]
        /\ refresh'.state = "answered" /\ refresh'.new = new
    BY <1>2, <2>2 DEF RefreshSteps
  <2>6. BindingTyped'
    BY <1>1, <1>2, <1>w, <2>2, <2>4, <2>5 DEF BindingInv, BindingTyped
  <2>7. TokensBought'
    BY <1>1, <1>2, <2>2, <2>3, <2>4, <2>5 DEF TokensBought
  <2>8. OneToken'
    BY <1>1, <2>3, <2>4, <2>5 DEF BindingInv, OneToken
  <2>9. GoodIsKept'
    BY <1>1, <1>3, <2>4, <2>5 DEF GoodIsKept, KeptToken
  <2> QED BY <2>6, <2>7, <2>8, <2>9 DEF BindingInv
<1>4. CASE ~(refresh.with = issuer.good /\ ~issuer.revoked)
  <2>1. /\ issuer' = [issuer EXCEPT !.revoked = TRUE]
        /\ refresh' = [refresh EXCEPT !.state = "refused"]
        /\ UNCHANGED bought
    BY <1>4 DEF IssuerRefreshes
  <2>2. /\ issuer' \in [rotates : BOOLEAN, good : Nat, revoked : BOOLEAN]
        /\ issuer'.good = issuer.good /\ issuer'.rotates = issuer.rotates
    BY <1>2, <2>1
  <2>3. /\ refresh' \in [state : RefreshSteps, with : Nat, new : Nat]
        /\ refresh'.state = "refused"
    BY <1>2, <2>1 DEF RefreshSteps
  <2>4. forgotten
    BY <1>1, <1>4 DEF BindingInv, GoodIsKept
  <2>5. BindingTyped'
    BY <1>1, <1>w, <2>1, <2>2, <2>3 DEF BindingInv, BindingTyped
  <2>6. TokensBought' /\ OneToken' /\ GoodIsKept'
    BY <1>1, <2>1, <2>2, <2>3, <2>4 DEF BindingInv, TokensBought, OneToken, GoodIsKept
  <2> QED BY <2>5, <2>6 DEF BindingInv
<1> QED BY <1>3, <1>4

\* Those that wait for a refresh go on, and it is over.
LEMMA RefreshOverTyped ==
    ASSUME BindingInv, NEW pc \in KubectlSteps \ {"wait"}, RefreshOver(pc)
    PROVE  /\ kubectl' \in [Kubectls -> [pc : KubectlSteps, saw : Nat]]
           /\ refresh' \in [state : RefreshSteps, with : Nat, new : Nat]
           /\ refresh'.state = "none" /\ Waiting' = {}
<1>1. kubectl \in [Kubectls -> [pc : KubectlSteps, saw : Nat]]
  BY DEF BindingInv, BindingTyped
<1>2. ASSUME NEW k \in Kubectls
      PROVE  kubectl'[k] \in [pc : KubectlSteps, saw : Nat] /\ kubectl'[k].pc # "wait"
  <2>1. CASE k \in Waiting
    <3>1. kubectl'[k] = [kubectl[k] EXCEPT !.pc = pc]
      BY <2>1 DEF RefreshOver
    <3> QED BY <1>1, <3>1
  <2>2. CASE k \notin Waiting
    BY <1>1, <2>2 DEF RefreshOver, Waiting, KubectlAt
  <2> QED BY <2>1, <2>2
<1>3. kubectl' \in [Kubectls -> [pc : KubectlSteps, saw : Nat]]
  BY <1>2 DEF RefreshOver
<1> QED BY <1>2, <1>3 DEF RefreshOver, NoRefresh, RefreshSteps, Waiting, KubectlAt

LEMMA DoOIDCRefreshInv == ASSUME BindingInv, DoOIDCRefresh PROVE BindingInv'
<1>1. /\ UNCHANGED <<issuer, forgotten, bought, proxyRestarts>>
      /\ refresh.state = "answered" /\ RefreshOver("served")
      /\ access' = [refresh |-> refresh.new, good |-> TRUE]
  BY DEF DoOIDCRefresh
<1>2. /\ kubectl' \in [Kubectls -> [pc : KubectlSteps, saw : Nat]]
      /\ refresh' \in [state : RefreshSteps, with : Nat, new : Nat]
      /\ refresh'.state = "none" /\ Waiting' = {}
  BY <1>1, RefreshOverTyped DEF KubectlSteps
<1>3. /\ access' \in [refresh : Nat, good : BOOLEAN] /\ access'.refresh = refresh.new
  BY <1>1 DEF BindingInv, BindingTyped
<1>4. refresh.new \in 1..(bought + 1) /\ bought \in Nat
  BY <1>1, BindingTokensAssumption DEF BindingInv, BindingTyped, TokensBought
<1>5. BindingTyped'
  BY <1>1, <1>2, <1>3 DEF BindingInv, BindingTyped
<1>6. TokensBought'
  BY <1>1, <1>2, <1>3, <1>4 DEF BindingInv, TokensBought
<1>7. OneToken'
  BY <1>1, <1>2, <1>3 DEF BindingInv, OneToken
<1>8. GoodIsKept'
  BY <1>1, <1>2, <1>3, <1>4 DEF BindingInv, GoodIsKept, KeptToken
<1> QED BY <1>5, <1>6, <1>7, <1>8 DEF BindingInv

LEMMA OIDCRefreshFailsInv == ASSUME BindingInv, OIDCRefreshFails PROVE BindingInv'
<1>1. /\ UNCHANGED <<issuer, access, bought, proxyRestarts>>
      /\ RefreshOver("failed")
      /\ forgotten' = (forgotten \/ (refresh.state = "answered" /\ issuer.rotates))
  BY DEF OIDCRefreshFails
<1>2. /\ kubectl' \in [Kubectls -> [pc : KubectlSteps, saw : Nat]]
      /\ refresh' \in [state : RefreshSteps, with : Nat, new : Nat]
      /\ refresh'.state = "none" /\ Waiting' = {}
  BY <1>1, RefreshOverTyped DEF KubectlSteps
<1>3. forgotten' \in BOOLEAN
  BY <1>1
<1>4. BindingTyped'
  BY <1>1, <1>2, <1>3 DEF BindingInv, BindingTyped
<1>5. TokensBought' /\ OneToken'
  BY <1>1, <1>2 DEF BindingInv, TokensBought, OneToken
<1>6. GoodIsKept'
  <2> SUFFICES ASSUME ~forgotten' PROVE ~issuer.revoked /\ issuer.good = KeptToken'
    BY <1>1, <1>2 DEF GoodIsKept
  <2>1. ~forgotten /\ (refresh.state # "answered" \/ ~issuer.rotates)
    BY <1>1
  <2>2. ~issuer.revoked /\ issuer.good = KeptToken
    BY <2>1 DEF BindingInv, GoodIsKept
  <2>3. KeptToken' = IF access.refresh > 0 THEN access.refresh ELSE Stored
    BY <1>1, <1>2 DEF KeptToken
  <2>4. CASE refresh.state # "answered"
    BY <2>2, <2>3, <2>4 DEF KeptToken
  <2>5. CASE ~issuer.rotates
    BY <2>2, <2>3, <2>5 DEF BindingInv, OneToken, Stored
  <2> QED BY <2>1, <2>2, <2>4, <2>5
<1> QED BY <1>4, <1>5, <1>6 DEF BindingInv

LEMMA AccessExpiresInv == ASSUME BindingInv, AccessExpires PROVE BindingInv'
<1>1. /\ UNCHANGED <<issuer, kubectl, refresh, forgotten, bought, proxyRestarts>>
      /\ access' \in [refresh : Nat, good : BOOLEAN] /\ access'.refresh = access.refresh
  BY DEF AccessExpires, BindingInv, BindingTyped
<1>2. Waiting' = Waiting /\ KeptToken' = KeptToken
  BY <1>1 DEF Waiting, KubectlAt, KeptToken
<1>3. BindingTyped'
  BY <1>1, <1>2 DEF BindingInv, BindingTyped
<1> QED BY <1>1, <1>2, <1>3 DEF BindingInv, TokensBought, OneToken, GoodIsKept

LEMMA ProxyRestartsInv == ASSUME BindingInv, ProxyRestarts PROVE BindingInv'
<1>1. /\ UNCHANGED <<issuer, bought>> /\ proxyRestarts' = proxyRestarts + 1
      /\ access' = [refresh |-> 0, good |-> FALSE]
      /\ kubectl' = [k \in Kubectls |-> NoKubectl] /\ refresh' = NoRefresh
      /\ forgotten' = (forgotten \/ issuer.good # Stored)
  BY DEF ProxyRestarts
<1>2. /\ access' \in [refresh : Nat, good : BOOLEAN] /\ access'.refresh = 0
      /\ refresh' \in [state : RefreshSteps, with : Nat, new : Nat] /\ refresh'.state = "none"
  BY <1>1 DEF NoRefresh, RefreshSteps
<1>3. /\ kubectl' \in [Kubectls -> [pc : KubectlSteps, saw : Nat]] /\ Waiting' = {}
  BY <1>1 DEF NoKubectl, KubectlSteps, Waiting, KubectlAt
<1>4. forgotten' \in BOOLEAN
  BY <1>1
<1>5. BindingTyped'
  BY <1>1, <1>2, <1>3, <1>4 DEF BindingInv, BindingTyped
<1>6. bought \in Nat
  BY BindingTokensAssumption DEF BindingInv, BindingTyped
<1>7. TokensBought' /\ OneToken'
  BY <1>1, <1>2, <1>6 DEF BindingInv, TokensBought, OneToken
<1>8. KeptToken' = Stored
  BY <1>2 DEF KeptToken
<1>9. GoodIsKept'
  BY <1>1, <1>2, <1>8 DEF BindingInv, GoodIsKept
<1> QED BY <1>5, <1>7, <1>9 DEF BindingInv

LEMMA BindingNextInv == BindingInv /\ [BindingNext]_bindingVars => BindingInv'
<1> SUFFICES ASSUME BindingInv, [BindingNext]_bindingVars PROVE BindingInv'
  OBVIOUS
<1>k. ASSUME NEW k \in Kubectls
      PROVE  kubectl \in [Kubectls -> [pc : KubectlSteps, saw : Nat]] /\ access.refresh \in Nat
  BY DEF BindingInv, BindingTyped
<1>1. ASSUME NEW k \in Kubectls, HandleCredProxy(k) PROVE BindingInv'
  <2>1. PICK q : q = [kubectl[k] EXCEPT !.pc = "bearer"]
    OBVIOUS
  <2>2. q \in [pc : KubectlSteps, saw : Nat] /\ q.pc = "bearer"
    BY <1>k, <2>1 DEF KubectlSteps
  <2>3. kubectl' = [kubectl EXCEPT ![k] = q]
    BY <1>1, <2>1 DEF HandleCredProxy
  <2> QED BY <1>1, <2>2, <2>3, KubectlStepInv DEF HandleCredProxy
<1>2. ASSUME NEW k \in Kubectls, GetOIDCBearerToken(k) PROVE BindingInv'
  <2>1. PICK q : q = [pc |-> IF access.good THEN "served" ELSE "join", saw |-> access.refresh]
    OBVIOUS
  <2>2. q \in [pc : KubectlSteps, saw : Nat] /\ q.pc # "wait"
    BY <1>k, <2>1 DEF KubectlSteps
  <2>3. kubectl' = [kubectl EXCEPT ![k] = q]
    BY <1>2, <2>1 DEF GetOIDCBearerToken
  <2> QED BY <1>2, <2>2, <2>3, KubectlStepInv DEF GetOIDCBearerToken
<1>3. ASSUME NEW k \in Kubectls, KubectlAnswered(k) PROVE BindingInv'
  <2>1. NoKubectl \in [pc : KubectlSteps, saw : Nat] /\ NoKubectl.pc # "wait"
    BY DEF NoKubectl, KubectlSteps
  <2> QED BY <1>3, <2>1, KubectlStepInv DEF KubectlAnswered
<1>4. CASE UNCHANGED bindingVars
  BY <1>4 DEF bindingVars, BindingInv, BindingTyped, TokensBought, OneToken, GoodIsKept,
     KeptToken, Waiting, KubectlAt
<1> QED BY <1>1, <1>2, <1>3, <1>4, JoinRefreshInv, IssuerRefreshesInv, DoOIDCRefreshInv,
           OIDCRefreshFailsInv, AccessExpiresInv, ProxyRestartsInv DEF BindingNext

\* For any number of requests: requests, refreshes and the cache are always of their
\* types, and none waits for a refresh that is not under way.
THEOREM BindingAlwaysTyped == BindingSpec => []BindingTypeOK
<1>1. BindingInv => BindingTypeOK
  <2> SUFFICES ASSUME BindingInv PROVE BindingTypeOK
    OBVIOUS
  <2>1. access.refresh \in 0..(MaxRefreshes + 1)
    BY BindingTokensAssumption DEF BindingInv, BindingTyped, TokensBought
  <2> QED BY <2>1 DEF BindingInv, BindingTyped, BindingTypeOK, KubectlSteps, RefreshSteps
<1> QED BY <1>1, BindingInitInv, BindingNextInv, PTL DEF BindingSpec

\* For any number of requests, whatever the issuer rotates: it never sees a spent
\* refresh token, unless one was bought and not kept.
THEOREM SpentNeverShown == BindingSpec => []SpentIsNotShown
<1>1. BindingInv => SpentIsNotShown
  BY DEF BindingInv, GoodIsKept, SpentIsNotShown
<1> QED BY <1>1, BindingInitInv, BindingNextInv, PTL DEF BindingSpec

-----------------------------------------------------------------------------
(* API keys *)

KeyRows == [minted : BOOLEAN, ws : Tenants \cup {NoKeyRow.ws}, scopes : SUBSET Catalog,
            expires : 0..(MaxKeyDays + MaxLife), pepper : Peppers \cup {NoKeyRow.pepper},
            revoked : 0..Never, used : 0..Never]
AskSteps == {"none", "parsed", "valid", "done", "refused"}
AskRecords == [pc : AskSteps, at : {"gateway", "agentserver"}, late : BOOLEAN, row : KeyRows,
               secret : [key : Keys \cup {NoKey}, whole : BOOLEAN, prefix : {"ask", "wak"}]]

KeysTyped ==
    /\ key \in [Keys -> KeyRows]
    /\ asking \in [Clients -> AskRecords]
    /\ pepper \in Peppers /\ keyDay \in 0..MaxKeyDays
    /\ \A k \in touching : k \in Keys /\ \E g \in grants : g.key = k

\* What a key was minted with.
MintedTrue(k) == key[k].minted => key[k].ws \in Tenants /\ key[k].scopes \subseteq Available

\* A secret on its way is whole and of a key that was minted; if the key was over when
\* it was presented it still is; a row that was found says what the key says.
AskTrue(c) ==
    LET k == asking[c].secret.key IN
    /\ asking[c].pc \in {"parsed", "valid"} =>
          /\ k \in Keys /\ key[k].minted /\ asking[c].secret.whole
          /\ asking[c].late => Over(k)
    /\ asking[c].pc = "valid" =>
          /\ ~asking[c].late
          /\ asking[c].row.ws = key[k].ws /\ asking[c].row.scopes = key[k].scopes

GrantTrue(g) ==
    /\ g.key \in Keys /\ key[g.key].minted /\ key[g.key].ws = g.ws
    /\ key[g.key].scopes = g.scopes /\ g.whole /\ ~g.late

RevokerTrue(r) == r[1] \in Keys /\ key[r[1]].minted /\ key[r[1]].ws = r[2]

UsedTrue(k) == key[k].used # Never => \E g \in grants : g.key = k

KeysInv ==
    /\ KeysTyped
    /\ \A k \in Keys : MintedTrue(k) /\ UsedTrue(k)
    /\ \A c \in Clients : AskTrue(c)
    /\ \A g \in grants : GrantTrue(g)
    /\ \A r \in revokers : RevokerTrue(r)

LEMMA NoKeyRowTyped ==
    /\ NoKeyRow \in KeyRows /\ ~NoKeyRow.minted /\ NoKeyRow.used = Never
    /\ NoKeyRow.revoked = Never
<1>1. MaxKeyDays \in Nat /\ MaxLife \in Nat
  BY ApiKeysAssumption
<1>2. /\ NoKeyRow.minted = FALSE /\ NoKeyRow.scopes = {} /\ NoKeyRow.expires = 0
      /\ NoKeyRow.revoked = Never /\ NoKeyRow.used = Never
  BY DEF NoKeyRow
<1>3. Never \in 0..Never /\ 0 \in 0..(MaxKeyDays + MaxLife)
  BY <1>1 DEF Never
<1>4. NoKeyRow \in KeyRows
  <2>1. PICK w, p : NoKeyRow = [minted |-> FALSE, ws |-> w, scopes |-> {}, expires |-> 0,
                                pepper |-> p, revoked |-> Never, used |-> Never]
    BY DEF NoKeyRow
  <2>2. NoKeyRow.ws = w /\ NoKeyRow.pepper = p
    BY <2>1
  <2>3. w \in Tenants \cup {NoKeyRow.ws} /\ p \in Peppers \cup {NoKeyRow.pepper}
    BY <2>2
  <2> DEFINE ws == Tenants \cup {NoKeyRow.ws}
             ps == Peppers \cup {NoKeyRow.pepper}
  <2>4. w \in ws /\ p \in ps
    BY <2>3
  <2> HIDE DEF ws, ps
  <2>5. {} \in SUBSET Catalog
    OBVIOUS
  <2>6. [minted |-> FALSE, ws |-> w, scopes |-> {}, expires |-> 0, pepper |-> p,
         revoked |-> Never, used |-> Never]
        \in [minted : BOOLEAN, ws : ws, scopes : SUBSET Catalog,
             expires : 0..(MaxKeyDays + MaxLife), pepper : ps,
             revoked : 0..Never, used : 0..Never]
    BY <1>3, <2>4, <2>5
  <2> QED BY <2>1, <2>6 DEF KeyRows, ws, ps
<1> QED BY <1>2, <1>4

LEMMA NotAskingTyped == NotAsking \in AskRecords /\ NotAsking.pc = "none"
BY NoKeyRowTyped DEF NotAsking, AskRecords, AskSteps, MintedPrefix

LEMMA KeysInitInv == KeysInit => KeysInv
<1> SUFFICES ASSUME KeysInit PROVE KeysInv
  OBVIOUS
<1>1. key \in [Keys -> KeyRows] /\ \A k \in Keys : ~key[k].minted /\ key[k].used = Never
  BY NoKeyRowTyped DEF KeysInit
<1>2. asking \in [Clients -> AskRecords] /\ \A c \in Clients : asking[c].pc = "none"
  BY NotAskingTyped DEF KeysInit
<1>3. touching = {} /\ grants = {} /\ revokers = {} /\ keyDay = 0 /\ pepper \in Peppers
  BY DEF KeysInit
<1>4. KeysTyped
  BY <1>1, <1>2, <1>3, ApiKeysAssumption DEF KeysTyped
<1>5. \A k \in Keys : MintedTrue(k) /\ UsedTrue(k)
  BY <1>1 DEF MintedTrue, UsedTrue
<1>6. \A c \in Clients : AskTrue(c)
  BY <1>2 DEF AskTrue
<1> QED BY <1>3, <1>4, <1>5, <1>6 DEF KeysInv

\* What does not change of a key once it was minted.
RowKept(k) ==
    key[k].minted =>
        /\ key'[k].minted /\ key'[k].ws = key[k].ws /\ key'[k].scopes = key[k].scopes
        /\ key'[k].expires = key[k].expires
        /\ key[k].revoked # Never => key'[k].revoked # Never

LEMMA AskTrueKept ==
    ASSUME KeysInv, \A k \in Keys : RowKept(k), key' \in [Keys -> KeyRows],
           keyDay' \in Nat, keyDay' >= keyDay,
           NEW c \in Clients, asking'[c] = asking[c]
    PROVE  AskTrue(c)'
<1>0. PICK k : k = asking[c].secret.key
  OBVIOUS
<1>1. AskTrue(c)
  BY DEF KeysInv
<1>2. CASE asking[c].pc \in {"parsed", "valid"}
  <2>1. k \in Keys /\ key[k].minted /\ asking[c].secret.whole
    BY <1>0, <1>1, <1>2 DEF AskTrue
  <2>2. RowKept(k)
    BY <2>1
  <2>3. Over(k) => Over(k)'
    <3>1. key[k] \in KeyRows /\ keyDay \in Nat
      BY <2>1, ApiKeysAssumption DEF KeysInv, KeysTyped
    <3>2. key[k].expires \in Nat
      BY <3>1, ApiKeysAssumption DEF KeyRows
    <3> QED BY <2>1, <2>2, <3>1, <3>2 DEF RowKept, Over, Never
  <2> QED BY <1>0, <1>1, <1>2, <2>1, <2>2, <2>3 DEF AskTrue, RowKept, Over
<1>3. CASE asking[c].pc \notin {"parsed", "valid"}
  BY <1>3 DEF AskTrue
<1> QED BY <1>2, <1>3

LEMMA AnswersKept ==
    ASSUME KeysInv, \A k \in Keys : RowKept(k)
    PROVE  /\ \A g \in grants : GrantTrue(g)'
           /\ \A r \in revokers : RevokerTrue(r)'
<1>1. ASSUME NEW g \in grants PROVE GrantTrue(g)'
  <2>1. GrantTrue(g)
    BY DEF KeysInv
  <2> QED BY <2>1 DEF GrantTrue, RowKept
<1>2. ASSUME NEW r \in revokers PROVE RevokerTrue(r)'
  <2>1. RevokerTrue(r)
    BY DEF KeysInv
  <2> QED BY <2>1 DEF RevokerTrue, RowKept
<1> QED BY <1>1, <1>2

\* A change of one row.
LEMMA RowChanged ==
    ASSUME KeysInv, NEW k \in Keys, NEW q \in KeyRows, key' = [key EXCEPT ![k] = q],
           key[k].minted => /\ q.minted /\ q.ws = key[k].ws /\ q.scopes = key[k].scopes
                            /\ q.expires = key[k].expires
                            /\ key[k].revoked # Never => q.revoked # Never
    PROVE  /\ key' \in [Keys -> KeyRows] /\ key'[k] = q
           /\ \A j \in Keys : RowKept(j)
           /\ \A j \in Keys \ {k} : key'[j] = key[j]
BY DEF KeysInv, KeysTyped, RowKept

LEMMA KeyRowFields ==
    ASSUME KeysInv, NEW k \in Keys
    PROVE  /\ key[k] \in KeyRows /\ key[k].minted \in BOOLEAN
           /\ key[k].expires \in Nat /\ key[k].revoked \in 0..Never
           /\ key[k].used \in 0..Never
           /\ keyDay \in Nat /\ keyDay \in 0..Never /\ keyDay # Never
<1>1. key[k] \in KeyRows /\ keyDay \in 0..MaxKeyDays
  BY DEF KeysInv, KeysTyped
<1> QED BY <1>1, ApiKeysAssumption DEF KeyRows, Never

LEMMA MintInv ==
    ASSUME KeysInv, NEW k \in Keys, NEW w \in Tenants, NEW scopes, NEW expires,
           MintWorkspaceAPIKey(k, w, scopes, expires)
    PROVE  KeysInv'
<1>1. /\ ~key[k].minted /\ scopes \subseteq Available /\ expires \in Expirations
      /\ UNCHANGED <<pepper, asking, touching, keyDay, grants, revokers>>
  BY DEF MintWorkspaceAPIKey, ScopesValid
<1>2. PICK q : q = [NoKeyRow EXCEPT !.minted = TRUE, !.ws = w, !.scopes = scopes,
                                    !.expires = expires, !.pepper = pepper]
  OBVIOUS
<1>3. expires \in 0..(MaxKeyDays + MaxLife)
  BY <1>1, ApiKeysAssumption DEF Expirations, KeysInv, KeysTyped
<1>4. /\ q \in KeyRows /\ q.minted /\ q.ws = w /\ q.scopes = scopes /\ q.used = Never
  <2>1. scopes \in SUBSET Catalog /\ pepper \in Peppers
    BY <1>1 DEF Catalog, KeysInv, KeysTyped
  <2> QED BY <1>2, <1>3, <2>1, NoKeyRowTyped DEF KeyRows
<1>5. key' = [key EXCEPT ![k] = q]
  BY <1>2 DEF MintWorkspaceAPIKey
<1>6. /\ key' \in [Keys -> KeyRows] /\ key'[k] = q
      /\ \A j \in Keys : RowKept(j)
      /\ \A j \in Keys \ {k} : key'[j] = key[j]
  BY <1>1, <1>4, <1>5, RowChanged
<1>7. KeysTyped'
  BY <1>1, <1>6 DEF KeysInv, KeysTyped
<1>8. \A j \in Keys : MintedTrue(j)' /\ UsedTrue(j)'
  BY <1>1, <1>4, <1>6 DEF KeysInv, MintedTrue, UsedTrue
<1>9. \A c \in Clients : AskTrue(c)'
  BY <1>1, <1>6, AskTrueKept, KeyRowFields
<1> QED BY <1>1, <1>6, <1>7, <1>8, <1>9, AnswersKept DEF KeysInv

LEMMA RevokeInv ==
    ASSUME KeysInv, NEW k \in Keys, NEW w \in Tenants, RevokeWorkspaceAPIKey(k, w)
    PROVE  KeysInv'
<1> DEFINE hit == key[k].ws = w /\ key[k].revoked = Never
<1>1. /\ key[k].minted /\ UNCHANGED <<pepper, asking, touching, keyDay, grants>>
      /\ revokers' = IF hit THEN revokers \cup {<<k, w>>} ELSE revokers
      /\ key' = [key EXCEPT ![k].revoked = IF hit THEN keyDay ELSE @]
  BY DEF RevokeWorkspaceAPIKey
<1>2. PICK r : r = IF hit THEN keyDay ELSE key[k].revoked
  OBVIOUS
<1>3. r \in 0..Never /\ (key[k].revoked # Never => r # Never)
  BY <1>2, KeyRowFields
<1>4. PICK q : q = [key[k] EXCEPT !.revoked = r]
  OBVIOUS
<1>5. /\ q \in KeyRows /\ q.minted = key[k].minted /\ q.ws = key[k].ws
      /\ q.scopes = key[k].scopes /\ q.expires = key[k].expires /\ q.used = key[k].used
      /\ q.revoked = r
  BY <1>3, <1>4, KeyRowFields DEF KeyRows
<1>6. key' = [key EXCEPT ![k] = q]
  BY <1>1, <1>2, <1>4 DEF KeysInv, KeysTyped
<1>7. /\ key' \in [Keys -> KeyRows] /\ key'[k] = q
      /\ \A j \in Keys : RowKept(j)
      /\ \A j \in Keys \ {k} : key'[j] = key[j]
  BY <1>1, <1>3, <1>5, <1>6, RowChanged
<1>8. KeysTyped'
  BY <1>1, <1>7 DEF KeysInv, KeysTyped
<1>9. \A j \in Keys : MintedTrue(j)' /\ UsedTrue(j)'
  BY <1>1, <1>5, <1>7 DEF KeysInv, MintedTrue, UsedTrue
<1>10. \A c \in Clients : AskTrue(c)'
  BY <1>1, <1>7, AskTrueKept, KeyRowFields
<1>11. \A s \in revokers' : RevokerTrue(s)'
  <2>1. \A s \in revokers : RevokerTrue(s)'
    BY <1>7, AnswersKept
  <2>2. hit => RevokerTrue(<<k, w>>)'
    BY <1>1, <1>5, <1>7 DEF RevokerTrue
  <2> QED BY <1>1, <2>1, <2>2
<1>12. \A g \in grants' : GrantTrue(g)'
  BY <1>1, <1>7, AnswersKept
<1> QED BY <1>8, <1>9, <1>10, <1>11, <1>12 DEF KeysInv

LEMMA TouchInv ==
    ASSUME KeysInv, NEW k \in Keys, TouchWorkspaceAPIKeyLastUsed(k) PROVE KeysInv'
<1>1. /\ k \in touching /\ touching' = touching \ {k}
      /\ UNCHANGED <<pepper, asking, keyDay, grants, revokers>>
  BY DEF TouchWorkspaceAPIKeyLastUsed
<1>2. PICK used \in {keyDay, key[k].used} : key' = [key EXCEPT ![k].used = used]
  BY DEF TouchWorkspaceAPIKeyLastUsed
<1>3. PICK q : q = [key[k] EXCEPT !.used = used]
  OBVIOUS
<1>4. used \in 0..Never
  BY <1>2, KeyRowFields
<1>5. /\ q \in KeyRows /\ q.minted = key[k].minted /\ q.ws = key[k].ws
      /\ q.scopes = key[k].scopes /\ q.expires = key[k].expires
      /\ q.revoked = key[k].revoked
  BY <1>3, <1>4, KeyRowFields DEF KeyRows
<1>6. key' = [key EXCEPT ![k] = q]
  BY <1>2, <1>3 DEF KeysInv, KeysTyped
<1>7. /\ key' \in [Keys -> KeyRows] /\ key'[k] = q
      /\ \A j \in Keys : RowKept(j)
      /\ \A j \in Keys \ {k} : key'[j] = key[j]
  BY <1>1, <1>5, <1>6, RowChanged
<1>8. KeysTyped'
  BY <1>1, <1>7 DEF KeysInv, KeysTyped
<1>9. \E g \in grants : g.key = k
  BY <1>1 DEF KeysInv, KeysTyped
<1>10. \A j \in Keys : MintedTrue(j)' /\ UsedTrue(j)'
  BY <1>1, <1>5, <1>7, <1>9 DEF KeysInv, MintedTrue, UsedTrue
<1>11. \A c \in Clients : AskTrue(c)'
  BY <1>1, <1>7, AskTrueKept, KeyRowFields
<1> QED BY <1>1, <1>7, <1>8, <1>10, <1>11, AnswersKept DEF KeysInv

LEMMA NextKeyDayInv == ASSUME KeysInv, NextKeyDay PROVE KeysInv'
<1>1. /\ UNCHANGED <<key, pepper, asking, touching, grants, revokers>>
      /\ keyDay' \in 0..MaxKeyDays /\ keyDay \in Nat /\ keyDay' = keyDay + 1
  BY ApiKeysAssumption DEF NextKeyDay, KeysInv, KeysTyped
<1>2. KeysTyped'
  BY <1>1 DEF KeysInv, KeysTyped
<1>3. \A k \in Keys : RowKept(k)
  BY <1>1 DEF RowKept
<1>4. key' \in [Keys -> KeyRows] /\ keyDay' \in Nat /\ keyDay' >= keyDay
  BY <1>1 DEF KeysInv, KeysTyped
<1>5. \A c \in Clients : AskTrue(c)'
  BY <1>1, <1>3, <1>4, AskTrueKept
<1>6. \A k \in Keys : MintedTrue(k)' /\ UsedTrue(k)'
  BY <1>1 DEF KeysInv, MintedTrue, UsedTrue
<1> QED BY <1>1, <1>2, <1>3, <1>5, <1>6, AnswersKept DEF KeysInv

\* A step of one request, which answers or not.
LEMMA AskStepInv ==
    ASSUME KeysInv, NEW c \in Clients, NEW q \in AskRecords,
           asking' = [asking EXCEPT ![c] = q], UNCHANGED <<key, pepper, keyDay, revokers>>,
           AskTrue(c)', grants \subseteq grants', \A g \in grants' : GrantTrue(g),
           \A k \in touching' : k \in Keys /\ \E g \in grants' : g.key = k
    PROVE  KeysInv'
<1>1. asking' \in [Clients -> AskRecords] /\ \A d \in Clients \ {c} : asking'[d] = asking[d]
  BY DEF KeysInv, KeysTyped
<1>2. \A k \in Keys : RowKept(k)
  BY DEF RowKept
<1>3. KeysTyped'
  BY <1>1 DEF KeysInv, KeysTyped
<1>4. key' \in [Keys -> KeyRows] /\ keyDay' \in Nat /\ keyDay' >= keyDay
  BY ApiKeysAssumption DEF KeysInv, KeysTyped
<1>5. \A d \in Clients : AskTrue(d)'
  BY <1>1, <1>2, <1>4, AskTrueKept
<1>6. \A k \in Keys : MintedTrue(k)' /\ UsedTrue(k)'
  BY DEF KeysInv, MintedTrue, UsedTrue
<1>7. /\ \A g \in grants' : GrantTrue(g)'
      /\ \A r \in revokers' : RevokerTrue(r)'
  BY DEF KeysInv, GrantTrue, RevokerTrue
<1> QED BY <1>3, <1>5, <1>6, <1>7 DEF KeysInv

LEMMA PresentSecretInv ==
    ASSUME KeysInv, NEW c \in Clients, NEW secret \in Secrets,
           NEW at \in {"gateway", "agentserver"}, PresentSecret(c, secret, at)
    PROVE  KeysInv'
<1>1. /\ UNCHANGED <<key, pepper, touching, keyDay, grants, revokers>>
      /\ key[secret.key].minted
  BY DEF PresentSecret
<1>2. PICK pc \in {"parsed", "refused"} :
        pc = IF (at = "gateway" => GatewayForwards(secret)) /\ Parses(secret)
             THEN "parsed" ELSE "refused"
  OBVIOUS
<1>3. PICK late : late = Over(secret.key)
  OBVIOUS
<1>4. late \in BOOLEAN
  BY <1>3 DEF Over
<1>5. secret.key \in Keys /\ secret.whole \in BOOLEAN
      /\ secret \in [key : Keys \cup {NoKey}, whole : BOOLEAN, prefix : {"ask", "wak"}]
  BY DEF Secrets
<1>6. PICK q : q = [NotAsking EXCEPT !.pc = pc, !.at = at, !.secret = secret, !.late = late]
  OBVIOUS
<1>7. q \in AskRecords /\ q.pc = pc /\ q.secret = secret /\ q.late = late
  BY <1>4, <1>5, <1>6, NotAskingTyped DEF AskRecords, AskSteps
<1>8. asking' = [asking EXCEPT ![c] = q]
  BY <1>2, <1>3, <1>6 DEF PresentSecret
<1>9. asking'[c] = q
  BY <1>8 DEF KeysInv, KeysTyped
<1>10. AskTrue(c)'
  <2>1. pc = "parsed" => secret.whole
    BY <1>2 DEF Parses
  <2>2. late => Over(secret.key)'
    BY <1>1, <1>3 DEF Over
  <2> QED BY <1>1, <1>5, <1>7, <1>9, <2>1, <2>2 DEF AskTrue
<1> QED BY <1>1, <1>7, <1>8, <1>10, AskStepInv DEF KeysInv, KeysTyped

LEMMA ValidateInv ==
    ASSUME KeysInv, NEW c \in Clients, ValidateWorkspaceAPIKeySecret(c) PROVE KeysInv'
<1>0. PICK k : k = asking[c].secret.key
  OBVIOUS
<1>1. /\ UNCHANGED <<key, pepper, touching, keyDay, grants, revokers>>
      /\ asking[c].pc = "parsed"
  BY DEF ValidateWorkspaceAPIKeySecret
<1>2. asking[c] \in AskRecords /\ AskTrue(c)
  BY DEF KeysInv, KeysTyped
<1>3. k \in Keys /\ key[k].minted /\ asking[c].secret.whole /\ (asking[c].late => Over(k))
  BY <1>0, <1>1, <1>2 DEF AskTrue
<1>4. PICK pc \in {"valid", "refused"} :
        pc = IF LiveKey(k) /\ key[k].pepper = pepper THEN "valid" ELSE "refused"
  OBVIOUS
<1>5. PICK q : q = [asking[c] EXCEPT !.pc = pc, !.row = key[k]]
  OBVIOUS
<1>6. /\ q \in AskRecords /\ q.pc = pc /\ q.row = key[k] /\ q.secret = asking[c].secret
      /\ q.late = asking[c].late
  BY <1>0, <1>2, <1>3, <1>5, KeyRowFields DEF AskRecords, AskSteps
<1>7. asking' = [asking EXCEPT ![c] = q]
  BY <1>0, <1>4, <1>5 DEF ValidateWorkspaceAPIKeySecret, KeysInv, KeysTyped
<1>8. asking'[c] = q
  BY <1>7 DEF KeysInv, KeysTyped
<1>9. AskTrue(c)'
  <2>1. pc = "valid" => ~asking[c].late
    <3>1. key[k].expires \in Nat /\ keyDay \in Nat
      BY <1>3, KeyRowFields
    <3> QED BY <1>3, <1>4, <3>1 DEF LiveKey, Over
  <2>2. Over(k)' <=> Over(k)
    BY <1>1 DEF Over
  <2>3. asking'[c].secret.key = k
    BY <1>0, <1>6, <1>8
  <2> QED BY <1>1, <1>3, <1>6, <1>8, <2>1, <2>2, <2>3 DEF AskTrue, Over
<1> QED BY <1>1, <1>6, <1>7, <1>9, AskStepInv DEF KeysInv, KeysTyped

LEMMA AuthorizeInv == ASSUME KeysInv, NEW c \in Clients, Authorize(c) PROVE KeysInv'
<1> DEFINE k == asking[c].secret.key
           known == asking[c].row
<1>1. /\ UNCHANGED <<key, pepper, keyDay, revokers>> /\ touching' = touching \cup {k}
      /\ asking[c].pc = "valid"
  BY DEF Authorize
<1>2. AskTrue(c) /\ asking[c] \in AskRecords
  BY DEF KeysInv, KeysTyped
<1>3. /\ k \in Keys /\ key[k].minted /\ asking[c].secret.whole /\ ~asking[c].late
      /\ known.ws = key[k].ws /\ known.scopes = key[k].scopes
  BY <1>1, <1>2 DEF AskTrue
<1>4. PICK g : g = [key |-> k, ws |-> known.ws, scopes |-> known.scopes,
                    late |-> asking[c].late, whole |-> asking[c].secret.whole]
  OBVIOUS
<1>5. /\ g.key = k /\ g.ws = known.ws /\ g.scopes = known.scopes /\ g.late = asking[c].late
      /\ g.whole = asking[c].secret.whole
  BY <1>4
<1>6. grants' = grants \cup {g}
  BY <1>4 DEF Authorize
<1>7. GrantTrue(g)
  BY <1>3, <1>5 DEF GrantTrue
<1>8. PICK q : q = [NotAsking EXCEPT !.pc = "done"]
  OBVIOUS
<1>9. q \in AskRecords /\ q.pc = "done" /\ asking' = [asking EXCEPT ![c] = q]
  BY <1>8, NotAskingTyped DEF Authorize, AskRecords, AskSteps
<1>10. asking'[c].pc = "done"
  BY <1>9 DEF KeysInv, KeysTyped
<1>11. AskTrue(c)'
  BY <1>10 DEF AskTrue
<1>12. \A h \in grants' : GrantTrue(h)
  BY <1>6, <1>7 DEF KeysInv
<1>13. \A j \in touching' : j \in Keys /\ \E h \in grants' : h.key = j
  BY <1>1, <1>3, <1>5, <1>6 DEF KeysInv, KeysTyped
<1> QED BY <1>1, <1>6, <1>9, <1>11, <1>12, <1>13, AskStepInv

LEMMA PepperRestartInv == ASSUME KeysInv, PepperRestart PROVE KeysInv'
<1>1. /\ UNCHANGED <<key, keyDay, grants, revokers>> /\ pepper' \in Peppers /\ touching' = {}
  BY DEF PepperRestart
<1>2. PICK q : q = [NotAsking EXCEPT !.pc = "done"]
  OBVIOUS
<1>3. q \in AskRecords /\ q.pc = "done"
  BY <1>2, NotAskingTyped DEF AskRecords, AskSteps
<1>4. /\ asking' \in [Clients -> AskRecords]
      /\ \A c \in Clients : asking'[c].pc \in {"none", "done"}
  BY <1>2, <1>3 DEF PepperRestart, KeysInv, KeysTyped
<1>5. KeysTyped'
  BY <1>1, <1>4 DEF KeysInv, KeysTyped
<1>6. \A c \in Clients : AskTrue(c)'
  BY <1>4 DEF AskTrue
<1>7. \A k \in Keys : MintedTrue(k)' /\ UsedTrue(k)'
  BY <1>1 DEF KeysInv, MintedTrue, UsedTrue
<1>8. /\ \A g \in grants' : GrantTrue(g)'
      /\ \A r \in revokers' : RevokerTrue(r)'
  BY <1>1 DEF KeysInv, GrantTrue, RevokerTrue
<1> QED BY <1>5, <1>6, <1>7, <1>8 DEF KeysInv

LEMMA KeysNextInv == KeysInv /\ [KeysNext]_keyVars => KeysInv'
<1> SUFFICES ASSUME KeysInv, [KeysNext]_keyVars PROVE KeysInv'
  OBVIOUS
<1>1. CASE UNCHANGED keyVars
  BY <1>1 DEF keyVars, KeysInv, KeysTyped, MintedTrue, UsedTrue, AskTrue, GrantTrue,
     RevokerTrue, Over
<1>2. CASE KeysNext
  BY <1>2, MintInv, RevokeInv, PresentSecretInv, ValidateInv, AuthorizeInv, TouchInv,
     PepperRestartInv, NextKeyDayInv DEF KeysNext
<1> QED BY <1>1, <1>2

\* For any number of keys and requests: rows, requests and answers are always of their
\* types.
THEOREM KeysAlwaysTyped == KeysSpec => []KeysTypeOK
<1>1. KeysInv => KeysTypeOK
  <2> SUFFICES ASSUME KeysInv PROVE KeysTypeOK
    OBVIOUS
  <2>1. \A k \in Keys :
         /\ key[k].minted => key[k].ws \in Tenants
         /\ key[k].scopes \subseteq Catalog
         /\ key[k].expires \in 0..(MaxKeyDays + MaxLife)
         /\ {key[k].revoked, key[k].used} \subseteq 0..Never
    BY DEF KeysInv, KeysTyped, KeyRows, MintedTrue
  <2>2. \A c \in Clients : asking[c].pc \in AskSteps
    BY DEF KeysInv, KeysTyped, AskRecords
  <2> QED BY <2>1, <2>2 DEF KeysInv, KeysTyped, KeysTypeOK, AskSteps
<1> QED BY <1>1, KeysInitInv, KeysNextInv, PTL DEF KeysSpec

\* For any number of keys, workspaces and requests: a secret is answered with what its
\* key was minted for, and not once that was over; a key is revoked by its own
\* workspace, and was used if it says so.
THEOREM KeysAlwaysSound == KeysSpec => []KeysSound
<1>1. KeysInv => KeysSound
  <2> SUFFICES ASSUME KeysInv PROVE KeysSound
    OBVIOUS
  <2>1. GrantsAreLive
    BY DEF KeysInv, GrantTrue, MintedTrue, GrantsAreLive
  <2>2. RowsAreTrue
    BY DEF KeysInv, RevokerTrue, UsedTrue, RowsAreTrue
  <2> QED BY <2>1, <2>2 DEF KeysSound
<1> QED BY <1>1, KeysInitInv, KeysNextInv, PTL DEF KeysSpec

-----------------------------------------------------------------------------
(* Compositions of sandboxes *)

BootSteps == {"none", "going", "resolved", "applied", "waiting", "over"}
Sources == [part : Parts, version : 0..MaxEdits]
ConfigMaps == [box : Pods, part : Parts, version : 0..MaxEdits]

CompositionTyped ==
    /\ podRow \in [Pods -> {"none", "live", "deleted"}]
    /\ composed \subseteq Pods /\ bare \subseteq Pods
    /\ source \in [Parts -> [there : BOOLEAN, version : 0..MaxEdits]]
    /\ boot \in [Pods -> [pc : BootSteps, resolved : SUBSET Sources]]
    /\ maps \subseteq ConfigMaps /\ listed \subseteq ConfigMaps
    /\ pod \in [Pods -> [cr : BOOLEAN, up : BOOLEAN, mounts : SUBSET Parts]]
    /\ \A s \in Pods : pod[s].up => pod[s].cr

\* A sandbox starts when its row is made, which is made once.
StartsWithRow == \A s \in Pods : podRow[s] = "none" => boot[s].pc = "none"

CompositionInv == CompositionTyped /\ StartsWithRow /\ CompositionSound

LEMMA CompositionInitInv == CompositionInit => CompositionInv
<1> SUFFICES ASSUME CompositionInit PROVE CompositionInv
  OBVIOUS
<1>1. \A s \in Pods : boot[s].pc = "none" /\ podRow[s] = "none"
  BY DEF CompositionInit
<1>2. CompositionTyped
  <2>1. 0 \in 0..MaxEdits
    BY CompositionsAssumption
  <2>2. source \in [Parts -> [there : BOOLEAN, version : 0..MaxEdits]]
    BY <2>1 DEF CompositionInit
  <2>3. boot \in [Pods -> [pc : BootSteps, resolved : SUBSET Sources]]
    BY DEF CompositionInit, BootSteps
  <2>4. /\ pod \in [Pods -> [cr : BOOLEAN, up : BOOLEAN, mounts : SUBSET Parts]]
        /\ \A s \in Pods : ~pod[s].up
    BY DEF CompositionInit, NoPod
  <2> QED BY <2>2, <2>3, <2>4 DEF CompositionInit, CompositionTyped
<1>3. CompositionSound
  BY <1>1 DEF CompositionSound, MountsStay, ComposedOrBare
<1> QED BY <1>1, <1>2, <1>3 DEF CompositionInv, StartsWithRow

\* A step that touches neither the starts nor the ConfigMaps.
LEMMA MountsKept ==
    ASSUME CompositionInv, UNCHANGED <<boot, maps, misread, unwrittenMaps>>,
           bare \subseteq bare',
           \A s \in Pods : podRow'[s] = podRow[s] \/ podRow'[s] = "deleted"
    PROVE  StartsWithRow' /\ CompositionSound'
<1>1. StartsWithRow'
  BY DEF CompositionInv, StartsWithRow
<1>2. MountsStay'
  BY DEF CompositionInv, CompositionSound, MountsStay, MapOf
<1>3. ComposedOrBare'
  BY DEF CompositionInv, CompositionSound, ComposedOrBare
<1> QED BY <1>1, <1>2, <1>3 DEF CompositionSound

LEMMA DraftStepInv ==
    ASSUME CompositionInv, NEW p \in Parts, UpdateDraft(p) \/ DeleteDraft(p)
    PROVE  CompositionInv'
<1>1. UNCHANGED <<rowState, boot, maps, pod, listed, mapHistory>>
  BY DEF UpdateDraft, DeleteDraft
<1>2. source' \in [Parts -> [there : BOOLEAN, version : 0..MaxEdits]]
  <2>1. source \in [Parts -> [there : BOOLEAN, version : 0..MaxEdits]] /\ MaxEdits \in Nat
    BY CompositionsAssumption DEF CompositionInv, CompositionTyped
  <2>2. CASE UpdateDraft(p)
    <3>1. source[p].version + 1 \in 0..MaxEdits
      BY <2>1, <2>2 DEF UpdateDraft
    <3> QED BY <2>1, <2>2, <3>1 DEF UpdateDraft
  <2>3. CASE DeleteDraft(p)
    BY <2>1, <2>3 DEF DeleteDraft
  <2> QED BY <2>2, <2>3
<1>3. CompositionTyped'
  BY <1>1, <1>2 DEF CompositionInv, CompositionTyped, rowState, mapHistory
<1> QED BY <1>1, <1>3, MountsKept DEF CompositionInv, rowState, mapHistory

LEMMA ProvisionSandboxInv ==
    ASSUME CompositionInv, NEW s \in Pods, ProvisionSandbox(s) PROVE CompositionInv'
<1>1. /\ UNCHANGED <<source, maps, pod, listed, misread, unwrittenMaps>>
      /\ composed' \subseteq Pods /\ bare' \subseteq Pods /\ bare \subseteq bare'
      /\ podRow' = [podRow EXCEPT ![s] = "live"] /\ podRow[s] = "none"
      /\ boot' = [boot EXCEPT ![s].pc = "going"]
  BY DEF ProvisionSandbox, CompositionInv, CompositionTyped
<1>2. /\ podRow' \in [Pods -> {"none", "live", "deleted"}]
      /\ boot' \in [Pods -> [pc : BootSteps, resolved : SUBSET Sources]]
      /\ podRow'[s] = "live" /\ boot'[s].pc = "going"
      /\ \A t \in Pods \ {s} : podRow'[t] = podRow[t] /\ boot'[t] = boot[t]
  BY <1>1, SMTT(30) DEF CompositionInv, CompositionTyped, BootSteps
<1>3. CompositionTyped'
  BY <1>1, <1>2 DEF CompositionInv, CompositionTyped
<1>4. StartsWithRow'
  BY <1>1, <1>2 DEF CompositionInv, StartsWithRow
<1>5. MountsStay'
  BY <1>1, <1>2 DEF CompositionInv, CompositionSound, MountsStay, MapOf
<1>6. ComposedOrBare'
  BY <1>1, <1>2 DEF CompositionInv, CompositionSound, ComposedOrBare
<1> QED BY <1>3, <1>4, <1>5, <1>6 DEF CompositionInv, CompositionSound

LEMMA ResolveCompositionInv ==
    ASSUME CompositionInv, NEW s \in Pods, ResolveComposition(s) PROVE CompositionInv'
<1>1. /\ UNCHANGED <<rowState, source, maps, pod, listed, misread, unwrittenMaps>>
      /\ boot[s].pc = "going"
  BY DEF ResolveComposition
<1>2. PICK answers \in BOOLEAN :
        /\ boot' = [boot EXCEPT ![s] =
             [pc |-> "resolved", resolved |-> IF answers /\ s \in composed THEN Resolve ELSE {}]]
        /\ bare' = IF answers /\ s \in composed /\ \A p \in DraftRefs : source[p].there
                   THEN bare ELSE bare \cup {s}
  BY DEF ResolveComposition
<1>3. PICK res : res = IF answers /\ s \in composed THEN Resolve ELSE {}
  OBVIOUS
<1>4. Resolve \in SUBSET Sources
  BY DEF Resolve, Sources, CompositionInv, CompositionTyped
<1>5. res \in SUBSET Sources
  BY <1>3, <1>4
<1>6. boot' = [boot EXCEPT ![s] = [pc |-> "resolved", resolved |-> res]]
  BY <1>2, <1>3
<1>7. /\ boot' \in [Pods -> [pc : BootSteps, resolved : SUBSET Sources]]
      /\ boot'[s].pc = "resolved" /\ boot'[s].resolved = res
      /\ \A t \in Pods \ {s} : boot'[t] = boot[t]
  BY <1>5, <1>6 DEF CompositionInv, CompositionTyped, BootSteps
<1>8. bare' \subseteq Pods /\ bare \subseteq bare'
  BY <1>2 DEF CompositionInv, CompositionTyped
<1>9. CompositionTyped'
  BY <1>1, <1>7, <1>8 DEF CompositionInv, CompositionTyped, rowState
<1>10. StartsWithRow'
  BY <1>1, <1>7 DEF CompositionInv, StartsWithRow, rowState
<1>11. MountsStay'
  BY <1>1, <1>7 DEF CompositionInv, CompositionSound, MountsStay, MapOf, rowState
<1>12. \/ s \in bare' /\ res = {}
       \/ DraftRefs \subseteq {r.part : r \in res}
  <2>1. CASE ~(answers /\ s \in composed)
    BY <1>2, <1>3, <2>1
  <2>2. CASE answers /\ s \in composed /\ \E p \in DraftRefs : ~source[p].there
    BY <1>2, <1>3, <2>2 DEF Resolve
  <2>3. CASE answers /\ s \in composed /\ \A p \in DraftRefs : source[p].there
    <3>1. res = {[part |-> p, version |-> source[p].version] :
                    p \in {q \in Parts : source[q].there}}
      BY <1>3, <2>3 DEF Resolve
    <3>2. ASSUME NEW p \in DraftRefs PROVE p \in {r.part : r \in res}
      <4>1. p \in {q \in Parts : source[q].there}
        BY <2>3 DEF Parts
      <4>2. PICK r : r = [part |-> p, version |-> source[p].version]
        OBVIOUS
      <4>3. r \in res /\ r.part = p
        BY <3>1, <4>1, <4>2
      <4> QED BY <4>3
    <3> QED BY <3>2
  <2> QED BY <2>1, <2>2, <2>3
<1>13. ComposedOrBare'
  <2> SUFFICES ASSUME NEW t \in Pods, boot'[t].pc \in {"resolved", "applied", "waiting", "over"},
                      ~(t \in bare' /\ boot'[t].resolved = {})
               PROVE  DraftRefs \subseteq {r.part : r \in boot'[t].resolved}
    BY DEF ComposedOrBare
  <2>1. CASE t = s
    BY <1>7, <1>12, <2>1
  <2>2. CASE t # s
    BY <1>7, <1>8, <2>2 DEF CompositionInv, CompositionSound, ComposedOrBare
  <2> QED BY <2>1, <2>2
<1> QED BY <1>9, <1>10, <1>11, <1>13 DEF CompositionInv, CompositionSound

LEMMA ApplyCompositionMountsInv ==
    ASSUME CompositionInv, NEW s \in Pods, ApplyCompositionMounts(s) PROVE CompositionInv'
<1>1. /\ UNCHANGED <<rowState, source, pod, listed, misread, bare>>
      /\ boot[s].pc = "resolved" /\ boot' = [boot EXCEPT ![s].pc = "applied"]
  BY DEF ApplyCompositionMounts
<1>2. PICK fails \in SUBSET boot[s].resolved :
        /\ maps' = maps \cup {MapOf(s, r) : r \in boot[s].resolved \ fails}
        /\ unwrittenMaps' = unwrittenMaps \cup {MapOf(s, r) : r \in fails}
  BY DEF ApplyCompositionMounts
<1>3. /\ boot' \in [Pods -> [pc : BootSteps, resolved : SUBSET Sources]]
      /\ boot'[s].pc = "applied" /\ boot'[s].resolved = boot[s].resolved
      /\ \A t \in Pods \ {s} : boot'[t] = boot[t]
  BY <1>1 DEF CompositionInv, CompositionTyped, BootSteps
<1>4. \A r \in boot[s].resolved : MapOf(s, r) \in ConfigMaps
  BY DEF CompositionInv, CompositionTyped, Sources, ConfigMaps, MapOf
<1>5. maps' \subseteq ConfigMaps
  <2>1. {MapOf(s, r) : r \in boot[s].resolved \ fails} \subseteq ConfigMaps
    BY <1>4
  <2> QED BY <1>2, <2>1 DEF CompositionInv, CompositionTyped
<1>6. CompositionTyped'
  BY <1>1, <1>3, <1>5 DEF CompositionInv, CompositionTyped, rowState
<1>7. StartsWithRow'
  BY <1>1, <1>3 DEF CompositionInv, StartsWithRow, rowState
<1>8. MountsStay'
  <2> SUFFICES ASSUME NEW t \in Pods, podRow'[t] = "live",
                      boot'[t].pc \in {"applied", "waiting", "over"},
                      NEW r \in boot'[t].resolved
               PROVE  MapOf(t, r) \in maps' \cup unwrittenMaps' \cup misread'
    BY DEF MountsStay, MapOf
  <2>1. CASE t = s
    <3>1. r \in boot[s].resolved
      BY <1>3, <2>1
    <3>2. CASE r \in fails
      BY <1>2, <2>1, <3>2
    <3>3. CASE r \notin fails
      BY <1>2, <2>1, <3>1, <3>3
    <3> QED BY <3>2, <3>3
  <2>2. CASE t # s
    <3>1. MapOf(t, r) \in maps \cup unwrittenMaps \cup misread
      BY <1>1, <1>3, <2>2 DEF CompositionInv, CompositionSound, MountsStay, rowState
    <3> QED BY <1>1, <1>2, <3>1
  <2> QED BY <2>1, <2>2
<1>9. ComposedOrBare'
  <2> SUFFICES ASSUME NEW t \in Pods, boot'[t].pc \in {"resolved", "applied", "waiting", "over"},
                      ~(t \in bare' /\ boot'[t].resolved = {})
               PROVE  DraftRefs \subseteq {r.part : r \in boot'[t].resolved}
    BY DEF ComposedOrBare
  <2>1. /\ boot[t].pc \in {"resolved", "applied", "waiting", "over"}
        /\ boot'[t].resolved = boot[t].resolved
    BY <1>1, <1>3
  <2> QED BY <1>1, <2>1 DEF CompositionInv, CompositionSound, ComposedOrBare
<1> QED BY <1>6, <1>7, <1>8, <1>9 DEF CompositionInv, CompositionSound

\* A step of the start after the ConfigMaps, or of the sandbox itself.
LEMMA PodStepInv ==
    ASSUME CompositionInv, NEW s \in Pods,
           UNCHANGED <<source, maps, listed, misread, unwrittenMaps>>,
           bare \subseteq bare', bare' \subseteq Pods, composed' \subseteq Pods,
           NEW pc \in BootSteps, boot' = [boot EXCEPT ![s].pc = pc],
           pc = boot[s].pc \/ (boot[s].pc \in {"applied", "waiting"} /\ pc \in {"waiting", "over"}),
           podRow' = podRow \/ podRow' = [podRow EXCEPT ![s] = "deleted"],
           NEW q \in [cr : BOOLEAN, up : BOOLEAN, mounts : SUBSET Parts], q.up => q.cr,
           pod' = [pod EXCEPT ![s] = q]
    PROVE  CompositionInv'
<1>1. /\ podRow' \in [Pods -> {"none", "live", "deleted"}]
      /\ \A t \in Pods : podRow'[t] = podRow[t] \/ podRow'[t] = "deleted"
  BY DEF CompositionInv, CompositionTyped
<1>2. /\ boot' \in [Pods -> [pc : BootSteps, resolved : SUBSET Sources]]
      /\ \A t \in Pods : boot'[t].resolved = boot[t].resolved
      /\ boot'[s].pc = pc /\ \A t \in Pods \ {s} : boot'[t] = boot[t]
  BY DEF CompositionInv, CompositionTyped
<1>3. /\ pod' \in [Pods -> [cr : BOOLEAN, up : BOOLEAN, mounts : SUBSET Parts]]
      /\ \A t \in Pods : pod'[t].up => pod'[t].cr
  BY DEF CompositionInv, CompositionTyped
<1>4. CompositionTyped'
  BY <1>1, <1>2, <1>3 DEF CompositionInv, CompositionTyped
<1>5. ASSUME NEW t \in Pods
      PROVE  boot'[t].pc = boot[t].pc \/ (/\ boot[t].pc \in {"applied", "waiting"}
                                          /\ boot'[t].pc \in {"waiting", "over"})
  BY <1>2
<1>6. StartsWithRow'
  BY <1>1, <1>5 DEF CompositionInv, StartsWithRow
<1>7. MountsStay'
  <2> SUFFICES ASSUME NEW t \in Pods, podRow'[t] = "live",
                      boot'[t].pc \in {"applied", "waiting", "over"},
                      NEW r \in boot'[t].resolved
               PROVE  MapOf(t, r) \in maps \cup unwrittenMaps \cup misread
    BY DEF MountsStay, MapOf
  <2>1. /\ podRow[t] = "live" /\ boot[t].pc \in {"applied", "waiting", "over"}
        /\ r \in boot[t].resolved
    BY <1>1, <1>2, <1>5
  <2> QED BY <2>1 DEF CompositionInv, CompositionSound, MountsStay
<1>8. ComposedOrBare'
  <2> SUFFICES ASSUME NEW t \in Pods, boot'[t].pc \in {"resolved", "applied", "waiting", "over"},
                      ~(t \in bare' /\ boot'[t].resolved = {})
               PROVE  DraftRefs \subseteq {r.part : r \in boot'[t].resolved}
    BY DEF ComposedOrBare
  <2>1. /\ boot[t].pc \in {"resolved", "applied", "waiting", "over"}
        /\ boot'[t].resolved = boot[t].resolved
        /\ ~(t \in bare /\ boot[t].resolved = {})
    BY <1>2, <1>5
  <2> QED BY <2>1 DEF CompositionInv, CompositionSound, ComposedOrBare
<1> QED BY <1>4, <1>6, <1>7, <1>8 DEF CompositionInv, CompositionSound

LEMMA NoPodTyped ==
    NoPod \in [cr : BOOLEAN, up : BOOLEAN, mounts : SUBSET Parts] /\ ~NoPod.up
BY DEF NoPod

LEMMA CreateCRInv == ASSUME CompositionInv, NEW s \in Pods, CreateCR(s) PROVE CompositionInv'
<1>1. /\ boot[s].pc = "applied" /\ UNCHANGED <<source, maps, listed, mapHistory>>
      /\ composed \subseteq Pods /\ bare \subseteq Pods
  BY DEF CreateCR, CompositionInv, CompositionTyped
<1>2. PICK q : q = [cr |-> TRUE, up |-> FALSE, mounts |-> {r.part : r \in boot[s].resolved}]
  OBVIOUS
<1>3. q \in [cr : BOOLEAN, up : BOOLEAN, mounts : SUBSET Parts] /\ (q.up => q.cr)
  <2>1. {r.part : r \in boot[s].resolved} \subseteq Parts
    BY DEF CompositionInv, CompositionTyped, Sources
  <2> QED BY <1>2, <2>1
<1>4. CASE /\ boot' = [boot EXCEPT ![s].pc = "waiting"] /\ UNCHANGED rowState
           /\ pod' = [pod EXCEPT ![s] = q]
  BY <1>1, <1>3, <1>4, PodStepInv DEF BootSteps, rowState, mapHistory
<1>5. CASE /\ boot' = [boot EXCEPT ![s].pc = "over"] /\ StartFails(s) /\ UNCHANGED pod
  <2>0. PICK m : m = pod[s]
    OBVIOUS
  <2>1. /\ m \in [cr : BOOLEAN, up : BOOLEAN, mounts : SUBSET Parts]
        /\ (m.up => m.cr) /\ pod' = [pod EXCEPT ![s] = m]
    BY <1>5, <2>0 DEF CompositionInv, CompositionTyped
  <2>2. podRow' = [podRow EXCEPT ![s] = "deleted"] /\ composed' \subseteq Pods
    BY <1>1, <1>5 DEF StartFails
  <2>3. /\ UNCHANGED <<source, maps, listed, misread, unwrittenMaps>>
        /\ bare \subseteq bare' /\ bare' \subseteq Pods /\ "over" \in BootSteps
    BY <1>1 DEF mapHistory, BootSteps
  <2> QED BY <1>1, <1>5, <2>1, <2>2, <2>3, PodStepInv
<1> QED BY <1>2, <1>4, <1>5 DEF CreateCR

LEMMA WaitForReadyInv ==
    ASSUME CompositionInv, NEW s \in Pods, WaitForReady(s) PROVE CompositionInv'
<1>1. /\ boot[s].pc = "waiting" /\ UNCHANGED <<source, maps, listed, mapHistory>>
      /\ boot' = [boot EXCEPT ![s].pc = "over"]
      /\ composed \subseteq Pods /\ bare \subseteq Pods
  BY DEF WaitForReady, CompositionInv, CompositionTyped
<1>2. CASE UNCHANGED <<rowState, pod>>
  <2>0. PICK m : m = pod[s]
    OBVIOUS
  <2>1. /\ m \in [cr : BOOLEAN, up : BOOLEAN, mounts : SUBSET Parts]
        /\ (m.up => m.cr) /\ pod' = [pod EXCEPT ![s] = m]
    BY <1>2, <2>0 DEF CompositionInv, CompositionTyped
  <2>2. /\ UNCHANGED <<source, maps, listed, misread, unwrittenMaps>>
        /\ bare \subseteq bare' /\ bare' \subseteq Pods /\ "over" \in BootSteps
        /\ podRow' = podRow /\ composed' \subseteq Pods
    BY <1>1, <1>2 DEF mapHistory, rowState, BootSteps
  <2> QED BY <1>1, <2>1, <2>2, PodStepInv
<1>3. CASE pod' = [pod EXCEPT ![s] = NoPod] /\ StartFails(s)
  <2>1. podRow' = [podRow EXCEPT ![s] = "deleted"] /\ composed' \subseteq Pods
    BY <1>1, <1>3 DEF StartFails
  <2> QED BY <1>1, <1>3, <2>1, NoPodTyped, PodStepInv DEF BootSteps, mapHistory
<1> QED BY <1>2, <1>3 DEF WaitForReady

LEMMA PodUpDownInv ==
    ASSUME CompositionInv, NEW s \in Pods, PodStarts(s) \/ PodStops(s) PROVE CompositionInv'
<1>1. /\ UNCHANGED <<rowState, source, boot, maps, listed, mapHistory>>
      /\ composed \subseteq Pods /\ bare \subseteq Pods
      /\ boot \in [Pods -> [pc : BootSteps, resolved : SUBSET Sources]]
      /\ pod \in [Pods -> [cr : BOOLEAN, up : BOOLEAN, mounts : SUBSET Parts]]
  BY DEF PodStarts, PodStops, CompositionInv, CompositionTyped
<1>2. PICK up \in BOOLEAN : pod' = [pod EXCEPT ![s].up = up] /\ (up => pod[s].cr)
  BY DEF PodStarts, PodStops
<1>3. PICK q : q = [pod[s] EXCEPT !.up = up]
  OBVIOUS
<1>4. /\ q \in [cr : BOOLEAN, up : BOOLEAN, mounts : SUBSET Parts] /\ (q.up => q.cr)
      /\ pod' = [pod EXCEPT ![s] = q]
  BY <1>1, <1>2, <1>3
<1>5. boot' = [boot EXCEPT ![s].pc = boot[s].pc] /\ boot[s].pc \in BootSteps
  BY <1>1
<1> QED BY <1>1, <1>4, <1>5, PodStepInv DEF rowState, mapHistory

LEMMA RemoveSandboxInv ==
    ASSUME CompositionInv, NEW s \in Pods, RemoveSandbox(s) PROVE CompositionInv'
<1>1. /\ UNCHANGED <<source, boot, maps, listed, misread, unwrittenMaps>>
      /\ podRow' = [podRow EXCEPT ![s] = "deleted"] /\ composed' \subseteq Pods
      /\ pod' = [pod EXCEPT ![s] = NoPod]
      /\ bare' \subseteq Pods /\ bare \subseteq bare'
  BY DEF RemoveSandbox, CompositionInv, CompositionTyped
<1>2. boot' = [boot EXCEPT ![s].pc = boot[s].pc] /\ boot[s].pc \in BootSteps
  BY <1>1 DEF CompositionInv, CompositionTyped
<1> QED BY <1>1, <1>2, NoPodTyped, PodStepInv

LEMMA ListConfigMapsInv == ASSUME CompositionInv, ListConfigMaps PROVE CompositionInv'
<1>1. UNCHANGED <<rowState, source, boot, maps, pod, mapHistory>> /\ listed' = maps
  BY DEF ListConfigMaps
<1>2. CompositionTyped'
  BY <1>1 DEF CompositionInv, CompositionTyped, rowState, mapHistory
<1> QED BY <1>1, <1>2, MountsKept DEF CompositionInv, rowState, mapHistory

LEMMA ReapOrphanInv ==
    ASSUME CompositionInv, NEW m \in listed, ReapOrphan(m) PROVE CompositionInv'
<1>1. /\ UNCHANGED <<rowState, source, boot, pod, unwrittenMaps, bare>>
      /\ listed' \subseteq listed
  BY DEF ReapOrphan
<1>2. \/ maps' = maps /\ misread' = misread
      \/ /\ maps' = maps \ {m}
         /\ misread' = misread \cup {m} \/ (~Tracked(m.box) /\ misread' = misread)
  BY DEF ReapOrphan
<1>3. CompositionTyped'
  BY <1>1, <1>2 DEF CompositionInv, CompositionTyped, rowState
<1>4. StartsWithRow'
  BY <1>1 DEF CompositionInv, StartsWithRow, rowState
<1>5. MountsStay'
  <2> SUFFICES ASSUME NEW t \in Pods, podRow[t] = "live",
                      boot[t].pc \in {"applied", "waiting", "over"},
                      NEW r \in boot[t].resolved
               PROVE  MapOf(t, r) \in maps' \cup unwrittenMaps \cup misread'
    BY <1>1 DEF MountsStay, MapOf, rowState
  <2>1. MapOf(t, r) \in maps \cup unwrittenMaps \cup misread
    BY DEF CompositionInv, CompositionSound, MountsStay
  <2>2. MapOf(t, r) = m => Tracked(m.box)
    <3>1. MapOf(t, r).box = t
      BY DEF MapOf
    <3> QED BY <3>1 DEF Tracked
  <2> QED BY <1>2, <2>1, <2>2
<1>6. ComposedOrBare'
  BY <1>1 DEF CompositionInv, CompositionSound, ComposedOrBare
<1> QED BY <1>3, <1>4, <1>5, <1>6 DEF CompositionInv, CompositionSound

LEMMA CompositionNextInv == CompositionInv /\ [CompositionNext]_compositionVars => CompositionInv'
<1> SUFFICES ASSUME CompositionInv, [CompositionNext]_compositionVars PROVE CompositionInv'
  OBVIOUS
<1>1. CASE UNCHANGED compositionVars
  <2>1. CompositionTyped'
    BY <1>1 DEF compositionVars, rowState, mapHistory, CompositionInv, CompositionTyped
  <2> QED BY <1>1, <2>1, MountsKept DEF CompositionInv, compositionVars, rowState, mapHistory
<1>2. CASE CompositionNext
  BY <1>2, DraftStepInv, ProvisionSandboxInv, ResolveCompositionInv, ApplyCompositionMountsInv,
     CreateCRInv, WaitForReadyInv, PodUpDownInv, RemoveSandboxInv, ListConfigMapsInv,
     ReapOrphanInv DEF CompositionNext
<1> QED BY <1>1, <1>2

\* For any number of sandboxes and parts: rows, starts, ConfigMaps and pods are always
\* of their types.
THEOREM CompositionAlwaysTyped == CompositionSpec => []CompositionTypeOK
<1>1. CompositionInv => CompositionTypeOK
  <2> SUFFICES ASSUME CompositionInv PROVE CompositionTypeOK
    OBVIOUS
  <2>1. \A m \in maps \cup listed : m.box \in Pods /\ m.part \in Parts
    BY DEF CompositionInv, CompositionTyped, ConfigMaps
  <2> QED BY <2>1 DEF CompositionInv, CompositionTyped, CompositionTypeOK, BootSteps
<1> QED BY <1>1, CompositionInitInv, CompositionNextInv, PTL DEF CompositionSpec

\* For any number of sandboxes, drafts and templates: what a live sandbox mounts stays
\* through pauses and the reaper, and a sandbox has all of its drafts or, for a reason,
\* none of its composition.
THEOREM CompositionAlwaysSound == CompositionSpec => []CompositionSound
<1>1. CompositionInv => CompositionSound
  BY DEF CompositionInv
<1> QED BY <1>1, CompositionInitInv, CompositionNextInv, PTL DEF CompositionSpec

-----------------------------------------------------------------------------
(* The services of agentserver together *)

\* A step of agentserver is one of the service that moves, and a stutter of every
\* other.
LEMMA AgentserverStepIsOfOne ==
    ASSUME [AgentserverNext]_agentserverVars
    PROVE  /\ [TasksNext]_taskVars /\ [QuotasNext]_quotaVars /\ [WorkspacesNext]_workspaceVars
           /\ [DraftsNext]_draftVars /\ [MarketNext]_marketVars
           /\ [SignInNext]_signInVars /\ [ModelServerNext]_modelServerVars
           /\ [LlmNext]_llmVars /\ [TokensNext]_tokenVars /\ [OpsNext]_opVars
           /\ [CredNext]_credVars /\ [BindingNext]_bindingVars /\ [KeysNext]_keyVars
           /\ [DockerNext]_dockerVars /\ [CompositionNext]_compositionVars
           /\ service' = service
<1>1. CASE WorkNext
  BY <1>1, Zenon DEF WorkNext, playgroundState, accountState, modelState, credentialState,
     containerState
<1>2. CASE PlaygroundNext
  BY <1>2 DEF PlaygroundNext, workState, accountState, modelState, credentialState,
     containerState
<1>3. CASE AccountNext
  BY <1>3, Zenon DEF AccountNext, workState, playgroundState, modelState, credentialState,
     containerState
<1>4. CASE ModelNext
  BY <1>4, Zenon DEF ModelNext, workState, playgroundState, accountState, credentialState,
     containerState
<1>5. CASE CredentialNext
  BY <1>5, Zenon DEF CredentialNext, workState, playgroundState, accountState, modelState,
     containerState
<1>6. CASE ContainerNext
  BY <1>6 DEF ContainerNext, workState, playgroundState, accountState, modelState,
     credentialState
<1>7. CASE UNCHANGED agentserverVars
  BY <1>7 DEF agentserverVars, workState, playgroundState, accountState, modelState,
     credentialState, containerState
<1> QED BY <1>1, <1>2, <1>3, <1>4, <1>5, <1>6, <1>7 DEF AgentserverNext

\* Each service together with the others behaves as it does alone.
LEMMA AgentserverImplementEach ==
    AgentserverSpec =>
        /\ TasksSpec /\ QuotasSpec /\ WorkspacesSpec /\ DraftsSpec /\ MarketSpec
        /\ SignInSpec /\ ModelServerSpec /\ LlmSpec /\ TokensSpec /\ OpsSpec
        /\ CredSpec /\ BindingSpec /\ KeysSpec /\ DockerSpec /\ CompositionSpec
        /\ [](service \in Agentserver)
<1>1. AgentserverInit =>
        /\ TasksInit /\ QuotasInit /\ WorkspacesInit /\ DraftsInit /\ MarketInit
        /\ SignInInit /\ ModelServerInit /\ LlmInit /\ TokensInit /\ OpsInit
        /\ CredInit /\ BindingInit /\ KeysInit /\ DockerInit /\ CompositionInit
        /\ service \in Agentserver
  BY DEF AgentserverInit
<1>2. service \in Agentserver /\ service' = service => (service \in Agentserver)'
  OBVIOUS
<1> QED BY <1>1, <1>2, AgentserverStepIsOfOne, PTL
        DEF AgentserverSpec, TasksSpec, QuotasSpec, WorkspacesSpec, DraftsSpec, MarketSpec,
            SignInSpec, ModelServerSpec, LlmSpec, TokensSpec, OpsSpec, CredSpec,
            BindingSpec, KeysSpec, DockerSpec, CompositionSpec

\* For every number of requests, connections, calls and ticks: requests that follow each
\* other stay within the quota and are recorded as they were answered, no token of a
\* connection long replaced is forwarded, and the log of operations is true.
THEOREM UsageAlwaysSound == AgentserverSpec => []UsageSound
<1>1. LlmSound /\ ForwardedIsCurrent /\ OpsSound => UsageSound
  BY DEF UsageSound
<1> QED BY <1>1, AgentserverImplementEach, LlmAlwaysSound, ForwardedAlwaysCurrent,
           OpsAlwaysSound, PTL

\* For every number of bindings, keys, calls and sandboxes: a sandbox starts with its
\* credentials and with its whole composition or none, a device code is exchanged once,
\* no spent refresh token is shown to an issuer, and a key says what it was minted for.
THEOREM ProvisionsAlwaysSound == AgentserverSpec => []ProvisionsSound
<1>1. CredentialsKept /\ SpentIsNotShown /\ KeysSound /\ CompositionSound => ProvisionsSound
  BY DEF ProvisionsSound
<1> QED BY <1>1, AgentserverImplementEach, CredentialsAlwaysKept, SpentNeverShown,
           KeysAlwaysSound, CompositionAlwaysSound, PTL

\* For every value of the constants: the state of every service of agentserver is always
\* of its type.
THEOREM AgentserverAlwaysTyped == AgentserverSpec => []AgentserverTypeOK
<1>1. /\ service \in Agentserver
      /\ TasksTypeOK /\ QuotasTypeOK /\ WorkspacesTypeOK /\ DraftsTypeOK /\ MarketTypeOK
      /\ SignInTypeOK /\ ModelServerTypeOK /\ LlmTypeOK /\ TokensTypeOK /\ OpsTypeOK
      /\ CredTypeOK /\ BindingTypeOK /\ KeysTypeOK /\ DockerTypeOK /\ CompositionTypeOK
      => AgentserverTypeOK
  BY Zenon DEF Agentserver, WorkServices, PlaygroundServices, AccountServices, ModelServices,
     CredentialServices, ContainerServices, AgentserverTypeOK
<1> QED BY <1>1, AgentserverImplementEach, TasksAlwaysTyped, QuotasAlwaysTyped,
           WorkspacesAlwaysTyped, DraftsAlwaysTyped, MarketAlwaysTyped, SignInAlwaysTyped,
           ModelServerAlwaysTyped, LlmAlwaysSound, ModelserverTokensAlwaysTyped,
           OpsAlwaysSound, CredAlwaysTyped, BindingAlwaysTyped, KeysAlwaysTyped,
           DockerAlwaysTyped, CompositionAlwaysTyped, PTL

=============================================================================
