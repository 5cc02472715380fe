-------------------------- MODULE Environment_proofs --------------------------
(***************************************************************************)
(* TLAPS proofs about EnvTools, CopyPath and PatchHunks: the connections   *)
(* and processes of the shared pool stay accounted for, a copied file is   *)
(* complete or absent, and a patch changes what it says.                   *)
(*                                                                         *)
(* The arguments: a connection to an executor is in the pool or with the   *)
(* call that dialled it (ToolsInv); what a copy still has to stop and to   *)
(* remove at each step (CopyInv); the parser has the first operations that *)
(* the document stands for and is where the next one is written, and the   *)
(* hunks applied so far are in their places (PatchInv).                    *)
(***************************************************************************)
EXTENDS EnvTools, CopyPath, PatchHunks, SequenceTheorems, FiniteSetTheorems,
        WellFoundedInduction, TLAPS

-----------------------------------------------------------------------------
\* A set of natural numbers has a least one.
LEMMA LeastExists ==
    ASSUME NEW S, S # {}, S \subseteq Nat
    PROVE  \E a \in S : \A b \in S : a <= b
<1> DEFINE Less == {p \in Nat \X Nat : p[1] < p[2]}
<1>1. IsWellFoundedOn(Less, Nat)
  BY NatLessThanWellFounded, Zenon DEF OpToRel
<1>2. PICK a \in S : \A b \in S : <<b, a>> \notin Less
  <2> HIDE DEF Less
  <2> QED BY <1>1, WFMin
<1>3. \A x, y \in Nat : x < y => <<x, y>> \in Less
  OBVIOUS
<1> HIDE DEF Less
<1>4. ASSUME NEW b \in S PROVE a <= b
  <2>1. <<b, a>> \notin Less /\ a \in Nat /\ b \in Nat
    BY <1>2
  <2>2. ~ (b < a)
    BY <1>3, <2>1
  <2> QED BY <2>1, <2>2
<1> QED BY <1>2, <1>4

-----------------------------------------------------------------------------
(* Tools on executors *)

UseSteps == {"idle", "miss", "refresh", "get", "dial", "insert", "call", "started"}
AnyMachine == Machines \cup {NoMachine}
Namings == [exe : AnyMachine, age : Nat]
UseRecords == [pc : UseSteps,
               tool : {"none", "shell", "exec", "file", "list", "write", "terminate"},
               exe : AnyMachine, link : Links \cup {NoLink}, proc : Procs \cup {NoProc}]

ToolsTyped ==
    /\ named \in Namings /\ fetching \subseteq Namings
    /\ cache \in [of : Namings, fresh : BOOLEAN] /\ newest \in Nat
    /\ link \in [Links -> [exe : AnyMachine, state : {"none", "open", "closed"}]]
    /\ pool \in [Machines -> Links \cup {NoLink}]
    /\ use \in [Uses -> UseRecords]
    /\ proc \in [Procs -> [link : Links \cup {NoLink}, state : {"none", "runs", "exited"}]]
    /\ sessionOf \in [Procs -> {"none", "young", "old"}]
    /\ adrift \subseteq Procs

\* One fetch is under way at a time, and what it has read is no older than what
\* the resolver knows.
NamesKnown ==
    /\ NamesKeepUp /\ newest <= named.age
    /\ \A f \in fetching : newest <= f.age /\ f.age <= named.age
    /\ \A f, g \in fetching : f = g

\* A connection that somebody knows has been dialled, to the executor that it is
\* known for.
LinkDialled(l, m) == l # NoLink => link[l].exe = m /\ link[l].state # "none"

\* What a call holds at its step: an executor from the time it asks the pool, a
\* connection of it from the time it has dialled or found one.
KnownUse(r) ==
    /\ r.pc \in {"idle", "miss", "refresh", "get", "dial"} => r.link = NoLink
    /\ r.pc \in {"get", "dial", "insert", "call", "started"} => r.exe \in Machines
    /\ r.pc \in {"insert", "call", "started"} => r.link \in Links
    /\ r.pc = "started" => r.proc \in Procs /\ proc[r.proc].link # NoLink
    /\ LinkDialled(r.link, r.exe)
UsesKnown == \A u \in Uses : KnownUse(use[u])

LinksKnown ==
    /\ \A m \in Machines : LinkDialled(pool[m], m)
    /\ \A p \in Procs : proc[p].link # NoLink =>
          link[proc[p].link].exe \in Machines /\ link[proc[p].link].state # "none"
    /\ \A p \in Procs : sessionOf[p] # "none" => proc[p].link # NoLink

ToolsInv == /\ ToolsTyped /\ NamesKnown /\ UsesKnown /\ LinksKnown
            /\ LinksAccounted /\ RunningIsKnown

LEMMA ToolsInitInv == ASSUME ToolsInit PROVE ToolsInv
<1> USE EnvToolsAssumption
<1>1. ToolsTyped
  BY DEF ToolsInit, ToolsTyped, Namings, AnyMachine, UseRecords, UseSteps, NoUse, Nobody
<1>2. NamesKnown
  BY DEF ToolsInit, NamesKnown, NamesKeepUp, Nobody
<1>3. UsesKnown /\ LinksKnown
  BY DEF ToolsInit, UsesKnown, KnownUse, LinksKnown, LinkDialled, NoUse
<1>4. LinksAccounted /\ RunningIsKnown
  BY DEF ToolsInit, LinksAccounted, RunningIsKnown, Open, Running, NoUse, UseAt
<1> QED BY <1>1, <1>2, <1>3, <1>4 DEF ToolsInv

\* A call goes on, with what it may hold; it neither has an open connection of its
\* own to leave nor a process, unless it gives that up.
LEMMA UseMoves ==
    ASSUME ToolsInv, NEW u \in Uses, NEW r \in UseRecords, KnownUse(r),
           use' = [use EXCEPT ![u] = r], UNCHANGED <<link, pool, proc, sessionOf>>,
           adrift \subseteq adrift', ~UseAt(u, "insert"),
           UseAt(u, "started") => ~Running(use[u].proc) \/ use[u].proc \in adrift'
    PROVE  /\ use' \in [Uses -> UseRecords]
           /\ UsesKnown' /\ LinksKnown' /\ LinksAccounted' /\ RunningIsKnown'
<1>1. use \in [Uses -> UseRecords]
  BY DEF ToolsInv, ToolsTyped
<1>2. \A v \in Uses : use'[v] = IF v = u THEN r ELSE use[v]
  BY <1>1
<1>3. use' \in [Uses -> UseRecords]
  BY <1>1
<1>4. UsesKnown'
  BY <1>2 DEF UsesKnown, KnownUse, LinkDialled, ToolsInv
<1>5. LinksKnown'
  BY DEF LinksKnown, LinkDialled, ToolsInv
<1>6. LinksAccounted'
  <2>1. \A v \in Uses : use'[v].link # NoLink => link'[use'[v].link].exe = use'[v].exe
    BY <1>2 DEF UsesKnown, KnownUse, LinkDialled, ToolsInv
  <2>2. ASSUME NEW l \in Links, Open(l)', pool[link[l].exe] # l
        PROVE  \E v \in Uses : use'[v].link = l /\ UseAt(v, "insert")'
    <3>1. PICK v \in Uses : use[v].link = l /\ UseAt(v, "insert")
      BY <2>2 DEF Open, LinksAccounted, ToolsInv
    <3>2. v # u
      BY <3>1
    <3> QED BY <3>1, <3>2, <1>2 DEF UseAt
  <2> QED BY <2>1, <2>2 DEF LinksAccounted
<1>7. RunningIsKnown'
  <2> SUFFICES ASSUME NEW p \in Procs, Running(p), p \notin adrift', sessionOf[p] = "none"
               PROVE  \E v \in Uses : use'[v].proc = p /\ UseAt(v, "started")'
    BY DEF RunningIsKnown, Running
  <2>1. PICK v \in Uses : use[v].proc = p /\ UseAt(v, "started")
    BY DEF RunningIsKnown, ToolsInv
  <2>2. v # u
    BY <2>1
  <2> QED BY <2>1, <2>2, <1>2 DEF UseAt
<1> QED BY <1>3, <1>4, <1>5, <1>6, <1>7

\* What the resolver knows stays typed and in order when only the calls move.
LEMMA ResolverKept ==
    ASSUME ToolsInv, UNCHANGED resolverVars
    PROVE  NamesKnown' /\ named' \in Namings /\ fetching' \subseteq Namings
           /\ cache' \in [of : Namings, fresh : BOOLEAN] /\ newest' \in Nat
  BY DEF ToolsInv, ToolsTyped, resolverVars, NamesKnown, NamesKeepUp

LEMMA NameMovesStep ==
    ASSUME ToolsInv, NEW m \in AnyMachine, NameMoves(m)
    PROVE  ToolsInv'
<1>1. named \in Namings /\ newest \in Nat /\ fetching \subseteq Namings
  BY DEF ToolsInv, ToolsTyped
<1>2. named' \in Namings /\ named'.age = named.age + 1 /\ named.age \in Nat
  BY <1>1 DEF NameMoves, Namings
<1>3. ToolsTyped'
  BY <1>2 DEF NameMoves, ToolsInv, ToolsTyped, poolVars, procVars
<1>4. NamesKnown'
  <2>1. \A f \in fetching : f.age \in Nat
    BY <1>1 DEF Namings
  <2> QED BY <1>1, <1>2, <2>1 DEF NameMoves, ToolsInv, NamesKnown, NamesKeepUp
<1>5. UsesKnown' /\ LinksKnown' /\ LinksAccounted' /\ RunningIsKnown'
  BY DEF NameMoves, ToolsInv, poolVars, procVars, UsesKnown, KnownUse, LinkDialled, LinksKnown,
         LinksAccounted, RunningIsKnown, Open, Running, UseAt
<1> QED BY <1>3, <1>4, <1>5 DEF ToolsInv

LEMMA CacheAgesStep ==
    ASSUME ToolsInv, CacheAges
    PROVE  ToolsInv'
<1>1. cache' \in [of : Namings, fresh : BOOLEAN] /\ cache'.of = cache.of
  BY DEF ToolsInv, ToolsTyped, CacheAges
<1>2. ToolsTyped'
  BY <1>1 DEF CacheAges, ToolsInv, ToolsTyped, poolVars, procVars
<1>3. NamesKnown'
  BY <1>1 DEF CacheAges, ToolsInv, NamesKnown, NamesKeepUp
<1>4. UsesKnown' /\ LinksKnown' /\ LinksAccounted' /\ RunningIsKnown'
  BY DEF CacheAges, ToolsInv, poolVars, procVars, UsesKnown, KnownUse, LinkDialled, LinksKnown,
         LinksAccounted, RunningIsKnown, Open, Running, UseAt
<1> QED BY <1>2, <1>3, <1>4 DEF ToolsInv

\* A call that is idle or was answered holds nothing.
LEMMA NoUseKnown == NoUse \in UseRecords /\ KnownUse(NoUse)
  BY DEF NoUse, UseRecords, UseSteps, AnyMachine, KnownUse, LinkDialled

LEMMA ResolveStep ==
    ASSUME ToolsInv, NEW u \in Uses, NEW tool \in {"shell", "exec", "file"}, Resolve(u, tool)
    PROVE  ToolsInv'
<1> DEFINE r == [NoUse EXCEPT !.tool = tool, !.exe = cache.of.exe,
                 !.pc = IF cache.of.exe # NoMachine /\ cache.fresh THEN "get" ELSE "miss"]
<1>1. cache.of.exe \in AnyMachine
  BY DEF ToolsInv, ToolsTyped, Namings
<1>2. r \in UseRecords /\ KnownUse(r)
  BY <1>1 DEF NoUse, UseRecords, UseSteps, AnyMachine, KnownUse, LinkDialled
<1>3. use' = [use EXCEPT ![u] = r] /\ UNCHANGED <<link, pool, proc, sessionOf, adrift>>
  BY DEF Resolve, poolVars, procVars
<1>4. UNCHANGED resolverVars /\ ~UseAt(u, "insert") /\ ~UseAt(u, "started")
  BY DEF Resolve, UseAt
<1> HIDE DEF r
<1>5. /\ use' \in [Uses -> UseRecords]
      /\ UsesKnown' /\ LinksKnown' /\ LinksAccounted' /\ RunningIsKnown'
  BY <1>2, <1>3, <1>4, UseMoves
<1> QED BY <1>3, <1>4, <1>5, ResolverKept DEF ToolsInv, ToolsTyped

LEMMA LLMViewStep ==
    ASSUME ToolsInv, NEW u \in Uses, LLMView(u)
    PROVE  ToolsInv'
<1> DEFINE r == [NoUse EXCEPT !.tool = "list", !.pc = "miss"]
<1>1. r \in UseRecords /\ KnownUse(r)
  BY DEF NoUse, UseRecords, UseSteps, AnyMachine, KnownUse, LinkDialled
<1>2. use' = [use EXCEPT ![u] = r] /\ UNCHANGED <<link, pool, proc, sessionOf, adrift>>
  BY DEF LLMView, poolVars, procVars
<1>3. UNCHANGED resolverVars /\ ~UseAt(u, "insert") /\ ~UseAt(u, "started")
  BY DEF LLMView, UseAt
<1> HIDE DEF r
<1>4. /\ use' \in [Uses -> UseRecords]
      /\ UsesKnown' /\ LinksKnown' /\ LinksAccounted' /\ RunningIsKnown'
  BY <1>1, <1>2, <1>3, UseMoves
<1> QED BY <1>2, <1>3, <1>4, ResolverKept DEF ToolsInv, ToolsTyped

\* The step of a call that changes is again one of a known call.
LEMMA StepKnown ==
    ASSUME ToolsInv, NEW u \in Uses, NEW pc \in UseSteps, NEW r, r = [use[u] EXCEPT !.pc = pc],
           \/ {pc, use[u].pc} \subseteq {"idle", "miss", "refresh"}
           \/ {pc, use[u].pc} \subseteq {"get", "dial"}
           \/ {pc, use[u].pc} \subseteq {"insert", "call"}
    PROVE  r \in UseRecords /\ KnownUse(r) /\ r.link = use[u].link /\ r.exe = use[u].exe
           /\ r.pc = pc /\ r.proc = use[u].proc /\ r.tool = use[u].tool
<1>1. use[u] \in UseRecords /\ KnownUse(use[u])
  BY DEF ToolsInv, ToolsTyped, UsesKnown
<1>2. /\ r \in UseRecords /\ r.link = use[u].link /\ r.exe = use[u].exe
      /\ r.pc = pc /\ r.proc = use[u].proc /\ r.tool = use[u].tool
  BY <1>1 DEF UseRecords
<1> QED BY <1>1, <1>2 DEF KnownUse

LEMMA ResolverRefreshStep ==
    ASSUME ToolsInv, NEW u \in Uses, ResolverRefresh(u)
    PROVE  ToolsInv'
<1>1. PICK r : r = [use[u] EXCEPT !.pc = "refresh"]
  OBVIOUS
<1>2. use[u].pc = "miss" /\ use' = [use EXCEPT ![u] = r]
      /\ UNCHANGED <<link, pool, proc, sessionOf, adrift, named, cache, newest>>
  BY <1>1 DEF ResolverRefresh, UseAt, UseGoes, poolVars, procVars
<1>3. r \in UseRecords /\ KnownUse(r)
  BY <1>1, <1>2, StepKnown DEF UseSteps
<1>4. /\ use' \in [Uses -> UseRecords]
      /\ UsesKnown' /\ LinksKnown' /\ LinksAccounted' /\ RunningIsKnown'
  <2>1. ~UseAt(u, "insert") /\ ~UseAt(u, "started")
    BY <1>2 DEF UseAt
  <2> QED BY <1>2, <1>3, <2>1, UseMoves
<1>5. named \in Namings /\ fetching \subseteq Namings /\ newest <= named.age /\ named.age \in Nat
  BY DEF ToolsInv, ToolsTyped, NamesKnown, Namings
<1>6. fetching' = {named} \/ fetching' = fetching
  BY DEF ResolverRefresh
<1>7. NamesKnown'
  BY <1>2, <1>5, <1>6 DEF ToolsInv, NamesKnown, NamesKeepUp
<1>8. ToolsTyped'
  BY <1>2, <1>4, <1>5, <1>6 DEF ToolsInv, ToolsTyped
<1> QED BY <1>4, <1>7, <1>8 DEF ToolsInv

\* Those who wait for the fetch have no connection yet.
LEMMA FetchEndsStep ==
    ASSUME ToolsInv, NEW f \in fetching, NEW stored \in BOOLEAN, FetchEnds(f, stored)
    PROVE  ToolsInv'
<1>1. /\ use \in [Uses -> UseRecords] /\ UsesKnown /\ f \in Namings /\ newest \in Nat
      /\ cache \in [of : Namings, fresh : BOOLEAN] /\ fetching \subseteq Namings
  BY DEF ToolsInv, ToolsTyped
<1>2. UNCHANGED <<named, link, pool, proc, sessionOf, adrift>>
  BY Zenon DEF FetchEnds, poolVars, procVars
<1>3. ASSUME NEW u \in Uses
      PROVE  /\ use'[u] \in UseRecords /\ KnownUse(use'[u])
             /\ UseAt(u, "refresh") \/ use'[u] = use[u]
             /\ UseAt(u, "refresh") => use'[u].link = NoLink
  <2> DEFINE exe == IF stored THEN f.exe ELSE use[u].exe
             r == [use[u] EXCEPT !.pc = "get", !.exe = exe]
  <2>1. use'[u] = IF ~UseAt(u, "refresh") THEN use[u]
                  ELSE IF exe = NoMachine \/ use[u].tool = "list" THEN NoUse ELSE r
    BY Zenon DEF FetchEnds
  <2>2. use[u] \in UseRecords /\ KnownUse(use[u]) /\ exe \in AnyMachine
    BY <1>1 DEF UsesKnown, Namings, UseRecords
  <2>3. /\ r \in UseRecords /\ r.pc = "get" /\ r.exe = exe /\ r.link = use[u].link
    BY <2>2 DEF UseRecords, UseSteps
  <2>4. UseAt(u, "refresh") => use[u].link = NoLink
    BY <2>2 DEF UseAt, KnownUse
  <2>5. UseAt(u, "refresh") /\ exe # NoMachine => KnownUse(r)
    BY <2>2, <2>3, <2>4 DEF KnownUse, LinkDialled, AnyMachine
  <2>6. NoUse.link = NoLink
    BY DEF NoUse
  <2> QED BY <2>1, <2>2, <2>3, <2>4, <2>5, <2>6, NoUseKnown
<1>4. use' \in [Uses -> UseRecords]
  BY <1>3, Zenon DEF FetchEnds
<1>5. UsesKnown'
  BY <1>2, <1>3 DEF UsesKnown, KnownUse, LinkDialled
<1>6. LinksKnown'
  BY <1>2 DEF ToolsInv, LinksKnown, LinkDialled
<1>7. LinksAccounted'
  BY <1>2, <1>3, <1>5 DEF ToolsInv, LinksAccounted, Open, UseAt, UsesKnown, KnownUse, LinkDialled
<1>8. RunningIsKnown'
  BY <1>2, <1>3 DEF ToolsInv, RunningIsKnown, Running, UseAt
<1>9. /\ cache' = [of |-> IF stored THEN f ELSE cache.of, fresh |-> TRUE]
      /\ newest' = (IF stored /\ f.age > newest THEN f.age ELSE newest)
      /\ fetching' = fetching \ {f}
  BY Zenon DEF FetchEnds
<1>10. f.age \in Nat /\ newest <= f.age /\ f.age <= named.age /\ fetching' = {}
       /\ newest <= named.age /\ cache.of.age = newest
  BY <1>1, <1>9 DEF ToolsInv, NamesKnown, NamesKeepUp, Namings
<1>11. cache' \in [of : Namings, fresh : BOOLEAN] /\ newest' \in Nat /\ fetching' \subseteq Namings
       /\ cache'.of.age = newest' /\ newest' <= named.age
  BY <1>1, <1>9, <1>10
<1>12. NamesKnown'
  BY <1>2, <1>10, <1>11 DEF NamesKnown, NamesKeepUp
<1>13. ToolsTyped'
  BY <1>2, <1>4, <1>11 DEF ToolsInv, ToolsTyped
<1> QED BY <1>5, <1>6, <1>7, <1>8, <1>12, <1>13 DEF ToolsInv

LEMMA PoolGetStep ==
    ASSUME ToolsInv, NEW u \in Uses, PoolGet(u)
    PROVE  ToolsInv'
<1>1. /\ use[u].pc = "get" /\ use[u] \in UseRecords /\ KnownUse(use[u])
      /\ use[u].exe \in Machines /\ use[u].link = NoLink
      /\ pool[use[u].exe] \in Links \cup {NoLink} /\ LinkDialled(pool[use[u].exe], use[u].exe)
  BY DEF PoolGet, UseAt, ToolsInv, ToolsTyped, UsesKnown, KnownUse, LinksKnown
<1>2. UNCHANGED <<resolverVars, link, proc, sessionOf, adrift>>
      /\ ~UseAt(u, "insert") /\ ~UseAt(u, "started")
  BY <1>1 DEF PoolGet, procVars, UseAt
<1>3. CASE Open(pool[use[u].exe])
  <2>1. PICK r : r = [use[u] EXCEPT !.pc = "call", !.link = pool[use[u].exe]]
    OBVIOUS
  <2>2. use' = [use EXCEPT ![u] = r] /\ UNCHANGED pool
    BY <1>3, <2>1 DEF PoolGet
  <2>3. r \in UseRecords /\ r.pc = "call" /\ r.exe = use[u].exe /\ r.link = pool[use[u].exe]
    BY <1>1, <2>1 DEF UseRecords, UseSteps
  <2>4. KnownUse(r)
    BY <1>1, <1>3, <2>3 DEF KnownUse, Open
  <2>5. /\ use' \in [Uses -> UseRecords]
        /\ UsesKnown' /\ LinksKnown' /\ LinksAccounted' /\ RunningIsKnown'
    BY <1>2, <2>2, <2>3, <2>4, UseMoves
  <2> QED BY <1>2, <2>2, <2>5, ResolverKept DEF ToolsInv, ToolsTyped
<1>4. CASE ~Open(pool[use[u].exe])
  <2>1. PICK r : r = [use[u] EXCEPT !.pc = "dial"]
    OBVIOUS
  <2>2. use' = [use EXCEPT ![u] = r] /\ pool' = [pool EXCEPT ![use[u].exe] = NoLink]
    BY <1>4, <2>1 DEF PoolGet, UseGoes
  <2>3. r \in UseRecords /\ KnownUse(r) /\ r.pc = "dial" /\ r.link = NoLink
    BY <1>1, <2>1, StepKnown DEF UseSteps
  <2>4. use \in [Uses -> UseRecords] /\ pool \in [Machines -> Links \cup {NoLink}]
    BY DEF ToolsInv, ToolsTyped
  <2>5. /\ \A v \in Uses : use'[v] = IF v = u THEN r ELSE use[v]
        /\ \A m \in Machines : pool'[m] = IF m = use[u].exe THEN NoLink ELSE pool[m]
        /\ use' \in [Uses -> UseRecords] /\ pool' \in [Machines -> Links \cup {NoLink}]
    BY <2>2, <2>3, <2>4
  <2>6. UsesKnown' /\ LinksKnown'
    BY <1>2, <2>3, <2>5 DEF ToolsInv, UsesKnown, KnownUse, LinksKnown, LinkDialled
  <2>7. LinksAccounted'
    <3>1. \A v \in Uses : use'[v].link # NoLink => link'[use'[v].link].exe = use'[v].exe
      BY <2>6 DEF UsesKnown, KnownUse, LinkDialled
    <3>2. ASSUME NEW l \in Links, Open(l)'
          PROVE  pool'[link'[l].exe] = l \/ \E v \in Uses : use'[v].link = l /\ UseAt(v, "insert")'
      <4>1. Open(l)
        BY <1>2, <3>2 DEF Open
      <4>2. CASE pool[link[l].exe] = l
        <5>1. link[l].exe # use[u].exe
          BY <1>4, <4>1, <4>2
        <5>2. link[l].exe \in Machines \/ link[l].exe \notin Machines
          OBVIOUS
        <5>3. pool'[link[l].exe] = pool[link[l].exe]
          BY <2>2, <2>4, <5>1
        <5> QED BY <1>2, <4>2, <5>3
      <4>3. CASE \E v \in Uses : use[v].link = l /\ UseAt(v, "insert")
        <5>1. PICK v \in Uses : use[v].link = l /\ UseAt(v, "insert")
          BY <4>3
        <5>2. v # u
          BY <1>2, <5>1
        <5> QED BY <2>5, <5>1, <5>2 DEF UseAt
      <4> QED BY <4>1, <4>2, <4>3 DEF ToolsInv, LinksAccounted
    <3> QED BY <3>1, <3>2 DEF LinksAccounted
  <2>8. RunningIsKnown'
    BY <1>2, <2>3, <2>5 DEF ToolsInv, RunningIsKnown, Running, UseAt
  <2>9. ToolsTyped'
    BY <1>2, <2>5, ResolverKept DEF ToolsInv, ToolsTyped
  <2> QED BY <1>2, <2>6, <2>7, <2>8, <2>9, ResolverKept DEF ToolsInv
<1> QED BY <1>3, <1>4

\* A connection nobody knows is dialled, or fails.
LEMMA DialBridgeStep ==
    ASSUME ToolsInv, NEW u \in Uses, NEW l \in Links, DialBridge(u, l)
    PROVE  ToolsInv'
<1>1. /\ use[u].pc = "dial" /\ link[l].state = "none" /\ use[u] \in UseRecords
      /\ KnownUse(use[u]) /\ use[u].exe \in Machines /\ use[u].link = NoLink
  BY DEF DialBridge, UseAt, ToolsInv, ToolsTyped, UsesKnown, KnownUse
<1>2. UNCHANGED <<resolverVars, pool, proc, sessionOf, adrift>>
      /\ ~UseAt(u, "insert") /\ ~UseAt(u, "started")
  BY <1>1 DEF DialBridge, procVars, UseAt
<1>3. l # NoLink
  BY EnvToolsAssumption
<1>4. /\ link \in [Links -> [exe : AnyMachine, state : {"none", "open", "closed"}]]
      /\ use \in [Uses -> UseRecords]
  BY DEF ToolsInv, ToolsTyped
<1>5. CASE AnswerTool(u) /\ UNCHANGED link
  <2>1. use' = [use EXCEPT ![u] = NoUse]
    BY <1>5 DEF AnswerTool
  <2>2. /\ use' \in [Uses -> UseRecords]
        /\ UsesKnown' /\ LinksKnown' /\ LinksAccounted' /\ RunningIsKnown'
    BY <1>2, <1>5, <2>1, NoUseKnown, UseMoves
  <2> QED BY <1>2, <1>5, <2>2, ResolverKept DEF ToolsInv, ToolsTyped
<1>6. CASE /\ link' = [link EXCEPT ![l].state = "closed"]
           /\ AnswerTool(u)
  <2>1. /\ link' \in [Links -> [exe : AnyMachine, state : {"none", "open", "closed"}]]
        /\ \A k \in Links : k # l => link'[k] = link[k]
        /\ link'[l].state = "closed" /\ link'[l].exe = link[l].exe
    BY <1>4, <1>6
  <2>2. /\ \A v \in Uses : use'[v] = IF v = u THEN NoUse ELSE use[v]
        /\ use' \in [Uses -> UseRecords]
    BY <1>4, <1>6, NoUseKnown DEF AnswerTool
  <2>3. NoUse.link = NoLink /\ NoUse.pc = "idle"
    BY DEF NoUse
  <2>4. \A k \in Links \cup {NoLink}, m \in AnyMachine : LinkDialled(k, m) => LinkDialled(k, m)'
    BY <1>1, <2>1 DEF LinkDialled
  <2>5. UsesKnown'
    <3> SUFFICES ASSUME NEW v \in Uses PROVE KnownUse(use[v])'
      BY DEF UsesKnown
    <3>1. CASE v = u
      BY <2>2, <2>3, <3>1 DEF KnownUse, LinkDialled
    <3>2. CASE v # u
      <4>1. use'[v] = use[v] /\ use[v] \in UseRecords /\ KnownUse(use[v])
        BY <2>2, <3>2, <1>4 DEF ToolsInv, UsesKnown
      <4>2. LinkDialled(use[v].link, use[v].exe)'
        BY <2>4, <4>1 DEF KnownUse, UseRecords
      <4> QED BY <1>2, <4>1, <4>2 DEF KnownUse, LinkDialled
    <3> QED BY <3>1, <3>2
  <2>6. LinksKnown'
    <3>1. ASSUME NEW m \in Machines PROVE LinkDialled(pool[m], m)'
      <4>1. LinkDialled(pool[m], m) /\ pool[m] \in Links \cup {NoLink}
        BY DEF ToolsInv, ToolsTyped, LinksKnown
      <4> QED BY <1>2, <2>4, <4>1 DEF AnyMachine, LinkDialled
    <3>2. ASSUME NEW p \in Procs, proc[p].link # NoLink
          PROVE  link'[proc[p].link].exe \in Machines /\ link'[proc[p].link].state # "none"
      <4>1. proc[p].link \in Links /\ link[proc[p].link].exe \in Machines
            /\ link[proc[p].link].state # "none"
        BY <3>2 DEF ToolsInv, ToolsTyped, LinksKnown
      <4> QED BY <2>1, <4>1
    <3> QED BY <1>2, <3>1, <3>2 DEF ToolsInv, LinksKnown, LinkDialled
  <2>7. LinksAccounted'
    <3>1. \A v \in Uses : use'[v].link # NoLink => link'[use'[v].link].exe = use'[v].exe
      BY <2>5 DEF UsesKnown, KnownUse, LinkDialled
    <3>2. ASSUME NEW k \in Links, Open(k)'
          PROVE  pool'[link'[k].exe] = k \/ \E v \in Uses : use'[v].link = k /\ UseAt(v, "insert")'
      <4>1. k # l /\ Open(k) /\ link'[k] = link[k]
        BY <2>1, <3>2 DEF Open
      <4>2. pool[link[k].exe] = k \/ \E v \in Uses : use[v].link = k /\ UseAt(v, "insert")
        BY <4>1 DEF ToolsInv, LinksAccounted
      <4>3. \A v \in Uses : UseAt(v, "insert") => v # u
        BY <1>2
      <4> QED BY <1>2, <2>2, <4>1, <4>2, <4>3 DEF UseAt
    <3> QED BY <3>1, <3>2 DEF LinksAccounted
  <2>8. RunningIsKnown'
    <3>1. \A v \in Uses : UseAt(v, "started") => v # u
      BY <1>2
    <3> QED BY <1>2, <2>2, <3>1 DEF ToolsInv, RunningIsKnown, Running, UseAt
  <2>9. ToolsTyped'
    BY <1>2, <2>1, <2>2, ResolverKept DEF ToolsInv, ToolsTyped
  <2> QED BY <1>2, <2>5, <2>6, <2>7, <2>8, <2>9, ResolverKept DEF ToolsInv
<1>7. CASE /\ link' = [link EXCEPT ![l] = [exe |-> use[u].exe, state |-> "open"]]
           /\ use' = [use EXCEPT ![u].pc = "insert", ![u].link = l]
  <2>1. PICK r : r = [use[u] EXCEPT !.pc = "insert", !.link = l]
    OBVIOUS
  <2>2. /\ r \in UseRecords /\ r.pc = "insert" /\ r.link = l /\ r.exe = use[u].exe
    BY <1>1, <2>1 DEF UseRecords, UseSteps
  <2>3. /\ \A v \in Uses : use'[v] = IF v = u THEN r ELSE use[v]
        /\ use' \in [Uses -> UseRecords]
    BY <1>4, <1>7, <2>1, <2>2
  <2>4. /\ link' \in [Links -> [exe : AnyMachine, state : {"none", "open", "closed"}]]
        /\ \A k \in Links : k # l => link'[k] = link[k]
        /\ link'[l].state = "open" /\ link'[l].exe = use[u].exe
    BY <1>1, <1>4, <1>7 DEF AnyMachine
  <2>5. \A k \in Links \cup {NoLink}, m \in AnyMachine : LinkDialled(k, m) => LinkDialled(k, m)'
    BY <1>1, <2>4 DEF LinkDialled
  <2>6. UsesKnown'
    <3> SUFFICES ASSUME NEW v \in Uses PROVE KnownUse(use[v])'
      BY DEF UsesKnown
    <3>1. CASE v = u
      <4>1. KnownUse(r)'
        BY <1>1, <2>2, <2>4 DEF KnownUse, LinkDialled
      <4> QED BY <2>3, <3>1, <4>1 DEF KnownUse, LinkDialled
    <3>2. CASE v # u
      <4>1. use'[v] = use[v] /\ use[v] \in UseRecords /\ KnownUse(use[v])
        BY <2>3, <3>2, <1>4 DEF ToolsInv, UsesKnown
      <4>2. LinkDialled(use[v].link, use[v].exe)'
        BY <2>5, <4>1 DEF KnownUse, UseRecords
      <4> QED BY <1>2, <4>1, <4>2 DEF KnownUse, LinkDialled
    <3> QED BY <3>1, <3>2
  <2>7. LinksKnown'
    <3>1. ASSUME NEW m \in Machines PROVE LinkDialled(pool[m], m)'
      <4>1. LinkDialled(pool[m], m) /\ pool[m] \in Links \cup {NoLink}
        BY DEF ToolsInv, ToolsTyped, LinksKnown
      <4> QED BY <1>2, <2>5, <4>1 DEF AnyMachine, LinkDialled
    <3>2. ASSUME NEW p \in Procs, proc[p].link # NoLink
          PROVE  link'[proc[p].link].exe \in Machines /\ link'[proc[p].link].state # "none"
      <4>1. proc[p].link \in Links /\ link[proc[p].link].exe \in Machines
            /\ link[proc[p].link].state # "none"
        BY <3>2 DEF ToolsInv, ToolsTyped, LinksKnown
      <4> QED BY <1>1, <2>4, <4>1
    <3> QED BY <1>2, <3>1, <3>2 DEF ToolsInv, LinksKnown, LinkDialled
  <2>8. LinksAccounted'
    <3>1. \A v \in Uses : use'[v].link # NoLink => link'[use'[v].link].exe = use'[v].exe
      BY <2>6 DEF UsesKnown, KnownUse, LinkDialled
    <3>2. ASSUME NEW k \in Links, Open(k)'
          PROVE  pool'[link'[k].exe] = k \/ \E v \in Uses : use'[v].link = k /\ UseAt(v, "insert")'
      <4>1. CASE k = l
        BY <2>2, <2>3, <4>1 DEF UseAt
      <4>2. CASE k # l
        <5>1. Open(k) /\ link'[k] = link[k]
          BY <2>4, <3>2, <4>2 DEF Open
        <5>2. pool[link[k].exe] = k \/ \E v \in Uses : use[v].link = k /\ UseAt(v, "insert")
          BY <5>1 DEF ToolsInv, LinksAccounted
        <5>3. \A v \in Uses : UseAt(v, "insert") => v # u
          BY <1>2
        <5> QED BY <1>2, <2>3, <5>1, <5>2, <5>3 DEF UseAt
      <4> QED BY <4>1, <4>2
    <3> QED BY <3>1, <3>2 DEF LinksAccounted
  <2>9. RunningIsKnown'
    <3>1. \A v \in Uses : UseAt(v, "started") => v # u
      BY <1>2
    <3> QED BY <1>2, <2>3, <3>1 DEF ToolsInv, RunningIsKnown, Running, UseAt
  <2>10. ToolsTyped'
    BY <1>2, <2>3, <2>4, ResolverKept DEF ToolsInv, ToolsTyped
  <2> QED BY <1>2, <2>6, <2>7, <2>8, <2>9, <2>10, ResolverKept DEF ToolsInv
<1> QED BY <1>5, <1>6, <1>7 DEF DialBridge

\* Of two connections to an executor the one in the pool stays, the other is closed.
LEMMA PoolInsertStep ==
    ASSUME ToolsInv, NEW u \in Uses, PoolInsert(u)
    PROVE  ToolsInv'
<1> DEFINE m == use[u].exe
<1>1. /\ use[u].pc = "insert" /\ use[u] \in UseRecords /\ KnownUse(use[u])
      /\ m \in Machines /\ use[u].link \in Links /\ use[u].link # NoLink
      /\ link[use[u].link].exe = m /\ link[use[u].link].state # "none"
      /\ pool[m] \in Links \cup {NoLink} /\ LinkDialled(pool[m], m)
  BY EnvToolsAssumption
     DEF PoolInsert, UseAt, ToolsInv, ToolsTyped, UsesKnown, KnownUse, LinksKnown, LinkDialled
<1>2. UNCHANGED <<resolverVars, proc, sessionOf, adrift>> /\ ~UseAt(u, "started")
  BY <1>1 DEF PoolInsert, procVars, UseAt
<1>3. /\ link \in [Links -> [exe : AnyMachine, state : {"none", "open", "closed"}]]
      /\ use \in [Uses -> UseRecords] /\ pool \in [Machines -> Links \cup {NoLink}]
  BY DEF ToolsInv, ToolsTyped
<1>4. PICK r : r = [use[u] EXCEPT !.pc = "call",
                                  !.link = IF Open(pool[m]) THEN pool[m] ELSE use[u].link]
  OBVIOUS
<1>5. /\ r \in UseRecords /\ r.pc = "call" /\ r.exe = m
      /\ r.link = IF Open(pool[m]) THEN pool[m] ELSE use[u].link
      /\ r.link \in Links
  BY <1>1, <1>4 DEF UseRecords, UseSteps, Open
<1>6. use' = [use EXCEPT ![u] = r]
  <2>1. CASE Open(pool[m])
    BY <1>4, <2>1 DEF PoolInsert
  <2>2. CASE ~Open(pool[m])
    <3>1. [use[u] EXCEPT !.pc = "call", !.link = use[u].link] = [use[u] EXCEPT !.pc = "call"]
      BY <1>1 DEF UseRecords
    <3> QED BY <1>4, <2>2, <3>1 DEF PoolInsert, UseGoes
  <2> QED BY <2>1, <2>2
<1>7. /\ \A v \in Uses : use'[v] = IF v = u THEN r ELSE use[v]
      /\ use' \in [Uses -> UseRecords]
  BY <1>3, <1>5, <1>6
<1>8. /\ link' = IF Open(pool[m]) THEN [link EXCEPT ![use[u].link].state = "closed"] ELSE link
      /\ pool' = IF Open(pool[m]) THEN pool ELSE [pool EXCEPT ![m] = use[u].link]
  BY DEF PoolInsert
<1>9. /\ link' \in [Links -> [exe : AnyMachine, state : {"none", "open", "closed"}]]
      /\ \A k \in Links : /\ link'[k].exe = link[k].exe
                          /\ link[k].state # "none" => link'[k].state # "none"
                          /\ link'[k].state = "open" => link[k].state = "open"
                          /\ Open(pool[m]) /\ k = use[u].link => link'[k].state = "closed"
  BY <1>1, <1>3, <1>8
<1>10. /\ pool' \in [Machines -> Links \cup {NoLink}]
       /\ \A k \in Machines : pool'[k] = IF k = m /\ ~Open(pool[m]) THEN use[u].link ELSE pool[k]
  BY <1>1, <1>3, <1>8
<1>11. \A k \in Links \cup {NoLink}, n \in AnyMachine : LinkDialled(k, n) => LinkDialled(k, n)'
  BY <1>9 DEF LinkDialled
<1> HIDE DEF m
<1>12. LinkDialled(r.link, m) /\ LinkDialled(use[u].link, m)
  BY <1>1, <1>5 DEF LinkDialled, m
<1>13. UsesKnown'
  <2> SUFFICES ASSUME NEW v \in Uses PROVE KnownUse(use[v])'
    BY DEF UsesKnown
  <2>1. CASE v = u
    <3>1. LinkDialled(r.link, r.exe)'
      BY <1>1, <1>5, <1>11, <1>12 DEF AnyMachine
    <3>2. KnownUse(r)'
      BY <1>1, <1>5, <3>1 DEF KnownUse
    <3> QED BY <1>7, <2>1, <3>2 DEF KnownUse, LinkDialled
  <2>2. CASE v # u
    <3>1. use'[v] = use[v] /\ use[v] \in UseRecords /\ KnownUse(use[v])
      BY <1>7, <2>2, <1>3 DEF ToolsInv, UsesKnown
    <3>2. LinkDialled(use[v].link, use[v].exe)'
      BY <1>11, <3>1 DEF KnownUse, UseRecords
    <3> QED BY <1>2, <3>1, <3>2 DEF KnownUse, LinkDialled
  <2> QED BY <2>1, <2>2
<1>14. LinksKnown'
  <2>1. ASSUME NEW k \in Machines PROVE LinkDialled(pool[k], k)'
    <3>1. LinkDialled(pool'[k], k)
      BY <1>10, <1>12 DEF ToolsInv, LinksKnown
    <3> QED BY <1>10, <1>11, <3>1 DEF AnyMachine
  <2>2. ASSUME NEW p \in Procs, proc[p].link # NoLink
        PROVE  link'[proc[p].link].exe \in Machines /\ link'[proc[p].link].state # "none"
    <3>1. proc[p].link \in Links /\ link[proc[p].link].exe \in Machines
          /\ link[proc[p].link].state # "none"
      BY <2>2 DEF ToolsInv, ToolsTyped, LinksKnown
    <3> QED BY <1>9, <3>1
  <2> QED BY <1>2, <2>1, <2>2 DEF ToolsInv, LinksKnown, LinkDialled
<1>15. LinksAccounted'
  <2>1. \A v \in Uses : use'[v].link # NoLink => link'[use'[v].link].exe = use'[v].exe
    BY <1>13 DEF UsesKnown, KnownUse, LinkDialled
  <2>2. ASSUME NEW k \in Links, Open(k)'
        PROVE  pool'[link'[k].exe] = k \/ \E v \in Uses : use'[v].link = k /\ UseAt(v, "insert")'
    <3>1. Open(k) /\ link'[k].exe = link[k].exe
      BY <1>9, <2>2 DEF Open
    <3>2. CASE pool[link[k].exe] = k
      <4>1. link[k].exe = m /\ ~Open(pool[m]) => FALSE
        BY <3>1, <3>2
      <4>2. pool'[link[k].exe] = pool[link[k].exe]
        BY <1>3, <1>8, <4>1 DEF m
      <4> QED BY <3>1, <3>2, <4>2
    <3>3. CASE k = use[u].link
      <4>1. ~Open(pool[m])
        BY <1>9, <2>2, <3>3 DEF Open
      <4> QED BY <1>1, <1>10, <3>1, <3>3, <4>1 DEF m
    <3>4. CASE k # use[u].link /\ \E v \in Uses : use[v].link = k /\ UseAt(v, "insert")
      <4>1. PICK v \in Uses : use[v].link = k /\ UseAt(v, "insert")
        BY <3>4
      <4> QED BY <1>7, <3>4, <4>1 DEF UseAt
    <3> QED BY <3>1, <3>2, <3>3, <3>4 DEF ToolsInv, LinksAccounted
  <2> QED BY <2>1, <2>2 DEF LinksAccounted
<1>16. RunningIsKnown'
  <2>1. \A v \in Uses : UseAt(v, "started") => v # u
    BY <1>2
  <2> QED BY <1>2, <1>7, <2>1 DEF ToolsInv, RunningIsKnown, Running, UseAt
<1>17. ToolsTyped'
  BY <1>2, <1>7, <1>9, <1>10, ResolverKept DEF ToolsInv, ToolsTyped
<1> QED BY <1>2, <1>13, <1>14, <1>15, <1>16, <1>17, ResolverKept DEF ToolsInv

LEMMA LinkBreaksStep ==
    ASSUME ToolsInv, NEW l \in Links, LinkBreaks(l)
    PROVE  ToolsInv'
<1>1. UNCHANGED <<resolverVars, pool, use, proc, sessionOf>>
      /\ adrift' = adrift \cup {p \in Procs : proc[p].link = l}
      /\ link' = [link EXCEPT ![l].state = "closed"] /\ link[l].state = "open"
  BY DEF LinkBreaks, Open
<1>2. link \in [Links -> [exe : AnyMachine, state : {"none", "open", "closed"}]]
  BY DEF ToolsInv, ToolsTyped
<1>3. /\ link' \in [Links -> [exe : AnyMachine, state : {"none", "open", "closed"}]]
      /\ \A k \in Links : /\ link'[k].exe = link[k].exe
                          /\ link[k].state # "none" => link'[k].state # "none"
                          /\ link'[k].state = "open" => link[k].state = "open"
  BY <1>1, <1>2
<1>4. \A k \in Links \cup {NoLink}, n \in AnyMachine : LinkDialled(k, n) => LinkDialled(k, n)'
  BY <1>3 DEF LinkDialled
<1>5. UsesKnown'
  <2> SUFFICES ASSUME NEW v \in Uses PROVE KnownUse(use[v])'
    BY DEF UsesKnown
  <2>1. use[v] \in UseRecords /\ KnownUse(use[v])
    BY DEF ToolsInv, ToolsTyped, UsesKnown
  <2>2. LinkDialled(use[v].link, use[v].exe)'
    BY <1>1, <1>4, <2>1 DEF KnownUse, UseRecords, LinkDialled
  <2> QED BY <1>1, <2>1, <2>2 DEF KnownUse
<1>6. LinksKnown'
  <2>1. ASSUME NEW k \in Machines PROVE LinkDialled(pool[k], k)'
    <3>1. LinkDialled(pool[k], k) /\ pool[k] \in Links \cup {NoLink}
      BY DEF ToolsInv, ToolsTyped, LinksKnown
    <3> QED BY <1>1, <1>4, <3>1 DEF AnyMachine, LinkDialled
  <2>2. ASSUME NEW p \in Procs, proc[p].link # NoLink
        PROVE  link'[proc[p].link].exe \in Machines /\ link'[proc[p].link].state # "none"
    <3>1. proc[p].link \in Links /\ link[proc[p].link].exe \in Machines
          /\ link[proc[p].link].state # "none"
      BY <2>2 DEF ToolsInv, ToolsTyped, LinksKnown
    <3> QED BY <1>3, <3>1
  <2> QED BY <1>1, <2>1, <2>2 DEF ToolsInv, LinksKnown
<1>7. LinksAccounted'
  <2>1. \A v \in Uses : use'[v].link # NoLink => link'[use'[v].link].exe = use'[v].exe
    BY <1>5 DEF UsesKnown, KnownUse, LinkDialled
  <2>2. \A k \in Links : Open(k)' => Open(k)
    BY <1>3 DEF Open
  <2> QED BY <1>1, <1>3, <2>1, <2>2 DEF ToolsInv, LinksAccounted, UseAt
<1>8. RunningIsKnown'
  BY <1>1 DEF ToolsInv, RunningIsKnown, Running, UseAt
<1>9. ToolsTyped'
  BY <1>1, <1>3, ResolverKept DEF ToolsInv, ToolsTyped
<1> QED BY <1>1, <1>5, <1>6, <1>7, <1>8, <1>9, ResolverKept DEF ToolsInv

LEMMA ProcessStartStep ==
    ASSUME ToolsInv, NEW u \in Uses, NEW p \in Procs, ProcessStart(u, p)
    PROVE  ToolsInv'
<1>1. /\ use[u].pc = "call" /\ proc[p].state = "none" /\ use[u] \in UseRecords
      /\ KnownUse(use[u]) /\ use[u].exe \in Machines /\ use[u].link \in Links
  BY DEF ProcessStart, UseAt, ToolsInv, ToolsTyped, UsesKnown, KnownUse
<1>2. UNCHANGED <<resolverVars, link, pool, sessionOf>>
      /\ ~UseAt(u, "insert") /\ ~UseAt(u, "started")
  BY <1>1 DEF ProcessStart, poolVars, UseAt
<1>3. /\ proc \in [Procs -> [link : Links \cup {NoLink}, state : {"none", "runs", "exited"}]]
      /\ use \in [Uses -> UseRecords] /\ adrift \subseteq Procs
  BY DEF ToolsInv, ToolsTyped
<1>4. CASE AnswerTool(u) /\ UNCHANGED <<proc, adrift>>
  <2>1. use' = [use EXCEPT ![u] = NoUse]
    BY <1>4 DEF AnswerTool
  <2>2. /\ use' \in [Uses -> UseRecords]
        /\ UsesKnown' /\ LinksKnown' /\ LinksAccounted' /\ RunningIsKnown'
    BY <1>2, <1>4, <2>1, NoUseKnown, UseMoves
  <2> QED BY <1>2, <1>4, <2>2, ResolverKept DEF ToolsInv, ToolsTyped
<1>5. ASSUME proc' = [proc EXCEPT ![p] = [link |-> use[u].link, state |-> "runs"]],
             NEW r \in UseRecords, use' = [use EXCEPT ![u] = r],
             adrift \subseteq adrift', adrift' \subseteq Procs,
             \/ r = NoUse /\ p \in adrift'
             \/ r.pc = "started" /\ r.proc = p /\ r.link = use[u].link /\ r.exe = use[u].exe
      PROVE  ToolsInv'
  <2>1. /\ \A v \in Uses : use'[v] = IF v = u THEN r ELSE use[v]
        /\ use' \in [Uses -> UseRecords]
    BY <1>3, <1>5
  <2>2. /\ proc' \in [Procs -> [link : Links \cup {NoLink}, state : {"none", "runs", "exited"}]]
        /\ \A q \in Procs : q # p => proc'[q] = proc[q]
        /\ proc'[p].link = use[u].link /\ proc'[p].state = "runs"
    BY <1>1, <1>3, <1>5
  <2>3. use[u].link # NoLink /\ LinkDialled(use[u].link, use[u].exe)
    BY <1>1, EnvToolsAssumption DEF KnownUse
  <2>4. \A q \in Procs : proc[q].link # NoLink => proc'[q].link # NoLink
    BY <2>2, <2>3
  <2>5. KnownUse(r)'
    <3>1. CASE r = NoUse
      BY <3>1 DEF NoUse, KnownUse, LinkDialled
    <3>2. CASE r.pc = "started" /\ r.proc = p /\ r.link = use[u].link /\ r.exe = use[u].exe
      BY <1>1, <1>2, <2>2, <2>3, <3>2 DEF KnownUse, LinkDialled
    <3> QED BY <1>5, <3>1, <3>2
  <2>6. UsesKnown'
    <3> SUFFICES ASSUME NEW v \in Uses PROVE KnownUse(use[v])'
      BY DEF UsesKnown
    <3>1. CASE v = u
      BY <2>1, <2>5, <3>1 DEF KnownUse, LinkDialled
    <3>2. CASE v # u
      <4>1. use'[v] = use[v] /\ KnownUse(use[v])
        BY <2>1, <3>2 DEF ToolsInv, UsesKnown
      <4> QED BY <1>2, <2>4, <4>1 DEF KnownUse, LinkDialled
    <3> QED BY <3>1, <3>2
  <2>7. LinksKnown'
    <3>1. \A m \in Machines : LinkDialled(pool[m], m)'
      BY <1>2 DEF ToolsInv, LinksKnown, LinkDialled
    <3>2. ASSUME NEW q \in Procs, proc'[q].link # NoLink
          PROVE  link[proc'[q].link].exe \in Machines /\ link[proc'[q].link].state # "none"
      BY <1>1, <2>2, <2>3, <3>2 DEF ToolsInv, LinksKnown, LinkDialled
    <3>3. \A q \in Procs : sessionOf[q] # "none" => proc'[q].link # NoLink
      BY <2>4 DEF ToolsInv, LinksKnown
    <3> QED BY <1>2, <3>1, <3>2, <3>3 DEF LinksKnown
  <2>8. LinksAccounted'
    <3>1. \A v \in Uses : use'[v].link # NoLink => link'[use'[v].link].exe = use'[v].exe
      BY <2>6 DEF UsesKnown, KnownUse, LinkDialled
    <3>2. \A v \in Uses : UseAt(v, "insert") => v # u
      BY <1>2
    <3>3. \A v \in Uses : UseAt(v, "insert") => use'[v] = use[v]
      BY <2>1, <3>2
    <3> QED BY <1>2, <3>1, <3>3 DEF ToolsInv, LinksAccounted, Open, UseAt
  <2>9. RunningIsKnown'
    <3> SUFFICES ASSUME NEW q \in Procs, Running(q)', q \notin adrift', sessionOf'[q] = "none"
                 PROVE  \E v \in Uses : use'[v].proc = q /\ UseAt(v, "started")'
      BY DEF RunningIsKnown
    <3>1. CASE q = p
      <4>1. r # NoUse
        <5>1. p \notin adrift'
          BY <3>1
        <5> QED BY <1>5, <2>5, <5>1, <3>1 DEF NoUse
      <4> QED BY <1>5, <2>1, <3>1, <4>1 DEF UseAt
    <3>2. CASE q # p
      <4>1. Running(q)
        BY <2>2, <3>2 DEF Running
      <4>2. PICK v \in Uses : use[v].proc = q /\ UseAt(v, "started")
        BY <1>2, <1>5, <4>1 DEF ToolsInv, RunningIsKnown
      <4>3. v # u
        BY <1>2, <4>2
      <4> QED BY <2>1, <4>2, <4>3 DEF UseAt
    <3> QED BY <3>1, <3>2
  <2>10. ToolsTyped'
    BY <1>2, <1>5, <2>1, <2>2, ResolverKept DEF ToolsInv, ToolsTyped
  <2> QED BY <1>2, <2>6, <2>7, <2>8, <2>9, <2>10, ResolverKept DEF ToolsInv
<1>6. CASE /\ proc' = [proc EXCEPT ![p] = [link |-> use[u].link, state |-> "runs"]]
           /\ use' = [use EXCEPT ![u].pc = "started", ![u].proc = p]
           /\ UNCHANGED adrift
  <2>1. PICK r : r = [use[u] EXCEPT !.pc = "started", !.proc = p]
    OBVIOUS
  <2>2. /\ r \in UseRecords /\ r.pc = "started" /\ r.proc = p
        /\ r.link = use[u].link /\ r.exe = use[u].exe
    BY <1>1, <2>1 DEF UseRecords, UseSteps
  <2>3. use' = [use EXCEPT ![u] = r]
    BY <1>6, <2>1
  <2> QED BY <1>3, <1>5, <1>6, <2>2, <2>3
<1>7. CASE /\ proc' = [proc EXCEPT ![p] = [link |-> use[u].link, state |-> "runs"]]
           /\ AnswerTool(u) /\ adrift' = adrift \cup {p}
  BY <1>3, <1>5, <1>7, NoUseKnown DEF AnswerTool
<1> QED BY <1>4, <1>6, <1>7 DEF ProcessStart

\* A process that does not run any more is nobody's.
LEMMA ProcessEnds ==
    ASSUME ToolsInv, NEW p \in Procs, proc' = [proc EXCEPT ![p].state = "exited"],
           NEW u \in Uses, NEW r \in UseRecords, KnownUse(r),
           ~UseAt(u, "insert"), UseAt(u, "started") => r = use[u],
           use' = [use EXCEPT ![u] = r],
           UNCHANGED <<resolverVars, poolVars, sessionOf, adrift>>
    PROVE  ToolsInv'
<1>1. UNCHANGED <<resolverVars, link, pool, sessionOf, adrift>>
  BY DEF poolVars
<1>2. /\ proc \in [Procs -> [link : Links \cup {NoLink}, state : {"none", "runs", "exited"}]]
      /\ use \in [Uses -> UseRecords]
  BY DEF ToolsInv, ToolsTyped
<1>3. /\ proc' \in [Procs -> [link : Links \cup {NoLink}, state : {"none", "runs", "exited"}]]
      /\ \A q \in Procs : proc'[q].link = proc[q].link
      /\ \A q \in Procs : proc'[q].state = "runs" => proc[q].state = "runs"
  BY <1>2
<1>4. /\ \A v \in Uses : use'[v] = IF v = u THEN r ELSE use[v]
      /\ use' \in [Uses -> UseRecords]
  BY <1>2
<1>5. UsesKnown'
  <2> SUFFICES ASSUME NEW v \in Uses PROVE KnownUse(use[v])'
    BY DEF UsesKnown
  <2>1. KnownUse(use'[v])
    BY <1>4 DEF ToolsInv, UsesKnown
  <2> QED BY <1>1, <1>3, <2>1 DEF KnownUse, LinkDialled
<1>6. LinksKnown'
  BY <1>1, <1>3 DEF ToolsInv, LinksKnown, LinkDialled
<1>7. LinksAccounted'
  <2>1. \A v \in Uses : use'[v].link # NoLink => link'[use'[v].link].exe = use'[v].exe
    BY <1>5 DEF UsesKnown, KnownUse, LinkDialled
  <2>2. \A v \in Uses : UseAt(v, "insert") => v # u
    OBVIOUS
  <2>3. \A v \in Uses : UseAt(v, "insert") => use'[v] = use[v]
    BY <1>4, <2>2
  <2> QED BY <1>1, <2>1, <2>3 DEF ToolsInv, LinksAccounted, Open, UseAt
<1>8. RunningIsKnown'
  <2> SUFFICES ASSUME NEW q \in Procs, Running(q)', q \notin adrift', sessionOf'[q] = "none"
               PROVE  \E v \in Uses : use'[v].proc = q /\ UseAt(v, "started")'
    BY DEF RunningIsKnown
  <2>1. Running(q)
    BY <1>3 DEF Running
  <2>2. PICK v \in Uses : use[v].proc = q /\ UseAt(v, "started")
    BY <1>1, <2>1 DEF ToolsInv, RunningIsKnown
  <2>3. use'[v] = use[v]
    BY <1>4, <2>2
  <2> QED BY <2>2, <2>3 DEF UseAt
<1>9. ToolsTyped'
  BY <1>1, <1>3, <1>4, ResolverKept DEF ToolsInv, ToolsTyped
<1> QED BY <1>1, <1>5, <1>6, <1>7, <1>8, <1>9, ResolverKept DEF ToolsInv

LEMMA ProcessExitsStep ==
    ASSUME ToolsInv, NEW p \in Procs, ProcessExits(p)
    PROVE  ToolsInv'
<1>1. /\ proc' = [proc EXCEPT ![p].state = "exited"]
      /\ UNCHANGED <<resolverVars, link, pool, use, sessionOf, adrift>>
  BY DEF ProcessExits, poolVars
<1>2. proc \in [Procs -> [link : Links \cup {NoLink}, state : {"none", "runs", "exited"}]]
  BY DEF ToolsInv, ToolsTyped
<1>3. /\ proc' \in [Procs -> [link : Links \cup {NoLink}, state : {"none", "runs", "exited"}]]
      /\ \A q \in Procs : proc'[q].link = proc[q].link
      /\ \A q \in Procs : proc'[q].state = "runs" => proc[q].state = "runs"
  BY <1>1, <1>2
<1>4. UsesKnown' /\ LinksKnown' /\ LinksAccounted'
  BY <1>1, <1>3 DEF ToolsInv, UsesKnown, KnownUse, LinksKnown, LinkDialled, LinksAccounted, Open,
                    UseAt
<1>5. RunningIsKnown'
  BY <1>1, <1>3 DEF ToolsInv, RunningIsKnown, Running, UseAt
<1>6. ToolsTyped'
  BY <1>1, <1>3, ResolverKept DEF ToolsInv, ToolsTyped
<1> QED BY <1>1, <1>4, <1>5, <1>6, ResolverKept DEF ToolsInv

LEMMA ReachStep ==
    ASSUME ToolsInv, NEW u \in Uses, Reach(u)
    PROVE  ToolsInv'
<1>1. /\ use[u].pc = "call" /\ use[u].proc # NoProc /\ use[u] \in UseRecords
      /\ use' = [use EXCEPT ![u] = NoUse]
      /\ UNCHANGED <<resolverVars, poolVars, sessionOf, adrift>>
  BY DEF Reach, UseAt, AnswerTool, ToolsInv, ToolsTyped
<1>2. ~UseAt(u, "insert") /\ ~UseAt(u, "started") /\ use[u].proc \in Procs
  BY <1>1 DEF UseAt, UseRecords
<1>3. CASE UNCHANGED proc
  <2>1. UNCHANGED <<link, pool>>
    BY <1>1 DEF poolVars
  <2>2. /\ use' \in [Uses -> UseRecords]
        /\ UsesKnown' /\ LinksKnown' /\ LinksAccounted' /\ RunningIsKnown'
    BY <1>1, <1>2, <1>3, <2>1, NoUseKnown, UseMoves
  <2> QED BY <1>1, <1>3, <2>1, <2>2, ResolverKept DEF ToolsInv, ToolsTyped
<1>4. CASE proc' = [proc EXCEPT ![use[u].proc].state = "exited"]
  BY <1>1, <1>2, <1>4, NoUseKnown, ProcessEnds
<1> QED BY <1>3, <1>4 DEF Reach

\* A call that is answered without another word.
LEMMA AnsweredStep ==
    ASSUME ToolsInv, NEW u \in Uses, AnswerTool(u), ~UseAt(u, "insert"),
           UNCHANGED <<resolverVars, poolVars, proc, sessionOf>>,
           adrift \subseteq adrift', adrift' \subseteq Procs,
           UseAt(u, "started") => ~Running(use[u].proc) \/ use[u].proc \in adrift'
    PROVE  ToolsInv'
<1>1. use' = [use EXCEPT ![u] = NoUse] /\ UNCHANGED <<link, pool, proc, sessionOf>>
  BY DEF AnswerTool, poolVars
<1>2. /\ use' \in [Uses -> UseRecords]
      /\ UsesKnown' /\ LinksKnown' /\ LinksAccounted' /\ RunningIsKnown'
  BY <1>1, NoUseKnown, UseMoves
<1> QED BY <1>1, <1>2, ResolverKept DEF ToolsInv, ToolsTyped

LEMMA FileCallStep ==
    ASSUME ToolsInv, NEW u \in Uses, FileCall(u)
    PROVE  ToolsInv'
<1>1. /\ AnswerTool(u) /\ use[u].pc = "call"
      /\ UNCHANGED <<resolverVars, poolVars, proc, sessionOf, adrift>> /\ adrift \subseteq Procs
  BY DEF FileCall, procVars, UseAt, ToolsInv, ToolsTyped
<1>2. ~UseAt(u, "insert") /\ ~UseAt(u, "started")
  BY <1>1 DEF UseAt
<1> QED BY <1>1, <1>2, AnsweredStep

LEMMA ShellEndsStep ==
    ASSUME ToolsInv, NEW u \in Uses, ShellEnds(u)
    PROVE  ToolsInv'
<1>1. /\ AnswerTool(u) /\ use[u].pc = "started"
      /\ UNCHANGED <<resolverVars, poolVars, proc, sessionOf>> /\ adrift \subseteq Procs
      /\ adrift' = IF Running(use[u].proc) THEN adrift \cup {use[u].proc} ELSE adrift
  BY DEF ShellEnds, UseAt, ToolsInv, ToolsTyped
<1>2. use[u].proc \in Procs /\ ~UseAt(u, "insert")
  BY <1>1 DEF ToolsInv, UsesKnown, KnownUse, UseAt
<1> QED BY <1>1, <1>2, AnsweredStep

LEMMA AddSessionStep ==
    ASSUME ToolsInv, NEW u \in Uses, AddSession(u)
    PROVE  ToolsInv'
<1>1. /\ use' = [use EXCEPT ![u] = NoUse] /\ use[u].pc = "started"
      /\ UNCHANGED <<resolverVars, link, pool, proc>>
      /\ adrift' = adrift \cup OldSessions
      /\ sessionOf' = [p \in Procs |-> IF p = use[u].proc THEN "young"
                                      ELSE IF p \in OldSessions THEN "none" ELSE sessionOf[p]]
  BY DEF AddSession, AnswerTool, UseAt, poolVars
<1>2. /\ use[u].proc \in Procs /\ proc[use[u].proc].link # NoLink
      /\ use \in [Uses -> UseRecords] /\ sessionOf \in [Procs -> {"none", "young", "old"}]
      /\ adrift \subseteq Procs /\ OldSessions \subseteq Procs
  BY <1>1 DEF ToolsInv, ToolsTyped, UsesKnown, KnownUse, OldSessions
<1>3. /\ \A v \in Uses : use'[v] = IF v = u THEN NoUse ELSE use[v]
      /\ use' \in [Uses -> UseRecords]
  BY <1>1, <1>2, NoUseKnown
<1>4. NoUse.link = NoLink /\ NoUse.pc = "idle"
  BY DEF NoUse
<1>5. /\ sessionOf' \in [Procs -> {"none", "young", "old"}]
      /\ \A p \in Procs : sessionOf'[p] # "none" => p = use[u].proc \/ sessionOf[p] # "none"
      /\ \A p \in Procs : sessionOf'[p] = "none" /\ p \notin adrift' =>
              sessionOf[p] = "none" /\ p # use[u].proc
  BY <1>1, <1>2
<1>6. UsesKnown'
  BY <1>1, <1>3, <1>4 DEF ToolsInv, UsesKnown, KnownUse, LinkDialled
<1>7. LinksKnown'
  BY <1>1, <1>2, <1>5 DEF ToolsInv, LinksKnown, LinkDialled
<1>8. LinksAccounted'
  <2>1. \A v \in Uses : use'[v].link # NoLink => link'[use'[v].link].exe = use'[v].exe
    BY <1>6 DEF UsesKnown, KnownUse, LinkDialled
  <2>2. \A v \in Uses : UseAt(v, "insert") => use'[v] = use[v]
    BY <1>1, <1>3 DEF UseAt
  <2> QED BY <1>1, <2>1, <2>2 DEF ToolsInv, LinksAccounted, Open, UseAt
<1>9. RunningIsKnown'
  <2> SUFFICES ASSUME NEW q \in Procs, Running(q)', q \notin adrift', sessionOf'[q] = "none"
               PROVE  \E v \in Uses : use'[v].proc = q /\ UseAt(v, "started")'
    BY DEF RunningIsKnown
  <2>1. Running(q) /\ sessionOf[q] = "none" /\ q # use[u].proc /\ q \notin adrift
    BY <1>1, <1>5 DEF Running
  <2>2. PICK v \in Uses : use[v].proc = q /\ UseAt(v, "started")
    BY <2>1 DEF ToolsInv, RunningIsKnown
  <2>3. use'[v] = use[v]
    BY <1>3, <2>1, <2>2
  <2> QED BY <2>2, <2>3 DEF UseAt
<1>10. ToolsTyped'
  BY <1>1, <1>2, <1>3, <1>5, ResolverKept DEF ToolsInv, ToolsTyped
<1> QED BY <1>1, <1>6, <1>7, <1>8, <1>9, <1>10, ResolverKept DEF ToolsInv

LEMMA ExecSessionAgesStep ==
    ASSUME ToolsInv, NEW p \in Procs, ExecSessionAges(p)
    PROVE  ToolsInv'
<1>1. /\ sessionOf' = [sessionOf EXCEPT ![p] = "old"] /\ sessionOf[p] = "young"
      /\ UNCHANGED <<resolverVars, link, pool, use, proc, adrift>>
  BY DEF ExecSessionAges, poolVars
<1>2. sessionOf \in [Procs -> {"none", "young", "old"}]
  BY DEF ToolsInv, ToolsTyped
<1>3. /\ sessionOf' \in [Procs -> {"none", "young", "old"}]
      /\ \A q \in Procs : sessionOf'[q] = "none" <=> sessionOf[q] = "none"
  BY <1>1, <1>2
<1>4. UsesKnown' /\ LinksAccounted'
  BY <1>1 DEF ToolsInv, UsesKnown, KnownUse, LinkDialled, LinksAccounted, Open, UseAt
<1>5. LinksKnown'
  BY <1>1, <1>3 DEF ToolsInv, LinksKnown, LinkDialled
<1>6. RunningIsKnown'
  BY <1>1, <1>3 DEF ToolsInv, RunningIsKnown, Running, UseAt
<1>7. ToolsTyped'
  BY <1>1, <1>3, ResolverKept DEF ToolsInv, ToolsTyped
<1> QED BY <1>1, <1>4, <1>5, <1>6, <1>7, ResolverKept DEF ToolsInv

LEMMA LookupStep ==
    ASSUME ToolsInv, NEW u \in Uses, NEW p \in Procs, NEW tool \in {"write", "terminate"},
           Lookup(u, p, tool)
    PROVE  ToolsInv'
<1> DEFINE found == sessionOf[p] = "young"
           gone == OldSessions \cup IF found /\ tool = "terminate" THEN {p} ELSE {}
           r == [NoUse EXCEPT !.pc = "get", !.tool = tool, !.exe = link[proc[p].link].exe, !.proc = p]
<1>1. /\ use[u].pc = "idle" /\ sessionOf[p] # "none"
      /\ UNCHANGED <<resolverVars, link, pool, proc>>
      /\ adrift' = adrift \cup gone
      /\ sessionOf' = [q \in Procs |-> IF q \in gone THEN "none" ELSE sessionOf[q]]
      /\ use' = IF ~found THEN use ELSE [use EXCEPT ![u] = r]
  BY DEF Lookup, UseAt, poolVars
<1>2. /\ link[proc[p].link].exe \in Machines
      /\ use \in [Uses -> UseRecords] /\ sessionOf \in [Procs -> {"none", "young", "old"}]
      /\ adrift \subseteq Procs /\ gone \subseteq Procs
  BY <1>1 DEF ToolsInv, ToolsTyped, LinksKnown, OldSessions
<1>3. r \in UseRecords /\ KnownUse(r) /\ r.pc = "get"
  BY <1>2 DEF NoUse, UseRecords, UseSteps, AnyMachine, KnownUse, LinkDialled
<1> HIDE DEF r, gone
<1>4. /\ \A v \in Uses : use'[v] = use[v] \/ (v = u /\ use'[v] = r)
      /\ use' \in [Uses -> UseRecords]
  BY <1>1, <1>2, <1>3
<1>5. /\ sessionOf' \in [Procs -> {"none", "young", "old"}]
      /\ \A q \in Procs : sessionOf'[q] # "none" => sessionOf[q] # "none"
      /\ \A q \in Procs : sessionOf'[q] = "none" /\ q \notin adrift' => sessionOf[q] = "none"
  BY <1>1, <1>2
<1>6. UsesKnown'
  <2> SUFFICES ASSUME NEW v \in Uses PROVE KnownUse(use[v])'
    BY DEF UsesKnown
  <2>1. KnownUse(use'[v])
    BY <1>3, <1>4 DEF ToolsInv, UsesKnown
  <2> QED BY <1>1, <2>1 DEF KnownUse, LinkDialled
<1>7. LinksKnown'
  BY <1>1, <1>5 DEF ToolsInv, LinksKnown, LinkDialled
<1>8. LinksAccounted'
  <2>1. \A v \in Uses : use'[v].link # NoLink => link'[use'[v].link].exe = use'[v].exe
    BY <1>6 DEF UsesKnown, KnownUse, LinkDialled
  <2>2. \A v \in Uses : UseAt(v, "insert") => use'[v] = use[v]
    BY <1>1, <1>4 DEF UseAt
  <2> QED BY <1>1, <2>1, <2>2 DEF ToolsInv, LinksAccounted, Open, UseAt
<1>9. RunningIsKnown'
  <2> SUFFICES ASSUME NEW q \in Procs, Running(q)', q \notin adrift', sessionOf'[q] = "none"
               PROVE  \E v \in Uses : use'[v].proc = q /\ UseAt(v, "started")'
    BY DEF RunningIsKnown
  <2>1. Running(q) /\ sessionOf[q] = "none" /\ q \notin adrift
    BY <1>1, <1>5 DEF Running
  <2>2. PICK v \in Uses : use[v].proc = q /\ UseAt(v, "started")
    BY <2>1 DEF ToolsInv, RunningIsKnown
  <2>3. v # u
    BY <1>1, <2>2 DEF UseAt
  <2> QED BY <1>4, <2>2, <2>3 DEF UseAt
<1>10. ToolsTyped'
  BY <1>1, <1>2, <1>4, <1>5, ResolverKept DEF ToolsInv, ToolsTyped
<1> QED BY <1>1, <1>6, <1>7, <1>8, <1>9, <1>10, ResolverKept DEF ToolsInv

LEMMA ToolsInvStep == ASSUME ToolsInv, [ToolsNext]_toolVars PROVE ToolsInv'
<1>1. ASSUME NEW u \in Uses,
             \/ \E tool \in {"shell", "exec", "file"} : Resolve(u, tool)
             \/ LLMView(u) \/ ResolverRefresh(u) \/ PoolGet(u) \/ PoolInsert(u)
             \/ \E l \in Links : DialBridge(u, l)
      PROVE  ToolsInv'
  BY <1>1, ResolveStep, LLMViewStep, ResolverRefreshStep, PoolGetStep, PoolInsertStep,
     DialBridgeStep
<1>2. ASSUME NEW u \in Uses,
             \/ \E p \in Procs : ProcessStart(u, p)
             \/ ShellEnds(u) \/ AddSession(u) \/ FileCall(u) \/ Reach(u)
             \/ \E p \in Procs, tool \in {"write", "terminate"} : Lookup(u, p, tool)
      PROVE  ToolsInv'
  BY <1>2, ProcessStartStep, ShellEndsStep, AddSessionStep, FileCallStep, ReachStep, LookupStep
<1>3. ASSUME NEW m \in Machines \cup {NoMachine}, NameMoves(m) PROVE ToolsInv'
  BY <1>3, NameMovesStep DEF AnyMachine
<1>4. ASSUME NEW f \in fetching, NEW stored \in BOOLEAN, FetchEnds(f, stored) PROVE ToolsInv'
  BY <1>4, FetchEndsStep
<1>5. CASE UNCHANGED toolVars
  BY <1>5 DEF toolVars, ToolsInv, ToolsTyped, NamesKnown, NamesKeepUp, UsesKnown, KnownUse,
              LinkDialled, LinksKnown, LinksAccounted, RunningIsKnown, Open, Running, UseAt
<1> QED BY <1>1, <1>2, <1>3, <1>4, <1>5, CacheAgesStep, LinkBreaksStep, ProcessExitsStep,
           ExecSessionAgesStep DEF ToolsNext

\* For any number of executors, calls, connections and processes: no connection is left
\* open out of reach, a call speaks to the executor it has resolved, no newer name is
\* overwritten, and a process runs with a call or a session that knows it (Pool.Get,
\* Resolver.refresh, sessionTable).
THEOREM ToolsAlwaysSound == ToolsSpec => [](ToolsTypeOK /\ ToolsSound)
<1>1. ToolsInv => ToolsTypeOK /\ ToolsSound
  <2> SUFFICES ASSUME ToolsInv PROVE ToolsTypeOK /\ ToolsSound
    OBVIOUS
  <2>1. ToolsSound
    BY DEF ToolsInv, ToolsSound, NamesKnown
  <2>2. ToolsTypeOK
    BY DEF ToolsInv, ToolsTyped, ToolsTypeOK, Namings, AnyMachine, UseRecords, UseSteps
  <2> QED BY <2>1, <2>2
<1> QED BY <1>1, ToolsInitInv, ToolsInvStep, PTL DEF ToolsSpec

-----------------------------------------------------------------------------
(* Copies between executors *)

CopyRecords == [pc : CopySteps, recursive : BOOLEAN, transport : {"auto", "http", "ws"},
                over : BOOLEAN, aborted : BOOLEAN]
ShellStates == {"none", "runs", "ok", "failed", "missing", "ended"}
SideStates == {"none", "start", "poll", "ok", "failed", "missing", "ended", "err"}
FileStates == [partial : {"none", "part", "whole"}, target : {"old", "part", "whole"}]

CopyTyped == CopyTypeOK /\ copy \in [Copies -> CopyRecords]

\* A side that has ended has seen its process exit, has ended it, or has left it
\* running because a call was lost.
SideKnown(c, s) ==
    /\ sideTask[c][s] # "none"
    /\ sideTask[c][s] = "start" => shell[c][s] = "none"
    /\ sideTask[c][s] = "poll" => shell[c][s] # "none"
    /\ sideTask[c][s] \in {"ok", "failed", "missing", "ended"} => shell[c][s] = sideTask[c][s]
    /\ sideTask[c][s] = "err" => ~ShellRuns(c, s) \/ s \in spared[c]

\* What a call still has to stop and to remove at its step; over the relay the
\* source ends well only when all has arrived.
ShellsLeft(c) == \A s \in Sides : ShellRuns(c, s) => s \in spared[c]
PartialLeft(c) == file[c].partial # "none" => spared[c] \cap {"partial", "destination"} # {}

CopyKnown(c) ==
    /\ copy[c].pc \in {"idle", "create"} =>
          /\ \A s \in Sides : shell[c][s] = "none" /\ sideTask[c][s] = "none"
          /\ file[c].partial = "none" /\ file[c].target = "old"
    /\ CopyAt(c, "join") => /\ \A s \in Sides : SideKnown(c, s)
                            /\ shell[c]["source"] = "ok" => file[c][Out(c)] = "whole"
    /\ ~CopyAt(c, "join") => \A s \in Sides : sideTask[c][s] \notin {"start", "poll"}
    /\ copy[c].pc \in {"start source", "rename", "ok", "error"} => ShellsLeft(c)
    /\ CopyAt(c, "start destination") =>
          (ShellRuns(c, "destination") => "destination" \in spared[c])
    /\ CopyAt(c, "drain") => ~ShellRuns(c, "source")
    /\ copy[c].pc \in {"start source", "start destination", "ok", "error"} => PartialLeft(c)
    /\ CopyAt(c, "rename") => file[c].partial = "whole" \/ c \in cut
    /\ copy[c].recursive => file[c].partial = "none" /\ ~CopyAt(c, "rename")
    /\ CopyAt(c, "ok") => file[c].target = "whole" \/ c \in cut
    /\ ~copy[c].recursive => file[c].target # "part" \/ c \in cut

CopyInv == CopyTyped /\ \A c \in Copies : CopyKnown(c)

LEMMA CopyInitInv == ASSUME CopyInit PROVE CopyInv
<1>1. CopyTyped
  BY Zenon DEF CopyInit, CopyTyped, CopyTypeOK, CopyRecords, CopySteps, CopyAt, Sides
<1>2. ASSUME NEW c \in Copies PROVE CopyKnown(c)
  BY Zenon DEF CopyInit, CopyKnown, CopyAt, ShellsLeft, PartialLeft, Sides
<1> QED BY <1>1, <1>2 DEF CopyInv

\* A step of a call leaves the others as they are.
OnlyFor(c) == \A d \in Copies : d # c =>
    /\ copy'[d] = copy[d] /\ shell'[d] = shell[d] /\ sideTask'[d] = sideTask[d]
    /\ file'[d] = file[d] /\ spared'[d] = spared[d] /\ (d \in cut' <=> d \in cut)

LEMMA CopyMoves ==
    ASSUME CopyInv, NEW c \in Copies, OnlyFor(c), CopyTyped', CopyKnown(c)'
    PROVE  CopyInv'
<1>1. ASSUME NEW d \in Copies, d # c PROVE CopyKnown(d)'
  <2>1. CopyKnown(d)
    BY DEF CopyInv
  <2>2. /\ copy'[d] = copy[d] /\ shell'[d] = shell[d] /\ sideTask'[d] = sideTask[d]
        /\ file'[d] = file[d] /\ spared'[d] = spared[d] /\ (d \in cut' <=> d \in cut)
    BY <1>1 DEF OnlyFor
  <2>3. file'[d][Out(d)'] = file[d][Out(d)]
    BY <2>2 DEF Out
  <2>4. \A s \in Sides : SideKnown(d, s) => SideKnown(d, s)'
    BY <2>2 DEF SideKnown, ShellRuns
  <2>5. /\ ShellsLeft(d) => ShellsLeft(d)'
        /\ PartialLeft(d) => PartialLeft(d)'
        /\ \A s \in Sides : ShellRuns(d, s)' <=> ShellRuns(d, s)
    BY <2>2 DEF ShellsLeft, PartialLeft, ShellRuns
  <2>6. \A pc \in CopySteps : CopyAt(d, pc)' <=> CopyAt(d, pc)
    BY <2>2 DEF CopyAt
  <2> QED BY <2>1, <2>2, <2>3, <2>4, <2>5, <2>6, ZenonT(40) DEF CopyKnown, CopyAt, CopySteps, Sides
<1> QED BY <1>1 DEF CopyInv

\* The parts of a call's state.
LEMMA CopyParts ==
    ASSUME CopyInv, NEW c \in Copies
    PROVE  /\ copy \in [Copies -> CopyRecords] /\ copy[c] \in CopyRecords
           /\ shell \in [Copies -> [Sides -> ShellStates]] /\ shell[c] \in [Sides -> ShellStates]
           /\ sideTask \in [Copies -> [Sides -> SideStates]]
           /\ sideTask[c] \in [Sides -> SideStates]
           /\ file \in [Copies -> FileStates] /\ file[c] \in FileStates
           /\ spared \in [Copies -> SUBSET (Sides \cup {"partial"})]
           /\ spared[c] \subseteq Sides \cup {"partial"}
           /\ cut \subseteq Copies /\ relayEnabled \in BOOLEAN
           /\ CopyKnown(c)
  BY DEF CopyInv, CopyTyped, CopyTypeOK, ShellStates, SideStates, FileStates

\* The converse: typed parts make a typed state.
LEMMA CopyTypedParts ==
    ASSUME copy \in [Copies -> CopyRecords], shell \in [Copies -> [Sides -> ShellStates]],
           sideTask \in [Copies -> [Sides -> SideStates]], file \in [Copies -> FileStates],
           spared \in [Copies -> SUBSET (Sides \cup {"partial"})], cut \subseteq Copies,
           relayEnabled \in BOOLEAN
    PROVE  CopyTyped
  BY DEF CopyTyped, CopyTypeOK, ShellStates, SideStates, FileStates, CopyRecords, CopyAt

LEMMA ProceedTo ==
    ASSUME CopyInv, NEW c \in Copies, NEW pc \in CopySteps, Proceed(c, pc)
    PROVE  /\ copy' \in [Copies -> CopyRecords] /\ \A d \in Copies : d # c => copy'[d] = copy[d]
           /\ copy'[c].pc = pc /\ copy'[c].recursive = copy[c].recursive
           /\ copy'[c].transport = copy[c].transport
<1>1. copy \in [Copies -> CopyRecords]
  BY CopyParts
<1> QED BY <1>1 DEF Proceed, CopyRecords

LEMMA OutOf ==
    ASSUME CopyInv, NEW c \in Copies
    PROVE  file[c][Out(c)] = IF copy[c].recursive THEN file[c].target ELSE file[c].partial
  BY DEF Out

\* Writing at the destination touches the destination itself only for a directory.
LEMMA WrittenOut ==
    ASSUME CopyInv, NEW c \in Copies, NEW w \in {"part", "whole"},
           file' = [file EXCEPT ![c][Out(c)] = w]
    PROVE  /\ file' \in [Copies -> FileStates] /\ \A d \in Copies : d # c => file'[d] = file[d]
           /\ copy[c].recursive => file'[c].target = w /\ file'[c].partial = file[c].partial
           /\ ~copy[c].recursive => file'[c].partial = w /\ file'[c].target = file[c].target
<1>1. file \in [Copies -> FileStates] /\ file[c] \in FileStates
  BY CopyParts
<1>2. CASE copy[c].recursive
  <2>1. file' = [file EXCEPT ![c] = [file[c] EXCEPT !.target = w]]
    BY <1>2 DEF Out
  <2>2. [file[c] EXCEPT !.target = w] \in FileStates
    BY <1>1 DEF FileStates
  <2> QED BY <1>1, <1>2, <2>1, <2>2 DEF FileStates
<1>3. CASE ~copy[c].recursive
  <2>1. file' = [file EXCEPT ![c] = [file[c] EXCEPT !.partial = w]]
    BY <1>3 DEF Out
  <2>2. [file[c] EXCEPT !.partial = w] \in FileStates
    BY <1>1 DEF FileStates
  <2> QED BY <1>1, <1>3, <2>1, <2>2 DEF FileStates
<1> QED BY <1>2, <1>3

\* After a clean-up the processes it was to stop have ended, or are spared; the
\* partial file it was to remove is gone, or spared.
LEMMA EndingDone ==
    ASSUME CopyInv, NEW c \in Copies, NEW stopped \in SUBSET Sides, NEW rm \in BOOLEAN,
           Ending(c, stopped, rm)
    PROVE  /\ shell' \in [Copies -> [Sides -> ShellStates]] /\ file' \in [Copies -> FileStates]
           /\ spared' \in [Copies -> SUBSET (Sides \cup {"partial"})]
           /\ \A d \in Copies : d # c =>
                 shell'[d] = shell[d] /\ file'[d] = file[d] /\ spared'[d] = spared[d]
           /\ spared[c] \subseteq spared'[c]
           /\ \A s \in Sides : \/ shell'[c][s] = shell[c][s]
                            \/ (shell[c][s] = "runs" /\ shell'[c][s] = "ended")
           /\ \A s \in stopped : shell'[c][s] = "runs" => s \in spared'[c]
           /\ file'[c].target = file[c].target
           /\ file'[c].partial = file[c].partial \/ file'[c].partial = "none"
           /\ rm => file'[c].partial = "none" \/ "partial" \in spared'[c]
           /\ ~rm => file'[c].partial = file[c].partial
<1>1. PICK lost \in SUBSET (stopped \cup IF rm THEN {"partial"} ELSE {}) :
        /\ spared' = [spared EXCEPT ![c] = @ \cup lost]
        /\ shell' = [shell EXCEPT ![c] = [s \in Sides |->
              IF s \in stopped \ lost /\ ShellRuns(c, s) THEN "ended" ELSE shell[c][s]]]
        /\ file' = IF rm /\ "partial" \notin lost
                   THEN [file EXCEPT ![c].partial = "none"] ELSE file
  BY DEF Ending
<1>2. /\ shell \in [Copies -> [Sides -> ShellStates]] /\ shell[c] \in [Sides -> ShellStates]
      /\ file \in [Copies -> FileStates] /\ file[c] \in FileStates
      /\ spared \in [Copies -> SUBSET (Sides \cup {"partial"})]
  BY CopyParts
<1>3. /\ spared' \in [Copies -> SUBSET (Sides \cup {"partial"})]
      /\ spared'[c] = spared[c] \cup lost /\ \A d \in Copies : d # c => spared'[d] = spared[d]
  BY <1>1, <1>2
<1>4. /\ shell' \in [Copies -> [Sides -> ShellStates]]
      /\ \A s \in Sides : shell'[c][s] = IF s \in stopped \ lost /\ ShellRuns(c, s)
                                         THEN "ended" ELSE shell[c][s]
      /\ \A d \in Copies : d # c => shell'[d] = shell[d]
  <2>1. [s \in Sides |-> IF s \in stopped \ lost /\ ShellRuns(c, s) THEN "ended" ELSE shell[c][s]]
          \in [Sides -> ShellStates]
    BY <1>2 DEF ShellStates
  <2> QED BY <1>1, <1>2, <2>1
<1>5. /\ file' \in [Copies -> FileStates] /\ \A d \in Copies : d # c => file'[d] = file[d]
      /\ file'[c].target = file[c].target
      /\ file'[c].partial = IF rm /\ "partial" \notin lost THEN "none" ELSE file[c].partial
  <2>1. CASE rm /\ "partial" \notin lost
    <3>1. file' = [file EXCEPT ![c] = [file[c] EXCEPT !.partial = "none"]]
      BY <1>1, <2>1
    <3>2. [file[c] EXCEPT !.partial = "none"] \in FileStates
      BY <1>2 DEF FileStates
    <3> QED BY <1>2, <2>1, <3>1, <3>2 DEF FileStates
  <2>2. CASE ~(rm /\ "partial" \notin lost)
    BY <1>1, <1>2, <2>2
  <2> QED BY <2>1, <2>2
<1>6. \A s \in Sides : \/ shell'[c][s] = shell[c][s]
                            \/ (shell[c][s] = "runs" /\ shell'[c][s] = "ended")
  BY <1>4 DEF ShellRuns
<1>7. \A s \in stopped : shell'[c][s] = "runs" => s \in spared'[c]
  BY <1>3, <1>4 DEF ShellRuns
<1>8. /\ rm => file'[c].partial = "none" \/ "partial" \in spared'[c]
      /\ ~rm => file'[c].partial = file[c].partial
  BY <1>3, <1>5
<1> QED BY <1>3, <1>4, <1>5, <1>6, <1>7, <1>8

\* Steps that only move the call.
LEMMA OnlyProceeds ==
    ASSUME CopyInv, NEW c \in Copies, copy' \in [Copies -> CopyRecords],
           \A d \in Copies : d # c => copy'[d] = copy[d],
           UNCHANGED <<shell, sideTask, file, spared>>, UNCHANGED relayEnabled, UNCHANGED cut,
           CopyKnown(c)'
    PROVE  CopyInv'
<1>1. CopyTyped'
  BY CopyParts, CopyTypedParts DEF CopyTyped, CopyTypeOK, ShellStates, SideStates, FileStates,
                                   CopyRecords, CopyAt
<1>2. OnlyFor(c)
  BY DEF OnlyFor
<1> QED BY <1>1, <1>2, CopyMoves

LEMMA CallCopyPathStep ==
    ASSUME CopyInv, NEW c \in Copies, CallCopyPath(c)
    PROVE  CopyInv'
<1>1. /\ copy \in [Copies -> CopyRecords] /\ copy[c] \in CopyRecords /\ copy[c].pc = "idle"
      /\ UNCHANGED <<shell, sideTask, file, spared, relayEnabled, cut>>
  BY CopyParts, Zenon DEF CallCopyPath, CopyAt, KeepSettings
<1>2. /\ \A s \in Sides : shell[c][s] = "none" /\ sideTask[c][s] = "none"
      /\ file[c].partial = "none" /\ file[c].target = "old"
  BY <1>1, CopyParts, Zenon DEF CopyKnown
<1>3. /\ copy' \in [Copies -> CopyRecords] /\ \A d \in Copies : d # c => copy'[d] = copy[d]
      /\ copy'[c].pc \in {"error", "create", "start source"}
  <2>1. CASE Proceed(c, "error")
    BY <2>1, ProceedTo, Zenon DEF CopySteps
  <2>2. ASSUME NEW recursive \in BOOLEAN, NEW transport \in {"auto", "http", "ws"},
               copy' = [copy EXCEPT ![c] = [@ EXCEPT
                  !.recursive = recursive, !.transport = transport,
                  !.pc = IF transport = "http" \/ (transport = "auto" /\ relayEnabled)
                         THEN "create" ELSE "start source"]]
        PROVE  /\ copy' \in [Copies -> CopyRecords]
               /\ \A d \in Copies : d # c => copy'[d] = copy[d]
               /\ copy'[c].pc \in {"error", "create", "start source"}
    BY <1>1, <2>2, Zenon DEF CopyRecords, CopySteps
  <2> QED BY <2>1, <2>2, Zenon DEF CallCopyPath
<1>4. CopyKnown(c)'
  BY <1>1, <1>2, <1>3, Zenon DEF CopyKnown, CopyAt, ShellsLeft, ShellRuns, PartialLeft, Sides
<1> QED BY <1>1, <1>3, <1>4, OnlyProceeds, Zenon

LEMMA DeadlineStep ==
    ASSUME CopyInv, NEW c \in Copies, Deadline(c)
    PROVE  CopyInv'
<1>1. /\ copy \in [Copies -> CopyRecords] /\ CopyKnown(c)
      /\ copy' = [copy EXCEPT ![c].over = TRUE]
      /\ UNCHANGED <<shell, sideTask, file, spared, relayEnabled, cut>>
  BY CopyParts DEF Deadline, KeepSettings
<1>2. /\ copy' \in [Copies -> CopyRecords] /\ \A d \in Copies : d # c => copy'[d] = copy[d]
      /\ copy'[c].pc = copy[c].pc /\ copy'[c].recursive = copy[c].recursive
  BY <1>1 DEF CopyRecords
<1>3. \A s \in Sides : SideKnown(c, s) => SideKnown(c, s)'
  BY <1>1 DEF SideKnown, ShellRuns
<1>4. Out(c)' = Out(c)
  BY <1>2 DEF Out
<1>5. CopyKnown(c)'
  BY <1>1, <1>2, <1>3, <1>4, Zenon DEF CopyKnown, CopyAt, ShellsLeft, ShellRuns, PartialLeft
<1> QED BY <1>1, <1>2, <1>5, OnlyProceeds

LEMMA CreateRelayStep ==
    ASSUME CopyInv, NEW c \in Copies, CreateRelay(c)
    PROVE  CopyInv'
<1>1. /\ copy[c].pc = "create" /\ UNCHANGED <<shell, file, spared, relayEnabled, cut>>
      /\ sideTask \in [Copies -> [Sides -> SideStates]] /\ CopyKnown(c)
  BY CopyParts, Zenon DEF CreateRelay, CopyAt, KeepSettings
<1>2. /\ \A s \in Sides : shell[c][s] = "none" /\ sideTask[c][s] = "none"
      /\ file[c].partial = "none" /\ file[c].target = "old"
  BY <1>1, Zenon DEF CopyKnown
<1>3. ASSUME UNCHANGED sideTask, NEW pc \in {"start source", "error"}, Proceed(c, pc)
      PROVE  CopyInv'
  <2>1. /\ copy' \in [Copies -> CopyRecords] /\ \A d \in Copies : d # c => copy'[d] = copy[d]
        /\ copy'[c].pc = pc
    BY <1>3, ProceedTo, Zenon DEF CopySteps
  <2>2. CopyKnown(c)'
    BY <1>1, <1>2, <1>3, <2>1, Zenon
       DEF CopyKnown, CopyAt, ShellsLeft, ShellRuns, PartialLeft, Sides
  <2> QED BY <1>1, <1>3, <2>1, <2>2, OnlyProceeds, Zenon
<1>4. CASE /\ Proceed(c, "join")
           /\ sideTask' = [sideTask EXCEPT ![c] = [s \in Sides |-> "start"]]
  <2>1. /\ copy' \in [Copies -> CopyRecords] /\ \A d \in Copies : d # c => copy'[d] = copy[d]
        /\ copy'[c].pc = "join"
    BY <1>4, ProceedTo, Zenon DEF CopySteps
  <2>2. /\ sideTask' \in [Copies -> [Sides -> SideStates]]
        /\ \A s \in Sides : sideTask'[c][s] = "start"
        /\ \A d \in Copies : d # c => sideTask'[d] = sideTask[d]
    BY <1>1, <1>4 DEF SideStates
  <2>3. \A s \in Sides : SideKnown(c, s)'
    BY <1>1, <1>2, <2>2 DEF SideKnown, ShellRuns
  <2>4. CopyKnown(c)'
    BY <1>1, <1>2, <2>1, <2>3 DEF CopyKnown, CopyAt, ShellsLeft, ShellRuns, PartialLeft, Sides
  <2>5. CopyTyped'
    BY <1>1, <2>1, <2>2, CopyParts DEF CopyTyped, CopyTypeOK, ShellStates, SideStates, FileStates,
                                       CopyRecords, CopyAt
  <2>6. OnlyFor(c)
    BY <1>1, <2>1, <2>2 DEF OnlyFor
  <2> QED BY <2>4, <2>5, <2>6, CopyMoves
<1> QED BY <1>3, <1>4, Zenon DEF CreateRelay

\* A step of one of the two goroutines of a call over the relay.
LEMMA SideMoves ==
    ASSUME CopyInv, NEW c \in Copies, NEW s \in Sides, CopyAt(c, "join"),
           copy' \in [Copies -> CopyRecords], \A d \in Copies : d # c => copy'[d] = copy[d],
           copy'[c].pc = copy[c].pc, copy'[c].recursive = copy[c].recursive,
           NEW t \in SideStates, sideTask' = [sideTask EXCEPT ![c][s] = t],
           shell' \in [Copies -> [Sides -> ShellStates]],
           \A d \in Copies : d # c => shell'[d] = shell[d],
           \A q \in Sides : q # s => shell'[c][q] = shell[c][q],
           spared' \in [Copies -> SUBSET (Sides \cup {"partial"})],
           \A d \in Copies : d # c => spared'[d] = spared[d], spared[c] \subseteq spared'[c],
           UNCHANGED <<file, relayEnabled, cut>>,
           SideKnown(c, s)',
           shell'[c]["source"] = "ok" => shell[c]["source"] = "ok"
    PROVE  CopyInv'
<1>1. /\ sideTask \in [Copies -> [Sides -> SideStates]] /\ CopyKnown(c) /\ copy[c].pc = "join"
  BY CopyParts DEF CopyAt
<1>2. /\ sideTask' \in [Copies -> [Sides -> SideStates]]
      /\ \A d \in Copies : d # c => sideTask'[d] = sideTask[d]
      /\ \A q \in Sides : q # s => sideTask'[c][q] = sideTask[c][q]
  BY <1>1
<1>3. \A q \in Sides : SideKnown(c, q)'
  <2> SUFFICES ASSUME NEW q \in Sides, q # s PROVE SideKnown(c, q)'
    OBVIOUS
  <2>1. SideKnown(c, q) /\ shell'[c][q] = shell[c][q] /\ sideTask'[c][q] = sideTask[c][q]
    BY <1>1, <1>2 DEF CopyKnown, CopyAt
  <2> QED BY <2>1 DEF SideKnown, ShellRuns
<1>4. Out(c)' = Out(c)
  BY DEF Out
<1>5. CopyKnown(c)'
  BY <1>1, <1>3, <1>4 DEF CopyKnown, CopyAt
<1>6. CopyTyped'
  BY <1>2, CopyParts DEF CopyTyped, CopyTypeOK, ShellStates, SideStates, FileStates,
                         CopyRecords, CopyAt
<1>7. OnlyFor(c)
  BY <1>2 DEF OnlyFor
<1> QED BY <1>5, <1>6, <1>7, CopyMoves

\* A goroutine is at work only while its call joins the two.
LEMMA SidesJoin ==
    ASSUME CopyInv, NEW c \in Copies, NEW s \in Sides, sideTask[c][s] \in {"start", "poll"}
    PROVE  CopyAt(c, "join") /\ SideKnown(c, s)
  BY CopyParts, Zenon DEF CopyKnown

LEMMA SideEndsTo ==
    ASSUME CopyInv, NEW c \in Copies, NEW s \in Sides, NEW t, SideEnds(c, s, t)
    PROVE  /\ copy' \in [Copies -> CopyRecords] /\ \A d \in Copies : d # c => copy'[d] = copy[d]
           /\ copy'[c].pc = copy[c].pc /\ copy'[c].recursive = copy[c].recursive
           /\ sideTask' = [sideTask EXCEPT ![c][s] = t] /\ sideTask'[c][s] = t
<1>1. copy \in [Copies -> CopyRecords] /\ copy[c] \in CopyRecords
      /\ sideTask \in [Copies -> [Sides -> SideStates]]
  BY CopyParts
<1>2. (copy[c].aborted \/ t # "ok") \in BOOLEAN
  BY <1>1 DEF CopyRecords
<1> QED BY <1>1, <1>2 DEF SideEnds, CopyRecords

LEMMA StartShellStep ==
    ASSUME CopyInv, NEW c \in Copies, NEW s \in Sides, StartShell(c, s)
    PROVE  CopyInv'
<1>1. /\ CopyAt(c, "join") /\ shell[c][s] = "none"
      /\ UNCHANGED <<file, relayEnabled, cut>>
      /\ shell \in [Copies -> [Sides -> ShellStates]] /\ copy \in [Copies -> CopyRecords]
      /\ sideTask \in [Copies -> [Sides -> SideStates]]
      /\ spared \in [Copies -> SUBSET (Sides \cup {"partial"})]
  BY SidesJoin, CopyParts DEF StartShell, KeepSettings, SideKnown
<1>2. ASSUME shell' = [shell EXCEPT ![c][s] = "runs"]
      PROVE  /\ shell' \in [Copies -> [Sides -> ShellStates]] /\ shell'[c][s] = "runs"
             /\ \A d \in Copies : d # c => shell'[d] = shell[d]
             /\ \A q \in Sides : q # s => shell'[c][q] = shell[c][q]
             /\ shell'[c]["source"] = "ok" => shell[c]["source"] = "ok"
  <2>1. shell[c] \in [Sides -> ShellStates] /\ "source" \in Sides
    BY <1>1 DEF Sides
  <2> QED BY <1>1, <1>2, <2>1 DEF ShellStates
<1>3. CASE /\ sideTask' = [sideTask EXCEPT ![c][s] = "poll"]
           /\ shell' = [shell EXCEPT ![c][s] = "runs"]
           /\ UNCHANGED <<copy, spared>>
  <2>1. sideTask'[c][s] = "poll"
    BY <1>1, <1>3
  <2>2. SideKnown(c, s)'
    BY <1>2, <1>3, <2>1 DEF SideKnown
  <2>3. "poll" \in SideStates
    BY DEF SideStates
  <2> QED BY <1>1, <1>2, <1>3, <2>2, <2>3, SideMoves
<1>4. CASE SideEnds(c, s, "err") /\ UNCHANGED <<shell, spared>>
  <2>1. SideKnown(c, s)'
    BY <1>1, <1>4, SideEndsTo DEF SideKnown, ShellRuns
  <2>2. "err" \in SideStates
    BY DEF SideStates
  <2>3. /\ copy' \in [Copies -> CopyRecords] /\ \A d \in Copies : d # c => copy'[d] = copy[d]
        /\ copy'[c].pc = copy[c].pc /\ copy'[c].recursive = copy[c].recursive
        /\ sideTask' = [sideTask EXCEPT ![c][s] = "err"] /\ sideTask'[c][s] = "err"
    BY <1>4, SideEndsTo
  <2>4. /\ shell' \in [Copies -> [Sides -> ShellStates]] /\ UNCHANGED shell
        /\ spared' \in [Copies -> SUBSET (Sides \cup {"partial"})] /\ UNCHANGED spared
    BY <1>1, <1>4
  <2> QED BY <1>1, <2>1, <2>2, <2>3, <2>4, SideMoves
<1>5. CASE /\ SideEnds(c, s, "err")
           /\ shell' = [shell EXCEPT ![c][s] = "runs"]
           /\ spared' = [spared EXCEPT ![c] = @ \cup {s}]
  <2>1. /\ spared' \in [Copies -> SUBSET (Sides \cup {"partial"})] /\ s \in spared'[c]
        /\ \A d \in Copies : d # c => spared'[d] = spared[d]
        /\ spared[c] \subseteq spared'[c]
    BY <1>1, <1>5
  <2>2. SideKnown(c, s)'
    BY <1>5, <2>1, SideEndsTo DEF SideKnown
  <2>3. "err" \in SideStates
    BY DEF SideStates
  <2>4. /\ copy' \in [Copies -> CopyRecords] /\ \A d \in Copies : d # c => copy'[d] = copy[d]
        /\ copy'[c].pc = copy[c].pc /\ copy'[c].recursive = copy[c].recursive
        /\ sideTask' = [sideTask EXCEPT ![c][s] = "err"] /\ sideTask'[c][s] = "err"
    BY <1>5, SideEndsTo
  <2> QED BY <1>1, <1>2, <1>5, <2>1, <2>2, <2>3, <2>4, SideMoves
<1> QED BY <1>3, <1>4, <1>5 DEF StartShell

LEMMA PollShellStep ==
    ASSUME CopyInv, NEW c \in Copies, NEW s \in Sides, PollShell(c, s)
    PROVE  CopyInv'
<1>1. /\ CopyAt(c, "join") /\ SideKnown(c, s) /\ sideTask[c][s] = "poll"
      /\ shell[c][s] # "runs" /\ SideEnds(c, s, shell[c][s])
      /\ UNCHANGED <<shell, file, spared, relayEnabled, cut>>
      /\ shell \in [Copies -> [Sides -> ShellStates]] /\ shell[c] \in [Sides -> ShellStates]
      /\ spared \in [Copies -> SUBSET (Sides \cup {"partial"})]
  BY SidesJoin, CopyParts DEF PollShell, KeepSettings, ShellRuns
<1>2. shell[c][s] \in {"ok", "failed", "missing", "ended"} /\ shell[c][s] \in SideStates
  BY <1>1 DEF SideKnown, ShellStates, SideStates
<1>3. /\ copy' \in [Copies -> CopyRecords] /\ \A d \in Copies : d # c => copy'[d] = copy[d]
      /\ copy'[c].pc = copy[c].pc /\ copy'[c].recursive = copy[c].recursive
      /\ sideTask' = [sideTask EXCEPT ![c][s] = shell[c][s]] /\ sideTask'[c][s] = shell[c][s]
  BY <1>1, SideEndsTo
<1>4. SideKnown(c, s)'
  BY <1>1, <1>2, <1>3 DEF SideKnown
<1> QED BY <1>1, <1>2, <1>3, <1>4, SideMoves

LEMMA PollFailsStep ==
    ASSUME CopyInv, NEW c \in Copies, NEW s \in Sides, PollFails(c, s)
    PROVE  CopyInv'
<1>1. /\ CopyAt(c, "join") /\ SideEnds(c, s, "err") /\ UNCHANGED <<relayEnabled, cut>>
      /\ shell \in [Copies -> [Sides -> ShellStates]] /\ shell[c] \in [Sides -> ShellStates]
      /\ spared \in [Copies -> SUBSET (Sides \cup {"partial"})]
      /\ file \in [Copies -> FileStates]
  BY SidesJoin, CopyParts DEF PollFails, KeepSettings
<1>2. /\ copy' \in [Copies -> CopyRecords] /\ \A d \in Copies : d # c => copy'[d] = copy[d]
      /\ copy'[c].pc = copy[c].pc /\ copy'[c].recursive = copy[c].recursive
      /\ sideTask' = [sideTask EXCEPT ![c][s] = "err"] /\ sideTask'[c][s] = "err"
  BY <1>1, SideEndsTo
<1>3. "err" \in SideStates
  BY DEF SideStates
<1>4. CASE /\ spared' = [spared EXCEPT ![c] = @ \cup {s}]
           /\ UNCHANGED <<shell, file>>
  <2>1. /\ spared' \in [Copies -> SUBSET (Sides \cup {"partial"})] /\ s \in spared'[c]
        /\ \A d \in Copies : d # c => spared'[d] = spared[d]
        /\ spared[c] \subseteq spared'[c]
    BY <1>1, <1>4
  <2>2. SideKnown(c, s)'
    BY <1>2, <2>1 DEF SideKnown
  <2> QED BY <1>1, <1>2, <1>3, <1>4, <2>1, <2>2, SideMoves
<1>5. CASE Ending(c, {s}, FALSE)
  <2>1. /\ shell' \in [Copies -> [Sides -> ShellStates]] /\ file' \in [Copies -> FileStates]
        /\ spared' \in [Copies -> SUBSET (Sides \cup {"partial"})]
        /\ \A d \in Copies : d # c =>
              shell'[d] = shell[d] /\ file'[d] = file[d] /\ spared'[d] = spared[d]
        /\ spared[c] \subseteq spared'[c]
        /\ \A q \in Sides : \/ shell'[c][q] = shell[c][q]
                            \/ (shell[c][q] = "runs" /\ shell'[c][q] = "ended")
        /\ shell'[c][s] = "runs" => s \in spared'[c]
    <3>1. {s} \in SUBSET Sides /\ s \in {s} /\ FALSE \in BOOLEAN
      OBVIOUS
    <3> QED BY <1>5, <3>1, EndingDone
  <2>2. UNCHANGED file
    BY <1>5 DEF Ending
  <2>3. \A q \in Sides : q # s => shell'[c][q] = shell[c][q]
    BY <1>1, <1>5 DEF Ending
  <2>4. SideKnown(c, s)'
    BY <1>2, <2>1 DEF SideKnown, ShellRuns
  <2>5. shell'[c]["source"] = "ok" => shell[c]["source"] = "ok"
    BY <2>1 DEF Sides
  <2>6. /\ \A d \in Copies : d # c => shell'[d] = shell[d]
        /\ \A d \in Copies : d # c => spared'[d] = spared[d]
    BY <2>1
  <2>7. UNCHANGED <<file, relayEnabled, cut>>
    BY <1>1, <2>2
  <2>8. shell' \in [Copies -> [Sides -> ShellStates]] /\ spared[c] \subseteq spared'[c]
        /\ spared' \in [Copies -> SUBSET (Sides \cup {"partial"})]
    BY <2>1
  <2> QED BY <1>1, <1>2, <1>3, <2>3, <2>4, <2>5, <2>6, <2>7, <2>8, SideMoves
<1> QED BY <1>4, <1>5 DEF PollFails

\* A step of a call that leaves the goroutines of the relay path alone.
LEMMA CallMoves ==
    ASSUME CopyInv, NEW c \in Copies,
           copy' \in [Copies -> CopyRecords], \A d \in Copies : d # c => copy'[d] = copy[d],
           shell' \in [Copies -> [Sides -> ShellStates]],
           \A d \in Copies : d # c => shell'[d] = shell[d],
           spared' \in [Copies -> SUBSET (Sides \cup {"partial"})],
           \A d \in Copies : d # c => spared'[d] = spared[d],
           file' \in [Copies -> FileStates], \A d \in Copies : d # c => file'[d] = file[d],
           cut' \subseteq Copies, \A d \in Copies : d # c => (d \in cut' <=> d \in cut),
           UNCHANGED <<relayEnabled, sideTask>>, CopyKnown(c)'
    PROVE  CopyInv'
<1>1. sideTask \in [Copies -> [Sides -> SideStates]] /\ relayEnabled \in BOOLEAN
  BY CopyParts DEF CopyInv, CopyTyped, CopyTypeOK, SideStates
<1>2. CopyTyped'
  BY <1>1 DEF CopyTyped, CopyTypeOK, ShellStates, SideStates, FileStates, CopyRecords, CopyAt
<1>3. OnlyFor(c)
  BY DEF OnlyFor
<1> QED BY <1>2, <1>3, CopyMoves

\* What is so while a call joins its two sides.
LEMMA JoinKnown ==
    ASSUME CopyInv, NEW c \in Copies, CopyAt(c, "join"),
           EndedAs(c) \cap {"start", "poll"} = {}
    PROVE  /\ ShellsLeft(c) /\ \A s \in Sides : sideTask[c][s] \notin {"start", "poll"}
           /\ EndedAs(c) = {"ok"} => file[c][Out(c)] = "whole"
<1>1. /\ \A s \in Sides : SideKnown(c, s)
      /\ shell[c]["source"] = "ok" => file[c][Out(c)] = "whole"
  BY CopyParts, Zenon DEF CopyKnown
<1>2. \A s \in Sides : sideTask[c][s] \in EndedAs(c)
  BY DEF EndedAs
<1>3. \A s \in Sides : sideTask[c][s] \in SideStates
  BY CopyParts
<1>4. ShellsLeft(c)
  BY <1>1, <1>2, <1>3 DEF ShellsLeft, SideKnown, ShellRuns, SideStates
<1>5. EndedAs(c) = {"ok"} => shell[c]["source"] = "ok"
  BY <1>1, <1>2 DEF SideKnown, Sides
<1> QED BY <1>1, <1>2, <1>4, <1>5

LEMMA JoinWellStep ==
    ASSUME CopyInv, NEW c \in Copies, JoinWell(c)
    PROVE  CopyInv'
<1> DEFINE pc == IF copy[c].recursive THEN "ok" ELSE "rename"
<1>1. /\ CopyAt(c, "join") /\ EndedAs(c) = {"ok"} /\ Proceed(c, pc) /\ CopyKnown(c)
      /\ UNCHANGED <<shell, sideTask, file, spared, relayEnabled, cut>>
      /\ copy[c].recursive \in BOOLEAN
  BY CopyParts DEF JoinWell, KeepSettings, CopyRecords
<1>2. /\ ShellsLeft(c) /\ \A s \in Sides : sideTask[c][s] \notin {"start", "poll"}
      /\ (IF copy[c].recursive THEN file[c].target ELSE file[c].partial) = "whole"
  <2>1. EndedAs(c) \cap {"start", "poll"} = {}
    BY <1>1
  <2> QED BY <1>1, <2>1, JoinKnown, OutOf
<1>3. pc \in CopySteps
  BY DEF CopySteps
<1>4. /\ copy' \in [Copies -> CopyRecords] /\ \A d \in Copies : d # c => copy'[d] = copy[d]
      /\ copy'[c].pc = pc /\ copy'[c].recursive = copy[c].recursive
  BY <1>1, <1>3, ProceedTo
<1>5. CopyKnown(c)'
  BY <1>1, <1>2, <1>4 DEF CopyKnown, CopyAt, ShellsLeft, ShellRuns, PartialLeft
<1> QED BY <1>1, <1>4, <1>5, OnlyProceeds

LEMMA JoinBadlyStep ==
    ASSUME CopyInv, NEW c \in Copies, JoinBadly(c)
    PROVE  CopyInv'
<1> DEFINE pc == IF copy[c].transport = "auto" /\ "missing" \in EndedAs(c)
                 THEN "start source" ELSE "error"
<1>1. /\ CopyAt(c, "join") /\ EndedAs(c) \cap {"start", "poll"} = {}
      /\ Proceed(c, pc) /\ CopyKnown(c) /\ Ending(c, {}, ~copy[c].recursive)
      /\ UNCHANGED <<sideTask, relayEnabled, cut>> /\ cut \subseteq Copies
  BY CopyParts, Zenon DEF JoinBadly, KeepSettings
<1>2. ShellsLeft(c) /\ \A s \in Sides : sideTask[c][s] \notin {"start", "poll"}
  BY <1>1, JoinKnown, Zenon
<1>3. pc \in {"start source", "error"} /\ pc \in CopySteps
  BY DEF CopySteps
<1>4. /\ copy' \in [Copies -> CopyRecords] /\ \A d \in Copies : d # c => copy'[d] = copy[d]
      /\ copy'[c].pc = pc /\ copy'[c].recursive = copy[c].recursive
  BY <1>1, <1>3, ProceedTo, Zenon
<1>5. /\ shell' \in [Copies -> [Sides -> ShellStates]] /\ file' \in [Copies -> FileStates]
      /\ spared' \in [Copies -> SUBSET (Sides \cup {"partial"})]
      /\ \A d \in Copies : d # c =>
            shell'[d] = shell[d] /\ file'[d] = file[d] /\ spared'[d] = spared[d]
      /\ spared[c] \subseteq spared'[c]
      /\ \A s \in Sides : shell'[c][s] = "runs" => shell[c][s] = "runs"
      /\ file'[c].target = file[c].target
      /\ file'[c].partial = file[c].partial \/ file'[c].partial = "none"
      /\ ~copy[c].recursive => file'[c].partial = "none" \/ "partial" \in spared'[c]
  <2>1. {} \in SUBSET Sides /\ (~copy[c].recursive) \in BOOLEAN
    OBVIOUS
  <2> QED BY <1>1, <2>1, EndingDone, Zenon
<1> HIDE DEF pc
<1>6. CopyKnown(c)'
  <2>1. ShellsLeft(c)' /\ PartialLeft(c)'
    BY <1>1, <1>2, <1>5, Zenon DEF ShellsLeft, ShellRuns, PartialLeft, CopyKnown
  <2> QED BY <1>1, <1>2, <1>3, <1>4, <1>5, <2>1, Zenon DEF CopyKnown, CopyAt
<1>7. /\ \A d \in Copies : d # c => shell'[d] = shell[d]
      /\ \A d \in Copies : d # c => file'[d] = file[d]
      /\ \A d \in Copies : d # c => spared'[d] = spared[d]
  BY <1>5
<1> QED BY <1>1, <1>4, <1>5, <1>6, <1>7, CallMoves

\* The settings of the steps over the bridge.
LEMMA StartSourceStep ==
    ASSUME CopyInv, NEW c \in Copies, StartSource(c)
    PROVE  CopyInv'
<1>1. /\ CopyAt(c, "start source") /\ CopyKnown(c)
      /\ UNCHANGED <<sideTask, file, relayEnabled, cut>> /\ cut \subseteq Copies
      /\ shell \in [Copies -> [Sides -> ShellStates]] /\ file \in [Copies -> FileStates]
      /\ spared \in [Copies -> SUBSET (Sides \cup {"partial"})]
  BY CopyParts, Zenon DEF StartSource, KeepSettings
<1>2. ShellsLeft(c) /\ PartialLeft(c) /\ \A s \in Sides : sideTask[c][s] \notin {"start", "poll"}
  BY <1>1, Zenon DEF CopyKnown, CopyAt
<1>3. ASSUME shell' = [shell EXCEPT ![c]["source"] = "runs"]
      PROVE  /\ shell' \in [Copies -> [Sides -> ShellStates]]
             /\ \A d \in Copies : d # c => shell'[d] = shell[d]
             /\ shell'[c]["destination"] = shell[c]["destination"]
  BY <1>1, <1>3, Zenon DEF ShellStates, Sides
<1>4. CASE /\ Proceed(c, "start destination")
           /\ shell' = [shell EXCEPT ![c]["source"] = "runs"]
           /\ UNCHANGED spared
  <2>1. /\ copy' \in [Copies -> CopyRecords] /\ \A d \in Copies : d # c => copy'[d] = copy[d]
        /\ copy'[c].pc = "start destination" /\ copy'[c].recursive = copy[c].recursive
    BY <1>4, ProceedTo, Zenon DEF CopySteps
  <2>2. CopyKnown(c)'
    BY <1>1, <1>2, <1>3, <1>4, <2>1, Zenon
       DEF CopyKnown, CopyAt, ShellsLeft, ShellRuns, PartialLeft, Sides
  <2> QED BY <1>1, <1>3, <1>4, <2>1, <2>2, CallMoves, Zenon
<1>5. CASE Proceed(c, "error") /\ UNCHANGED <<shell, spared>>
  <2>1. /\ copy' \in [Copies -> CopyRecords] /\ \A d \in Copies : d # c => copy'[d] = copy[d]
        /\ copy'[c].pc = "error" /\ copy'[c].recursive = copy[c].recursive
    BY <1>5, ProceedTo, Zenon DEF CopySteps
  <2>2. CopyKnown(c)'
    BY <1>1, <1>2, <1>5, <2>1, Zenon
       DEF CopyKnown, CopyAt, ShellsLeft, ShellRuns, PartialLeft, Sides
  <2> QED BY <1>1, <1>5, <2>1, <2>2, OnlyProceeds, Zenon
<1>6. CASE /\ Proceed(c, "error")
           /\ shell' = [shell EXCEPT ![c]["source"] = "runs"]
           /\ spared' = [spared EXCEPT ![c] = @ \cup {"source"}]
  <2>1. /\ copy' \in [Copies -> CopyRecords] /\ \A d \in Copies : d # c => copy'[d] = copy[d]
        /\ copy'[c].pc = "error" /\ copy'[c].recursive = copy[c].recursive
    BY <1>6, ProceedTo, Zenon DEF CopySteps
  <2>2. /\ spared' \in [Copies -> SUBSET (Sides \cup {"partial"})]
        /\ spared'[c] = spared[c] \cup {"source"}
        /\ \A d \in Copies : d # c => spared'[d] = spared[d]
    BY <1>1, <1>6, Zenon DEF Sides
  <2>3. ShellsLeft(c)' /\ PartialLeft(c)'
    BY <1>1, <1>2, <1>3, <1>6, <2>2, Zenon DEF ShellsLeft, ShellRuns, PartialLeft, Sides
  <2>4. CopyKnown(c)'
    BY <1>1, <1>2, <2>1, <2>3, Zenon DEF CopyKnown, CopyAt
  <2> QED BY <1>1, <1>3, <1>6, <2>1, <2>2, <2>4, CallMoves, Zenon
<1> QED BY <1>4, <1>5, <1>6, Zenon DEF StartSource

LEMMA StartDestinationStep ==
    ASSUME CopyInv, NEW c \in Copies, StartDestination(c)
    PROVE  CopyInv'
<1>1. /\ CopyAt(c, "start destination") /\ CopyKnown(c)
      /\ UNCHANGED <<sideTask, relayEnabled, cut>> /\ cut \subseteq Copies
      /\ shell \in [Copies -> [Sides -> ShellStates]] /\ file \in [Copies -> FileStates]
      /\ shell[c] \in [Sides -> ShellStates]
      /\ spared \in [Copies -> SUBSET (Sides \cup {"partial"})]
  BY CopyParts, Zenon DEF StartDestination, KeepSettings
<1>2. /\ PartialLeft(c) /\ \A s \in Sides : sideTask[c][s] \notin {"start", "poll"}
      /\ ShellRuns(c, "destination") => "destination" \in spared[c]
      /\ copy[c].recursive => file[c].partial = "none"
      /\ ~copy[c].recursive => file[c].target # "part" \/ c \in cut
  BY <1>1, Zenon DEF CopyKnown, CopyAt
<1>3. ASSUME file' = [file EXCEPT ![c][Out(c)] = "part"]
      PROVE  /\ file' \in [Copies -> FileStates] /\ \A d \in Copies : d # c => file'[d] = file[d]
             /\ copy[c].recursive => file'[c].partial = file[c].partial
             /\ ~copy[c].recursive => file'[c].target = file[c].target
  <2>1. "part" \in {"part", "whole"}
    OBVIOUS
  <2> QED BY <1>3, <2>1, WrittenOut
<1>4. CASE /\ Proceed(c, "pump")
           /\ shell' = [shell EXCEPT ![c]["destination"] = "runs"]
           /\ file' = [file EXCEPT ![c][Out(c)] = "part"]
           /\ UNCHANGED spared
  <2>1. /\ copy' \in [Copies -> CopyRecords] /\ \A d \in Copies : d # c => copy'[d] = copy[d]
        /\ copy'[c].pc = "pump" /\ copy'[c].recursive = copy[c].recursive
    BY <1>4, ProceedTo, Zenon DEF CopySteps
  <2>2. /\ shell' \in [Copies -> [Sides -> ShellStates]]
        /\ \A d \in Copies : d # c => shell'[d] = shell[d]
    BY <1>1, <1>4, Zenon DEF ShellStates, Sides
  <2>3. CopyKnown(c)'
    BY <1>1, <1>2, <1>3, <1>4, <2>1, Zenon DEF CopyKnown, CopyAt
  <2>4. spared' \in [Copies -> SUBSET (Sides \cup {"partial"})] /\ UNCHANGED spared
    BY <1>1, <1>4, Zenon
  <2> QED BY <1>1, <1>3, <1>4, <2>1, <2>2, <2>3, <2>4, CallMoves, Zenon
<1>5. CASE Proceed(c, "error") /\ Ending(c, {"source"}, FALSE)
  <2>1. /\ copy' \in [Copies -> CopyRecords] /\ \A d \in Copies : d # c => copy'[d] = copy[d]
        /\ copy'[c].pc = "error" /\ copy'[c].recursive = copy[c].recursive
    BY <1>5, ProceedTo, Zenon DEF CopySteps
  <2>2. /\ shell' \in [Copies -> [Sides -> ShellStates]] /\ file' \in [Copies -> FileStates]
        /\ spared' \in [Copies -> SUBSET (Sides \cup {"partial"})]
        /\ \A d \in Copies : d # c =>
              shell'[d] = shell[d] /\ file'[d] = file[d] /\ spared'[d] = spared[d]
        /\ spared[c] \subseteq spared'[c]
        /\ \A s \in Sides : shell'[c][s] = "runs" => shell[c][s] = "runs"
        /\ shell'[c]["source"] = "runs" => "source" \in spared'[c]
        /\ file'[c].target = file[c].target /\ file'[c].partial = file[c].partial
    <3>1. {"source"} \in SUBSET Sides /\ "source" \in {"source"} /\ FALSE \in BOOLEAN
      BY DEF Sides
    <3> QED BY <1>5, <3>1, EndingDone
  <2>3. ShellsLeft(c)' /\ PartialLeft(c)'
    BY <1>2, <2>2 DEF ShellsLeft, ShellRuns, PartialLeft, Sides
  <2>4. CopyKnown(c)'
    BY <1>1, <1>2, <2>1, <2>2, <2>3, Zenon DEF CopyKnown, CopyAt
  <2>5. /\ \A d \in Copies : d # c => shell'[d] = shell[d]
        /\ \A d \in Copies : d # c => file'[d] = file[d]
        /\ \A d \in Copies : d # c => spared'[d] = spared[d]
    BY <2>2
  <2> QED BY <1>1, <2>1, <2>2, <2>4, <2>5, CallMoves, Zenon
<1>6. ASSUME Proceed(c, "error"), file' = [file EXCEPT ![c][Out(c)] = "part"],
             NEW lost \in SUBSET {"source"},
             shell' = [shell EXCEPT ![c]["destination"] = "runs",
                            ![c]["source"] = IF lost = {} /\ @ = "runs" THEN "ended" ELSE @],
             spared' = [spared EXCEPT ![c] = @ \cup {"destination"} \cup lost]
      PROVE  CopyInv'
  <2>1. /\ copy' \in [Copies -> CopyRecords] /\ \A d \in Copies : d # c => copy'[d] = copy[d]
        /\ copy'[c].pc = "error" /\ copy'[c].recursive = copy[c].recursive
    BY <1>6, ProceedTo, Zenon DEF CopySteps
  <2>2. /\ spared' \in [Copies -> SUBSET (Sides \cup {"partial"})]
        /\ spared'[c] = spared[c] \cup {"destination"} \cup lost
        /\ \A d \in Copies : d # c => spared'[d] = spared[d]
    BY <1>1, <1>6, Zenon DEF Sides
  <2>3. /\ shell' \in [Copies -> [Sides -> ShellStates]]
        /\ \A d \in Copies : d # c => shell'[d] = shell[d]
        /\ shell'[c]["source"] = IF lost = {} /\ shell[c]["source"] = "runs" THEN "ended"
                                 ELSE shell[c]["source"]
    BY <1>1, <1>6, Zenon DEF ShellStates, Sides
  <2>4. lost = {} \/ "source" \in lost
    BY <1>6
  <2>5. ShellsLeft(c)' /\ PartialLeft(c)'
    BY <2>2, <2>3, <2>4 DEF ShellsLeft, ShellRuns, PartialLeft, Sides
  <2>6. CopyKnown(c)'
    BY <1>1, <1>2, <1>3, <1>6, <2>1, <2>5, Zenon DEF CopyKnown, CopyAt
  <2> QED BY <1>1, <1>3, <1>6, <2>1, <2>2, <2>3, <2>6, CallMoves, Zenon
<1> QED BY <1>4, <1>5, <1>6, Zenon DEF StartDestination

LEMMA PumpAllStep ==
    ASSUME CopyInv, NEW c \in Copies, PumpAll(c)
    PROVE  CopyInv'
<1>1. /\ CopyAt(c, "pump") /\ CopyKnown(c) /\ shell[c]["source"] = "ok"
      /\ UNCHANGED <<shell, sideTask, file, spared, relayEnabled, cut>>
  BY CopyParts DEF PumpAll, KeepSettings
<1>2. /\ copy' \in [Copies -> CopyRecords] /\ \A d \in Copies : d # c => copy'[d] = copy[d]
      /\ copy'[c].pc = "drain" /\ copy'[c].recursive = copy[c].recursive
  BY ProceedTo, Zenon DEF PumpAll, CopySteps
<1>3. CopyKnown(c)'
  BY <1>1, <1>2 DEF CopyKnown, CopyAt, ShellRuns
<1> QED BY <1>1, <1>2, <1>3, OnlyProceeds

LEMMA PumpFailsStep ==
    ASSUME CopyInv, NEW c \in Copies, PumpFails(c)
    PROVE  CopyInv'
<1>1. /\ CopyAt(c, "pump") /\ CopyKnown(c) /\ Ending(c, Sides, ~copy[c].recursive)
      /\ UNCHANGED <<sideTask, relayEnabled, cut>> /\ cut \subseteq Copies
  BY CopyParts DEF PumpFails, KeepSettings
<1>2. /\ copy' \in [Copies -> CopyRecords] /\ \A d \in Copies : d # c => copy'[d] = copy[d]
      /\ copy'[c].pc = "error" /\ copy'[c].recursive = copy[c].recursive
  BY ProceedTo, Zenon DEF PumpFails, CopySteps
<1>3. /\ shell' \in [Copies -> [Sides -> ShellStates]] /\ file' \in [Copies -> FileStates]
      /\ spared' \in [Copies -> SUBSET (Sides \cup {"partial"})]
      /\ \A d \in Copies : d # c =>
            shell'[d] = shell[d] /\ file'[d] = file[d] /\ spared'[d] = spared[d]
      /\ \A s \in Sides : shell'[c][s] = "runs" => s \in spared'[c]
      /\ file'[c].target = file[c].target
      /\ file'[c].partial = file[c].partial \/ file'[c].partial = "none"
      /\ ~copy[c].recursive => file'[c].partial = "none" \/ "partial" \in spared'[c]
  <2>1. Sides \in SUBSET Sides /\ (~copy[c].recursive) \in BOOLEAN
    OBVIOUS
  <2> QED BY <1>1, <2>1, EndingDone
<1>4. ShellsLeft(c)' /\ PartialLeft(c)'
  BY <1>1, <1>3, Zenon DEF ShellsLeft, ShellRuns, PartialLeft, CopyKnown
<1>5. CopyKnown(c)'
  BY <1>1, <1>2, <1>3, <1>4 DEF CopyKnown, CopyAt
<1>6. /\ \A d \in Copies : d # c => shell'[d] = shell[d]
      /\ \A d \in Copies : d # c => file'[d] = file[d]
      /\ \A d \in Copies : d # c => spared'[d] = spared[d]
  BY <1>3
<1> QED BY <1>1, <1>2, <1>3, <1>5, <1>6, CallMoves

\* A destination that is ended before it has written all of its input is cut.
LEMMA DrainAndTerminateStep ==
    ASSUME CopyInv, NEW c \in Copies, DrainAndTerminate(c)
    PROVE  CopyInv'
<1> DEFINE pc == IF copy[c].recursive THEN "ok" ELSE "rename"
<1>1. /\ CopyAt(c, "drain") /\ CopyKnown(c) /\ Proceed(c, pc)
      /\ UNCHANGED <<sideTask, relayEnabled>> /\ cut \subseteq Copies
      /\ cut' = IF file[c][Out(c)] = "whole" THEN cut ELSE cut \cup {c}
      /\ shell \in [Copies -> [Sides -> ShellStates]] /\ file \in [Copies -> FileStates]
      /\ spared \in [Copies -> SUBSET (Sides \cup {"partial"})]
  BY CopyParts DEF DrainAndTerminate
<1>2. /\ ~ShellRuns(c, "source") /\ \A s \in Sides : sideTask[c][s] \notin {"start", "poll"}
      /\ copy[c].recursive => file[c].partial = "none"
      /\ ~copy[c].recursive => file[c].target # "part" \/ c \in cut
  BY <1>1 DEF CopyKnown, CopyAt
<1>3. /\ copy' \in [Copies -> CopyRecords] /\ \A d \in Copies : d # c => copy'[d] = copy[d]
      /\ copy'[c].pc = pc /\ copy'[c].recursive = copy[c].recursive
  <2>1. pc \in CopySteps
    BY DEF CopySteps
  <2> QED BY <1>1, <2>1, ProceedTo
<1>4. /\ shell' \in [Copies -> [Sides -> ShellStates]] /\ UNCHANGED file
      /\ spared' \in [Copies -> SUBSET (Sides \cup {"partial"})]
      /\ \A d \in Copies : d # c => shell'[d] = shell[d]
      /\ \A d \in Copies : d # c => spared'[d] = spared[d]
      /\ ShellsLeft(c)'
  <2>1. CASE Ending(c, {"destination"}, FALSE)
    <3>1. {"destination"} \in SUBSET Sides /\ "destination" \in {"destination"} /\ FALSE \in BOOLEAN
      BY DEF Sides
    <3>2. /\ shell' \in [Copies -> [Sides -> ShellStates]]
          /\ spared' \in [Copies -> SUBSET (Sides \cup {"partial"})]
          /\ \A d \in Copies : d # c =>
                shell'[d] = shell[d] /\ file'[d] = file[d] /\ spared'[d] = spared[d]
          /\ \A s \in Sides : shell'[c][s] = "runs" => shell[c][s] = "runs"
          /\ shell'[c]["destination"] = "runs" => "destination" \in spared'[c]
      BY <2>1, <3>1, EndingDone
    <3>3. UNCHANGED file
      BY <2>1 DEF Ending
    <3>4. ShellsLeft(c)'
      BY <1>2, <3>2 DEF ShellsLeft, ShellRuns, Sides
    <3> QED BY <3>2, <3>3, <3>4
  <2>2. CASE /\ spared' = [spared EXCEPT ![c] = @ \cup {"destination"}]
             /\ UNCHANGED <<shell, file>>
    <3>1. /\ spared' \in [Copies -> SUBSET (Sides \cup {"partial"})]
          /\ spared'[c] = spared[c] \cup {"destination"}
          /\ \A d \in Copies : d # c => spared'[d] = spared[d]
      BY <1>1, <2>2 DEF Sides
    <3>2. ShellsLeft(c)'
      BY <1>2, <2>2, <3>1 DEF ShellsLeft, ShellRuns, Sides
    <3> QED BY <1>1, <2>2, <3>1, <3>2
  <2> QED BY <2>1, <2>2 DEF DrainAndTerminate
<1>5. (IF copy[c].recursive THEN file[c].target ELSE file[c].partial) = "whole" \/ c \in cut'
  BY <1>1, OutOf
<1>6. cut' \subseteq Copies /\ (c \in cut => c \in cut')
      /\ \A d \in Copies : d # c => (d \in cut' <=> d \in cut)
  BY <1>1
<1>7. file' \in [Copies -> FileStates] /\ \A d \in Copies : d # c => file'[d] = file[d]
  BY <1>1, <1>4
<1>8. CopyKnown(c)'
  <2>1. CASE copy[c].recursive
    <3>1. pc = "ok"
      BY <2>1
    <3>2. PartialLeft(c)'
      BY <1>2, <1>4, <2>1 DEF PartialLeft
    <3> QED BY <1>1, <1>2, <1>3, <1>4, <1>5, <2>1, <3>1, <3>2 DEF CopyKnown, CopyAt
  <2>2. CASE ~copy[c].recursive
    <3>1. pc = "rename"
      BY <2>2
    <3> QED BY <1>1, <1>2, <1>3, <1>4, <1>5, <1>6, <2>2, <3>1 DEF CopyKnown, CopyAt
  <2> QED BY <2>1, <2>2
<1> HIDE DEF pc
<1> QED BY <1>1, <1>3, <1>4, <1>6, <1>7, <1>8, CallMoves

LEMMA RemoteRenameStep ==
    ASSUME CopyInv, NEW c \in Copies, RemoteRename(c)
    PROVE  CopyInv'
<1>1. /\ CopyAt(c, "rename") /\ CopyKnown(c) /\ file[c].partial # "none"
      /\ UNCHANGED <<shell, sideTask, spared, relayEnabled, cut>> /\ cut \subseteq Copies
      /\ file' = [file EXCEPT ![c] = [partial |-> "none", target |-> file[c].partial]]
      /\ file \in [Copies -> FileStates] /\ file[c] \in FileStates
      /\ shell \in [Copies -> [Sides -> ShellStates]]
      /\ spared \in [Copies -> SUBSET (Sides \cup {"partial"})]
  BY CopyParts DEF RemoteRename, KeepSettings, Moved
<1>2. /\ ShellsLeft(c) /\ \A s \in Sides : sideTask[c][s] \notin {"start", "poll"}
      /\ file[c].partial = "whole" \/ c \in cut
  BY <1>1 DEF CopyKnown, CopyAt
<1>3. PICK pc \in {"ok", "error"} : Proceed(c, pc)
  BY DEF RemoteRename
<1>4. /\ copy' \in [Copies -> CopyRecords] /\ \A d \in Copies : d # c => copy'[d] = copy[d]
      /\ copy'[c].pc = pc /\ copy'[c].recursive = copy[c].recursive
  <2>1. pc \in CopySteps
    BY Zenon DEF CopySteps
  <2> QED BY <1>3, <2>1, ProceedTo
<1>5. /\ file' \in [Copies -> FileStates] /\ \A d \in Copies : d # c => file'[d] = file[d]
      /\ file'[c].partial = "none" /\ file'[c].target = file[c].partial
  BY <1>1 DEF FileStates
<1>6. ShellsLeft(c)' /\ PartialLeft(c)'
  BY <1>1, <1>2, <1>5 DEF ShellsLeft, ShellRuns, PartialLeft
<1>7. CopyKnown(c)'
  BY <1>1, <1>2, <1>4, <1>5, <1>6, Zenon DEF CopyKnown, CopyAt
<1> QED BY <1>1, <1>4, <1>5, <1>7, CallMoves

LEMMA RenameFailsStep ==
    ASSUME CopyInv, NEW c \in Copies, RenameFails(c)
    PROVE  CopyInv'
<1>1. /\ CopyAt(c, "rename") /\ CopyKnown(c) /\ Proceed(c, "error")
      /\ UNCHANGED <<sideTask, relayEnabled, cut>> /\ cut \subseteq Copies
      /\ file \in [Copies -> FileStates] /\ shell \in [Copies -> [Sides -> ShellStates]]
      /\ spared \in [Copies -> SUBSET (Sides \cup {"partial"})]
  BY CopyParts DEF RenameFails, KeepSettings
<1>2. /\ ShellsLeft(c) /\ \A s \in Sides : sideTask[c][s] \notin {"start", "poll"}
      /\ ~copy[c].recursive /\ (file[c].target # "part" \/ c \in cut)
  BY <1>1 DEF CopyKnown, CopyAt
<1>3. /\ copy' \in [Copies -> CopyRecords] /\ \A d \in Copies : d # c => copy'[d] = copy[d]
      /\ copy'[c].pc = "error" /\ copy'[c].recursive = copy[c].recursive
  BY <1>1, ProceedTo, Zenon DEF CopySteps
<1>4. /\ shell' \in [Copies -> [Sides -> ShellStates]] /\ file' \in [Copies -> FileStates]
      /\ spared' \in [Copies -> SUBSET (Sides \cup {"partial"})]
      /\ \A d \in Copies : d # c => shell'[d] = shell[d]
      /\ \A d \in Copies : d # c => file'[d] = file[d]
      /\ \A d \in Copies : d # c => spared'[d] = spared[d]
      /\ file'[c].target = file[c].target
      /\ ShellsLeft(c)' /\ PartialLeft(c)'
  <2>1. CASE Ending(c, {}, TRUE)
    <3>1. {} \in SUBSET Sides /\ TRUE \in BOOLEAN
      OBVIOUS
    <3>2. /\ shell' \in [Copies -> [Sides -> ShellStates]] /\ file' \in [Copies -> FileStates]
          /\ spared' \in [Copies -> SUBSET (Sides \cup {"partial"})]
          /\ \A d \in Copies : d # c =>
                shell'[d] = shell[d] /\ file'[d] = file[d] /\ spared'[d] = spared[d]
          /\ spared[c] \subseteq spared'[c]
          /\ \A s \in Sides : shell'[c][s] = "runs" => shell[c][s] = "runs"
          /\ file'[c].target = file[c].target
          /\ file'[c].partial = "none" \/ "partial" \in spared'[c]
      BY <2>1, <3>1, EndingDone
    <3>3. ShellsLeft(c)' /\ PartialLeft(c)'
      BY <1>2, <3>2 DEF ShellsLeft, ShellRuns, PartialLeft
    <3> QED BY <3>2, <3>3
  <2>2. CASE /\ spared' = [spared EXCEPT ![c] = @ \cup {"partial"}]
             /\ UNCHANGED <<shell, file>>
    <3>1. /\ spared' \in [Copies -> SUBSET (Sides \cup {"partial"})]
          /\ spared'[c] = spared[c] \cup {"partial"}
          /\ \A d \in Copies : d # c => spared'[d] = spared[d]
      BY <1>1, <2>2
    <3>2. ShellsLeft(c)' /\ PartialLeft(c)'
      BY <1>2, <2>2, <3>1 DEF ShellsLeft, ShellRuns, PartialLeft
    <3> QED BY <1>1, <2>2, <3>1, <3>2
  <2> QED BY <2>1, <2>2 DEF RenameFails
<1>5. CopyKnown(c)'
  BY <1>1, <1>2, <1>3, <1>4 DEF CopyKnown, CopyAt
<1> QED BY <1>1, <1>3, <1>4, <1>5, CallMoves

\* The processes. Over the relay what has arrived is whole in the end, and stays so.
LEMMA RelayCopiesStep ==
    ASSUME CopyInv, NEW c \in Copies, RelayCopies(c)
    PROVE  CopyInv'
<1>1. /\ CopyAt(c, "join") /\ CopyKnown(c) /\ shell[c]["source"] = "runs"
      /\ UNCHANGED <<copy, shell, sideTask, spared, relayEnabled, cut>> /\ cut \subseteq Copies
      /\ copy \in [Copies -> CopyRecords] /\ shell \in [Copies -> [Sides -> ShellStates]]
      /\ spared \in [Copies -> SUBSET (Sides \cup {"partial"})]
  BY CopyParts DEF RelayCopies, KeepSettings, ByRelay, ShellRuns
<1>2. PICK w \in {"part", "whole"} : file' = [file EXCEPT ![c][Out(c)] = w]
  BY DEF RelayCopies
<1>3. /\ file' \in [Copies -> FileStates] /\ \A d \in Copies : d # c => file'[d] = file[d]
      /\ copy[c].recursive => file'[c].target = w /\ file'[c].partial = file[c].partial
      /\ ~copy[c].recursive => file'[c].partial = w /\ file'[c].target = file[c].target
  BY <1>2, WrittenOut
<1>4. \A s \in Sides : SideKnown(c, s)'
  BY <1>1, Zenon DEF CopyKnown, SideKnown, ShellRuns
<1>5. CopyKnown(c)'
  BY <1>1, <1>3, <1>4, Zenon DEF CopyKnown, CopyAt
<1> QED BY <1>1, <1>3, <1>5, CallMoves

LEMMA ShellExitsStep ==
    ASSUME CopyInv, NEW c \in Copies, NEW s \in Sides, ShellExits(c, s)
    PROVE  CopyInv'
<1>1. /\ CopyKnown(c) /\ shell[c][s] = "runs"
      /\ UNCHANGED <<copy, file, sideTask, spared, relayEnabled, cut>> /\ cut \subseteq Copies
      /\ copy \in [Copies -> CopyRecords] /\ shell \in [Copies -> [Sides -> ShellStates]]
      /\ shell[c] \in [Sides -> ShellStates] /\ file \in [Copies -> FileStates]
      /\ spared \in [Copies -> SUBSET (Sides \cup {"partial"})]
  BY CopyParts DEF ShellExits, KeepSettings, ShellRuns
<1>2. PICK exit \in {"ok", "failed", "missing"} :
        /\ shell' = [shell EXCEPT ![c][s] = exit]
        /\ exit = "ok" /\ ByRelay(c) =>
              file[c][Out(c)] \in IF s = "source" THEN {"whole"} ELSE {"part", "whole"}
  BY DEF ShellExits
<1>3. /\ shell' \in [Copies -> [Sides -> ShellStates]]
      /\ \A d \in Copies : d # c => shell'[d] = shell[d]
      /\ shell'[c][s] = exit /\ \A q \in Sides : q # s => shell'[c][q] = shell[c][q]
  BY <1>1, <1>2 DEF ShellStates
<1>4. \A q \in Sides : shell'[c][q] = "runs" => shell[c][q] = "runs"
  BY <1>1, <1>3
<1>5. ASSUME CopyAt(c, "join")
      PROVE  /\ \A q \in Sides : SideKnown(c, q)'
             /\ shell'[c]["source"] = "ok" => file[c][Out(c)] = "whole"
  <2>1. /\ \A q \in Sides : SideKnown(c, q)
        /\ shell[c]["source"] = "ok" => file[c][Out(c)] = "whole"
    BY <1>1, <1>5, Zenon DEF CopyKnown
  <2>2. SideKnown(c, s)'
    BY <1>1, <1>3, <2>1 DEF SideKnown, ShellRuns
  <2>3. \A q \in Sides : q # s => SideKnown(c, q)'
    BY <1>1, <1>3, <2>1 DEF SideKnown, ShellRuns
  <2>4. shell'[c]["source"] = "ok" => file[c][Out(c)] = "whole"
    BY <1>2, <1>3, <1>5, <2>1 DEF ByRelay, Sides
  <2> QED BY <2>2, <2>3, <2>4
<1>6. Out(c)' = Out(c)
  BY <1>1 DEF Out
<1>7. /\ ShellsLeft(c) => ShellsLeft(c)'
      /\ PartialLeft(c) => PartialLeft(c)'
  BY <1>1, <1>4 DEF ShellsLeft, ShellRuns, PartialLeft
<1>8. copy[c].pc \notin {"idle", "create"}
  BY <1>1, Zenon DEF CopyKnown
<1>9. CopyKnown(c)'
  BY <1>1, <1>4, <1>5, <1>6, <1>7, <1>8, Zenon DEF CopyKnown, CopyAt, ShellRuns, Sides
<1>10. file' \in [Copies -> FileStates] /\ \A d \in Copies : d # c => file'[d] = file[d]
  BY <1>1
<1> QED BY <1>1, <1>3, <1>9, <1>10, CallMoves

LEMMA DestinationWritesStep ==
    ASSUME CopyInv, NEW c \in Copies, DestinationWrites(c)
    PROVE  CopyInv'
<1>1. /\ copy[c].pc \in {"drain", "rename"} /\ CopyKnown(c)
      /\ file' = [file EXCEPT ![c][Out(c)] = "whole"]
      /\ UNCHANGED <<copy, shell, sideTask, spared, relayEnabled, cut>> /\ cut \subseteq Copies
      /\ copy \in [Copies -> CopyRecords] /\ shell \in [Copies -> [Sides -> ShellStates]]
      /\ spared \in [Copies -> SUBSET (Sides \cup {"partial"})]
  BY CopyParts DEF DestinationWrites, KeepSettings
<1>2. /\ file' \in [Copies -> FileStates] /\ \A d \in Copies : d # c => file'[d] = file[d]
      /\ copy[c].recursive => file'[c].target = "whole" /\ file'[c].partial = file[c].partial
      /\ ~copy[c].recursive => file'[c].partial = "whole" /\ file'[c].target = file[c].target
  <2>1. "whole" \in {"part", "whole"}
    OBVIOUS
  <2> QED BY <1>1, <2>1, WrittenOut
<1>3. CopyKnown(c)'
  BY <1>1, <1>2, Zenon DEF CopyKnown, CopyAt, ShellsLeft, ShellRuns
<1> QED BY <1>1, <1>2, <1>3, CallMoves

LEMMA CopyInvStep == ASSUME CopyInv, [CopyNext]_copyVars PROVE CopyInv'
<1>1. ASSUME NEW c \in Copies,
             \/ CallCopyPath(c) \/ Deadline(c) \/ CreateRelay(c) \/ JoinWell(c) \/ JoinBadly(c)
             \/ StartSource(c) \/ StartDestination(c) \/ PumpAll(c) \/ PumpFails(c)
      PROVE  CopyInv'
  BY <1>1, CallCopyPathStep, DeadlineStep, CreateRelayStep, JoinWellStep, JoinBadlyStep,
     StartSourceStep, StartDestinationStep, PumpAllStep, PumpFailsStep
<1>2. ASSUME NEW c \in Copies,
             \/ DrainAndTerminate(c) \/ RemoteRename(c) \/ RenameFails(c)
             \/ RelayCopies(c) \/ DestinationWrites(c)
             \/ \E s \in Sides :
                   StartShell(c, s) \/ PollShell(c, s) \/ PollFails(c, s) \/ ShellExits(c, s)
      PROVE  CopyInv'
  BY <1>2, DrainAndTerminateStep, RemoteRenameStep, RenameFailsStep, RelayCopiesStep,
     DestinationWritesStep, StartShellStep, PollShellStep, PollFailsStep, ShellExitsStep
<1>3. CASE UNCHANGED copyVars
  BY <1>3, ZenonT(40)
     DEF copyVars, CopyInv, CopyTyped, CopyTypeOK, CopyKnown, CopyAt, SideKnown, ShellRuns,
              ShellsLeft, PartialLeft, Out
<1> QED BY <1>1, <1>2, <1>3 DEF CopyNext

\* However the calls of copy_path fail, are cut off and are tried again: a file that is
\* reported is there whole, a file is never left in part, and what a call leaves behind
\* is known ("Atomic at destination", copy_path.go:46; cleanup, relayCleanup).
THEOREM CopyAlwaysSound == CopySpec => [](CopyTypeOK /\ CopySound)
<1>1. CopyInv => CopyTypeOK /\ CopySound
  <2> SUFFICES ASSUME CopyInv PROVE CopySound
    BY DEF CopyInv, CopyTyped
  <2>1. CopiedWhole
    BY Zenon DEF CopyInv, CopyKnown, CopiedWhole
  <2>2. NothingLeft
    BY Zenon DEF CopyInv, CopyKnown, NothingLeft, ShellsLeft, PartialLeft
  <2> QED BY <2>1, <2>2 DEF CopySound
<1> QED BY <1>1, CopyInitInv, CopyInvStep, PTL DEF CopySpec

-----------------------------------------------------------------------------
(* PatchHunks: lines *)

\* The texts of a hunk's lines are lines.
LEMMA HunkTexts ==
    ASSUME NEW hunk \in PatchHunk
    PROVE  /\ Len(hunk.lines) \in Nat
           /\ \A i \in 1..Len(hunk.lines) : hunk.lines[i] \in HunkLines
              /\ hunk.lines[i].text \in Lines
<1>1. hunk.lines \in Seq(HunkLines)
  BY DEF PatchHunk
<1>2. Len(hunk.lines) \in Nat /\ \A i \in 1..Len(hunk.lines) : hunk.lines[i] \in HunkLines
  BY <1>1
<1>3. \A l \in HunkLines : l.text \in Lines
  BY DEF HunkLines
<1> QED BY <1>2, <1>3

\* What is gathered from n lines.
GatheredFrom(hunk, marks, f, n) ==
    IF n = 0 THEN <<>>
    ELSE IF hunk.lines[n].mark \in marks THEN Append(f[n - 1], hunk.lines[n].text)
    ELSE f[n - 1]
Gathers(hunk, marks, f, n) ==
    /\ f \in [0..n -> Seq(Lines)]
    /\ \A i \in 0..n : f[i] = GatheredFrom(hunk, marks, f, i)

LEMMA GatheringExists ==
    ASSUME NEW hunk \in PatchHunk, NEW marks, NEW n \in 0..Len(hunk.lines)
    PROVE  \E f : Gathers(hunk, marks, f, n)
<1> DEFINE Bad == {m \in 0..Len(hunk.lines) : ~ \E f : Gathers(hunk, marks, f, m)}
<1> Len(hunk.lines) \in Nat /\ \A i \in 1..Len(hunk.lines) : hunk.lines[i].text \in Lines
  BY HunkTexts
<1>1. ASSUME Bad # {} PROVE FALSE
  <2>1. PICK m \in Bad : \A k \in Bad : m <= k
    <3>1. Bad \subseteq Nat
      OBVIOUS
    <3> HIDE DEF Bad
    <3> QED BY <3>1, <1>1, LeastExists
  <2>2. m # 0
    <3>1. Gathers(hunk, marks, [i \in 0..0 |-> <<>>], 0)
      BY DEF Gathers, GatheredFrom
    <3> QED BY <3>1
  <2>3. m - 1 \in 0..Len(hunk.lines) /\ m - 1 \notin Bad /\ m \in 1..Len(hunk.lines)
    BY <2>1, <2>2
  <2>4. PICK f : Gathers(hunk, marks, f, m - 1)
    BY <2>3
  <2> DEFINE e == GatheredFrom(hunk, marks, f, m)
             g == [i \in 0..m |-> IF i = m THEN e ELSE f[i]]
  <2>5. e \in Seq(Lines)
    <3>1. f[m - 1] \in Seq(Lines)
      BY <2>3, <2>4 DEF Gathers
    <3> QED BY <3>1, <2>2, <2>3 DEF GatheredFrom
  <2>6. g \in [0..m -> Seq(Lines)]
    BY <2>4, <2>5, <2>3 DEF Gathers
  <2>7. ASSUME NEW i \in 0..m PROVE g[i] = GatheredFrom(hunk, marks, g, i)
    <3>1. CASE i = m
      <4>1. g[m - 1] = f[m - 1]
        BY <2>3
      <4> QED BY <3>1, <4>1 DEF GatheredFrom
    <3>2. CASE i # m
      <4>1. i \in 0..(m - 1) /\ g[i] = f[i] /\ (i # 0 => g[i - 1] = f[i - 1])
        BY <3>2, <2>3
      <4>2. f[i] = GatheredFrom(hunk, marks, f, i)
        BY <4>1, <2>4 DEF Gathers
      <4> HIDE DEF g
      <4> QED BY <4>1, <4>2 DEF GatheredFrom
    <3> QED BY <3>1, <3>2
  <2>8. Gathers(hunk, marks, g, m)
    <3> HIDE DEF g
    <3> QED BY <2>6, <2>7 DEF Gathers
  <2> QED BY <2>8, <2>1
<1> QED BY <1>1

LEMMA LinesOfType ==
    ASSUME NEW hunk \in PatchHunk, NEW marks
    PROVE  LinesOf(hunk, marks) \in Seq(Lines)
<1> DEFINE N == Len(hunk.lines)
           G(f) == [n \in 0..N |->
              CASE n = 0 -> <<>>
                [] n > 0 /\ hunk.lines[n].mark \in marks -> Append(f[n - 1], hunk.lines[n].text)
                [] OTHER -> f[n - 1]]
           F == Gathered(hunk, marks)
<1>0. N \in Nat /\ \A i \in 1..N : hunk.lines[i].text \in Lines
  BY HunkTexts
<1>1. PICK f : Gathers(hunk, marks, f, N)
  <2>1. Len(hunk.lines) \in 0..Len(hunk.lines)
    BY <1>0
  <2> QED BY <2>1, GatheringExists
<1>2. f = G(f)
  <2>1. \A n \in 0..N : f[n] = G(f)[n]
    BY <1>0, <1>1 DEF Gathers, GatheredFrom
  <2> QED BY <2>1, <1>1 DEF Gathers
<1>3. F = G(F)
  <2>1. F = CHOOSE h : h = G(h)
    BY DEF Gathered
  <2> HIDE DEF F, G
  <2> QED BY <2>1, <1>2
<1>4. \A n \in 0..N : F[n] = GatheredFrom(hunk, marks, F, n)
  <2> HIDE DEF F
  <2>1. \A n \in 0..N : F[n] = G(F)[n]
    BY <1>3, Zenon
  <2>2. ASSUME NEW n \in 0..N PROVE F[n] = GatheredFrom(hunk, marks, F, n)
    <3>1. F[n] = CASE n = 0 -> <<>>
                   [] n > 0 /\ hunk.lines[n].mark \in marks ->
                        Append(F[n - 1], hunk.lines[n].text)
                   [] OTHER -> F[n - 1]
      BY <2>1
    <3>2. CASE n = 0
      BY <3>1, <3>2 DEF GatheredFrom
    <3>3. CASE n > 0 /\ hunk.lines[n].mark \in marks
      BY <3>1, <3>3 DEF GatheredFrom
    <3>4. CASE n > 0 /\ hunk.lines[n].mark \notin marks
      BY <3>1, <3>4 DEF GatheredFrom
    <3> QED BY <3>2, <3>3, <3>4, <1>0
  <2> QED BY <2>2
<1> DEFINE Bad == {n \in 0..N : F[n] \notin Seq(Lines)}
<1>5. ASSUME Bad # {} PROVE FALSE
  <2> HIDE DEF F
  <2>1. PICK m \in Bad : \A k \in Bad : m <= k
    <3>1. Bad \subseteq Nat
      BY <1>0
    <3> HIDE DEF Bad
    <3> QED BY <3>1, <1>5, LeastExists
  <2>2. m \in 0..N /\ F[m] = GatheredFrom(hunk, marks, F, m)
    BY <2>1, <1>4
  <2>3. m # 0
    <3>1. <<>> \in Seq(Lines)
      OBVIOUS
    <3> QED BY <2>1, <2>2, <3>1 DEF GatheredFrom
  <2>4. F[m - 1] \in Seq(Lines) /\ m \in 1..N
    BY <2>1, <2>2, <2>3, <1>0
  <2>5. GatheredFrom(hunk, marks, F, m) \in Seq(Lines)
    BY <2>3, <2>4, <1>0 DEF GatheredFrom
  <2> QED BY <2>1, <2>2, <2>5
<1>6. F[N] \in Seq(Lines)
  <2> HIDE DEF F
  <2> QED BY <1>5, <1>0
<1> QED BY <1>6 DEF LinesOf

\* Lines after others.
LEMMA Joined ==
    ASSUME NEW S, NEW r \in Seq(S), NEW s \in Seq(S)
    PROVE  /\ r \o s \in Seq(S) /\ Len(r) \in Nat /\ Len(s) \in Nat /\ Len(r \o s) \in Nat
           /\ Len(r \o s) = Len(r) + Len(s)
           /\ \A k \in 1..Len(r) : (r \o s)[k] = r[k]
           /\ \A k \in 1..Len(s) : (r \o s)[Len(r) + k] = s[k]
<1>1. Len(r) \in Nat /\ Len(s) \in Nat
  OBVIOUS
<1> DEFINE t == r \o s
<1>2. /\ t \in Seq(S) /\ Len(t) = Len(r) + Len(s)
      /\ \A i \in 1..(Len(r) + Len(s)) : t[i] = IF i <= Len(r) THEN r[i] ELSE s[i - Len(r)]
  BY ConcatProperties
<1> HIDE DEF t
<1>3. \A k \in 1..Len(r) : t[k] = r[k]
  BY <1>1, <1>2
<1>4. ASSUME NEW k \in 1..Len(s) PROVE t[Len(r) + k] = s[k]
  <2>1. Len(r) + k \in 1..(Len(r) + Len(s)) /\ ~(Len(r) + k <= Len(r)) /\ Len(r) + k - Len(r) = k
    BY <1>1
  <2> QED BY <2>1, <1>2
<1> QED BY <1>1, <1>2, <1>3, <1>4 DEF t

\* One line before others.
LEMMA AfterOne ==
    ASSUME NEW S, NEW x \in S, NEW s \in Seq(S)
    PROVE  /\ <<x>> \o s \in Seq(S) /\ Len(<<x>> \o s) = Len(s) + 1
           /\ (<<x>> \o s)[1] = x
           /\ \A k \in 1..Len(s) : (<<x>> \o s)[k + 1] = s[k]
<1> DEFINE one == <<x>>
           t == one \o s
<1>1. one \in Seq(S) /\ Len(one) = 1 /\ one[1] = x
  OBVIOUS
<1>2. /\ t \in Seq(S) /\ Len(s) \in Nat /\ Len(t) = Len(one) + Len(s)
      /\ \A k \in 1..Len(one) : t[k] = one[k]
      /\ \A k \in 1..Len(s) : t[Len(one) + k] = s[k]
  BY <1>1, Joined
<1> HIDE DEF one, t
<1>3. t[1] = x /\ Len(t) = Len(s) + 1
  BY <1>1, <1>2
<1>4. ASSUME NEW k \in 1..Len(s) PROVE t[k + 1] = s[k]
  <2>1. Len(one) + k = k + 1
    BY <1>1
  <2> QED BY <2>1, <1>2
<1> QED BY <1>2, <1>3, <1>4 DEF one, t

LEMMA Between ==
    ASSUME NEW x, NEW fin \in Nat, NEW end \in Nat, fin <= end, x \in 2..(fin - 1)
    PROVE  x \in Nat \ {0} /\ x \in 2..(end - 1)
OBVIOUS

LEMMA Fewer ==
    ASSUME NEW x, NEW len \in Nat, NEW y \in Nat, x \in 1..(len - 1), len <= y + 1
    PROVE  x \in 1..y
OBVIOUS

LEMMA NotLast ==
    ASSUME NEW x, NEW y \in Nat, x \in 1..(y + 1), x # y + 1
    PROVE  x \in 1..y
OBVIOUS

-----------------------------------------------------------------------------
(* PatchHunks: what is known *)

Marks == {"begin", "blank", "other", "add", "delete", "update", "move to", "@@", " ", "+", "-",
          "eof", "end"}
DocLines == [mark : Marks, text : Lines \cup Paths \cup {Empty}]
Files == [there : BOOLEAN, lines : Seq(Lines)]
Steps == {"draft", "parse", "chunks", "apply", "hunks", "write", "remove", "refused", "answered"}

PatchTyped ==
    /\ meant \in Operations /\ document \in Seq(DocLines)
    /\ begins \in Seq(Seq(Nat)) /\ finish \in Nat /\ cursor \in Nat
    /\ step \in Steps
    /\ step # "draft" => cursor \in 2..Len(document)
    /\ ops \in Seq(FileOp) /\ opAt \in 1..(Len(ops) + 1) /\ hunkAt \in Nat \ {0}
    /\ source \in Seq(Lines) /\ patch \in [pos : Nat, out : Seq(Lines)]
    /\ reports \in Seq({"ok", "error"})
    /\ tree \in [Paths -> Files] /\ started \in [Paths -> Files]

\* The lines stand in the document from line b on, and e comes after them.
Stands(doc, b, lines, e) ==
    e = b + Len(lines) /\ \A k \in 1..Len(lines) : doc[b + k - 1] = lines[k]

\* Where operation n begins, and where its hunk k: what has not begun begins after
\* all that stands.
OpBegin(beg, fin, n) == IF n <= Len(beg) THEN beg[n][1] ELSE fin
Place(beg, fin, n, k) == IF k < Len(beg[n]) THEN beg[n][k + 1] ELSE OpBegin(beg, fin, n + 1)

OperationStands(m, doc, beg, fin, n) ==
    /\ Len(beg[n]) \in 1..(Len(m[n].hunks) + 1)
    /\ n < Len(beg) => Len(beg[n]) = Len(m[n].hunks) + 1
    /\ \A k \in 1..Len(beg[n]) : beg[n][k] \in 2..(fin - 1)
    /\ Stands(doc, beg[n][1], Header(m[n]), Place(beg, fin, n, 1))
    /\ \A k \in 1..(Len(beg[n]) - 1) :
          Stands(doc, beg[n][k + 1], HunkText(m[n].hunks[k]), Place(beg, fin, n, k + 1))

DraftStands(m, doc, beg, fin) ==
    Len(beg) <= Len(m) /\ \A n \in 1..Len(beg) : OperationStands(m, doc, beg, fin, n)

\* The operations begin after the line that comes first, or after the one that is
\* too many.
Opened(doc, b) == b = 2 \/ (b = 3 /\ doc[2].mark \in {"blank", "other"})
\* The document is over: its end is after the operations, or the mark of a file's end.
DocumentOver(doc, fin) ==
    \/ Len(doc) = fin /\ doc[fin].mark = "end"
    \/ Len(doc) = fin + 1 /\ doc[fin].mark = "eof" /\ doc[fin + 1].mark = "end"

DocumentKnown ==
    /\ DraftStands(meant, document, begins, finish)
    /\ finish \in 2..(Len(document) + 1)
    /\ Opened(document, OpBegin(begins, finish, 1))
    /\ step = "draft" => finish = Len(document) + 1
    /\ step # "draft" => /\ HunksWritten /\ Len(begins) = Len(meant)
                         /\ DocumentOver(document, finish)

\* The parser has the first operations of those that are meant, in "chunks" the
\* last one with its first hunks, and is where the next one stands.
OpsBefore(o, m, n) == n <= Len(m) /\ \A i \in 1..n : o[i] = m[i]
SameButHunks(o, m) == o.kind = m.kind /\ o.path = m.path /\ o.to = m.to /\ o.lines = m.lines
ChunksKnown(n, k) ==
    /\ n \in 1..Len(meant) /\ OpsBefore(ops, meant, n - 1)
    /\ meant[n].kind \in {"update", "move"} /\ SameButHunks(ops[n], meant[n])
    /\ OpsBefore(ops[n].hunks, meant[n].hunks, k)
    /\ \/ cursor = Place(begins, finish, n, k + 1)
       \/ n = Len(meant) /\ k = Len(meant[n].hunks) /\ cursor = Len(document)

Executing == {"apply", "hunks", "write", "remove"}
ParserKnown ==
    /\ step = "draft" => ops = <<>> /\ cursor = 2
    /\ step = "parse" =>
          /\ OpsBefore(ops, meant, Len(ops))
          /\ \/ cursor = OpBegin(begins, finish, Len(ops) + 1)
             \/ cursor = 2 /\ ops = <<>>
             \/ cursor = Len(document) /\ Len(ops) = Len(meant)
    /\ step = "chunks" => ChunksKnown(Len(ops), Len(ops[Len(ops)].hunks))
    /\ step \in Executing \cup {"answered"} => ops = meant

\* What an operation needs at its step.
PatchStepKnown ==
    /\ step \in {"draft", "parse", "chunks", "refused"} => tree = started /\ opAt = 1
    /\ step \in Executing => opAt <= Len(ops)
    /\ step \in {"hunks", "write"} => Current.kind = "update"
    /\ step = "hunks" => hunkAt <= Len(Current.hunks)
    /\ step = "write" => hunkAt = Len(Current.hunks) + 1
    /\ step = "remove" => Current.kind = "move" /\ tree[Current.to].there

Gone(op) == op.kind = "delete" \/ op.to = op.path
SomeFile(files) == \E p \in Paths : files[p].there
FilesKept == SomeFile(started) => SomeFile(tree) \/ \E i \in 1..Len(ops) : Gone(ops[i])

\* The hunks applied so far are in their places.
HunksInPlace(s, hunks, n, p) ==
    \E at \in [1..n -> 0..Len(s)], to \in [1..n -> 0..Len(p.out)] :
        /\ InPlace(s, hunks, n, p.out, at, to)
        /\ p.pos = AfterOld(hunks, at, n) /\ p.pos <= Len(s)
        /\ Len(p.out) = AfterNew(hunks, to, n)
PatchKnown ==
    step \in {"hunks", "write"} => HunksInPlace(source, Current.hunks, hunkAt - 1, patch)

PatchInv == /\ PatchTyped /\ DocumentKnown /\ ParserKnown
            /\ PatchStepKnown /\ FilesKept /\ PatchKnown

-----------------------------------------------------------------------------
(* PatchHunks: lines of documents *)

\* The first line with none of the marks is the one that has none of them and only
\* such lines before it.
LEMMA PastIs ==
    ASSUME Len(document) \in Nat, NEW marks, NEW i \in Nat, NEW j \in i..Len(document),
           \A k \in i..(j - 1) : Mark(k) \in marks, Mark(j) \notin marks
    PROVE  Past(i, marks) = j
<1> DEFINE S == {k \in i..Len(document) : Mark(k) \notin marks}
<1>1. j \in S /\ j \in Int /\ \A k \in S : k \in Int
  OBVIOUS
<1>2. ASSUME NEW k \in S PROVE j <= k
  <2>1. k \in i..Len(document) /\ Mark(k) \notin marks /\ k \in Int /\ j \in Int
    OBVIOUS
  <2>2. k \notin i..(j - 1)
    BY <2>1
  <2> QED BY <2>1, <2>2
<1> HIDE DEF S
<1>3. Least(S) \in S /\ \A k \in S : Least(S) <= k
  <2>1. \E a \in S : \A k \in S : a <= k
    BY <1>1, <1>2
  <2> QED BY <2>1, Zenon DEF Least
<1>4. Least(S) = j
  <2>1. Least(S) <= j /\ j <= Least(S) /\ Least(S) \in Int /\ j \in Int
    BY <1>1, <1>2, <1>3
  <2> QED BY <2>1
<1> QED BY <1>4 DEF Past, S

\* What is meant is by the grammar.
LEMMA MeantIs ==
    ASSUME PatchTyped
    PROVE  /\ meant \in Seq(FileOp) /\ Len(meant) \in Nat
           /\ \A n \in 1..Len(meant) : meant[n] \in FileOp /\ Grammatical(meant[n])
<1>1. meant \in Seq(FileOp) /\ \A n \in 1..Len(meant) : Grammatical(meant[n])
  BY PatchAssumption DEF PatchTyped
<1>2. Len(meant) \in Nat /\ \A n \in 1..Len(meant) : meant[n] \in FileOp
  BY <1>1
<1> QED BY <1>1, <1>2

\* The parts of an operation.
LEMMA OpParts ==
    ASSUME NEW op, Grammatical(op)
    PROVE  /\ op \in FileOp /\ op.kind \in {"add", "delete", "update", "move"} /\ op.path \in Paths
           /\ op.to \in Paths \cup {NoPath} /\ (op.kind = "move" <=> op.to # NoPath)
           /\ op.lines \in Seq(Lines) /\ Len(op.lines) \in Nat
           /\ \A k \in 1..Len(op.lines) : op.lines[k] \in Lines
           /\ (op.kind = "add" => Len(op.lines) >= 1) /\ (op.kind # "add" => op.lines = <<>>)
           /\ op.hunks \in Seq(PatchHunk) /\ Len(op.hunks) \in Nat
           /\ (op.kind \in {"update", "move"} => Len(op.hunks) >= 1)
           /\ (op.kind \in {"add", "delete"} => op.hunks = <<>>)
<1>1. op \in FileOp
  BY DEF Grammatical
<1>2. /\ op.kind \in {"add", "delete", "update", "move"} /\ op.path \in Paths
      /\ op.to \in Paths \cup {NoPath} /\ op.lines \in Seq(Lines) /\ op.hunks \in Seq(PatchHunk)
  BY <1>1 DEF FileOp
<1>3. /\ Len(op.lines) \in Nat /\ Len(op.hunks) \in Nat
      /\ \A k \in 1..Len(op.lines) : op.lines[k] \in Lines
      /\ op.lines # <<>> => Len(op.lines) >= 1
      /\ op.hunks # <<>> => Len(op.hunks) >= 1
  BY <1>2
<1>4. /\ op.kind = "move" <=> op.to # NoPath
      /\ op.kind = "add" <=> op.lines # <<>>
      /\ op.kind \in {"update", "move"} <=> op.hunks # <<>>
  BY DEF Grammatical
<1> QED BY <1>1, <1>2, <1>3, <1>4

\* A hunk of an operation, and its lines.
LEMMA HunkParts ==
    ASSUME NEW op, Grammatical(op), NEW k \in 1..Len(op.hunks)
    PROVE  /\ op.hunks[k] \in PatchHunk /\ op.hunks[k].context \in Lines \cup {Empty}
           /\ op.hunks[k].lines \in Seq(HunkLines)
           /\ Len(op.hunks[k].lines) \in Nat /\ Len(op.hunks[k].lines) >= 1
           /\ \A i \in 1..Len(op.hunks[k].lines) : op.hunks[k].lines[i] \in HunkLines
<1>1. op.hunks \in Seq(PatchHunk)
  BY OpParts
<1>2. op.hunks[k] \in PatchHunk
  BY <1>1
<1>3. op.hunks[k].context \in Lines \cup {Empty} /\ op.hunks[k].lines \in Seq(HunkLines)
  BY <1>2 DEF PatchHunk
<1>4. op.hunks[k].lines # <<>>
  BY DEF Grammatical
<1> QED BY <1>2, <1>3, <1>4

\* The lines of a header.
LEMMA HeaderIs ==
    ASSUME NEW op, Grammatical(op)
    PROVE  /\ Header(op) \in Seq(DocLines) /\ Len(Header(op)) \in Nat /\ Len(Header(op)) >= 1
           /\ Header(op)[1] = L(IF op.kind = "move" THEN "update" ELSE op.kind, op.path)
           /\ op.kind = "move" => Len(Header(op)) = 2 /\ Header(op)[2] = L("move to", op.to)
           /\ op.kind = "add" => /\ Len(Header(op)) = Len(op.lines) + 1
                                 /\ \A k \in 1..Len(op.lines) : Header(op)[k + 1] = L("+", op.lines[k])
           /\ op.kind \in {"delete", "update"} => Len(Header(op)) = 1
<1>0. \A mark \in Marks, text \in Lines \cup Paths \cup {Empty} : L(mark, text) \in DocLines
  BY DEF L, DocLines
<1>1. /\ op.kind \in {"add", "delete", "update", "move"} /\ op.path \in Paths
      /\ op.kind = "move" => op.to \in Paths
      /\ Len(op.lines) \in Nat /\ \A k \in 1..Len(op.lines) : op.lines[k] \in Lines
  BY OpParts
<1>2. CASE op.kind = "move"
  <2>1. Header(op) = <<L("update", op.path), L("move to", op.to)>>
    BY <1>2 DEF Header
  <2>2. L("update", op.path) \in DocLines /\ L("move to", op.to) \in DocLines
    BY <1>0, <1>1, <1>2 DEF Marks
  <2>3. \A a, b \in DocLines : /\ <<a, b>> \in Seq(DocLines) /\ Len(<<a, b>>) = 2
                                /\ <<a, b>>[1] = a /\ <<a, b>>[2] = b
    OBVIOUS
  <2> DEFINE a == L("update", op.path)
             b == L("move to", op.to)
  <2>4. a \in DocLines /\ b \in DocLines /\ Header(op) = <<a, b>>
    BY <2>1, <2>2
  <2>5. /\ <<a, b>> \in Seq(DocLines) /\ Len(<<a, b>>) = 2
        /\ <<a, b>>[1] = a /\ <<a, b>>[2] = b
    <3> HIDE DEF a, b
    <3> QED BY <2>3, <2>4
  <2>6. Header(op) \in Seq(DocLines) /\ Len(Header(op)) = 2 /\ Header(op)[1] = a
        /\ Header(op)[2] = b
    <3> HIDE DEF a, b
    <3> QED BY <2>4, <2>5
  <2>7. Len(Header(op)) \in Nat /\ Len(Header(op)) >= 1
    <3> HIDE DEF a, b
    <3> QED BY <2>6
  <2> QED BY <2>6, <2>7, <1>2
<1>3. CASE op.kind = "add"
  <2> DEFINE one == <<L("add", op.path)>>
             rest == [i \in 1..Len(op.lines) |-> L("+", op.lines[i])]
  <2>1. Header(op) = one \o rest
    BY <1>3 DEF Header
  <2>2. L("add", op.path) \in DocLines
        /\ \A i \in 1..Len(op.lines) : L("+", op.lines[i]) \in DocLines
    BY <1>0, <1>1, <1>3 DEF Marks
  <2>3. L("add", op.path) \in DocLines
    BY <2>2
  <2>4. rest \in Seq(DocLines) /\ Len(rest) = Len(op.lines)
    BY <2>2, <1>1
  <2>5. \A i \in 1..Len(op.lines) : rest[i] = L("+", op.lines[i])
    OBVIOUS
  <2> HIDE DEF rest
  <2>6. /\ one \o rest \in Seq(DocLines) /\ Len(one \o rest) = Len(rest) + 1
        /\ (one \o rest)[1] = L("add", op.path)
        /\ \A k \in 1..Len(rest) : (one \o rest)[k + 1] = rest[k]
    BY <2>3, <2>4, AfterOne
  <2> HIDE DEF one
  <2>7. \A k \in 1..Len(op.lines) : Header(op)[k + 1] = L("+", op.lines[k])
    BY <2>1, <2>4, <2>5, <2>6
  <2> QED BY <2>1, <2>4, <2>6, <2>7, <1>3, <1>1
<1>4. CASE op.kind \in {"delete", "update"}
  <2>1. Header(op) = <<L(op.kind, op.path)>>
    BY <1>4 DEF Header
  <2>2. L(op.kind, op.path) \in DocLines
    BY <1>0, <1>1, <1>4 DEF Marks
  <2> QED BY <2>1, <2>2, <1>4
<1> QED BY <1>1, <1>2, <1>3, <1>4

\* The lines of a hunk in the document.
LEMMA HunkTextIs ==
    ASSUME NEW hunk, hunk.lines \in Seq(HunkLines), hunk.context \in Lines \cup {Empty}
    PROVE  /\ HunkText(hunk) \in Seq(DocLines) /\ Len(HunkText(hunk)) = Len(hunk.lines) + 1
           /\ HunkText(hunk)[1] = L("@@", hunk.context)
           /\ \A k \in 1..Len(hunk.lines) : HunkText(hunk)[k + 1] = hunk.lines[k]
<1> DEFINE one == <<L("@@", hunk.context)>>
<1>1. L("@@", hunk.context) \in DocLines
  BY DEF L, DocLines, Marks
<1>2. HunkLines \subseteq DocLines
  BY DEF HunkLines, DocLines, Marks
<1>3. hunk.lines \in Seq(DocLines) /\ Len(hunk.lines) \in Nat
  BY <1>2
<1>5. /\ one \o hunk.lines \in Seq(DocLines) /\ Len(one \o hunk.lines) = Len(hunk.lines) + 1
      /\ (one \o hunk.lines)[1] = L("@@", hunk.context)
      /\ \A k \in 1..Len(hunk.lines) : (one \o hunk.lines)[k + 1] = hunk.lines[k]
  BY <1>1, <1>3, AfterOne
<1> HIDE DEF one
<1>6. HunkText(hunk) = one \o hunk.lines
  BY DEF HunkText, one
<1> QED BY <1>5, <1>6

-----------------------------------------------------------------------------
(* PatchHunks: the document is written *)

\* What has begun begins before what stands is over.
LEMMA PlaceWithin ==
    ASSUME NEW m, NEW doc, NEW beg \in Seq(Seq(Nat)), NEW fin \in Nat, NEW n \in 1..Len(beg),
           NEW k \in Nat, DraftStands(m, doc, beg, fin)
    PROVE  /\ Place(beg, fin, n, k) \in Nat /\ Place(beg, fin, n, k) <= fin
           /\ beg[n][1] \in 2..(fin - 1)
<1>0. \A x : x \in 2..(fin - 1) => x \in Nat /\ x <= fin
  OBVIOUS
<1>1. Len(beg) \in Nat /\ Len(beg[n]) \in Nat
  OBVIOUS
<1>2. \A i \in 1..Len(beg) : /\ Len(beg[i]) \in 1..(Len(m[i].hunks) + 1)
                             /\ \A j \in 1..Len(beg[i]) : beg[i][j] \in 2..(fin - 1)
  BY DEF DraftStands, OperationStands
<1>3. \A i \in 1..Len(beg) : beg[i][1] \in 2..(fin - 1)
  BY <1>2
<1>4. CASE k < Len(beg[n])
  <2>1. k + 1 \in 1..Len(beg[n])
    BY <1>1, <1>4
  <2>2. beg[n][k + 1] \in 2..(fin - 1)
    BY <1>2, <2>1
  <2>3. Place(beg, fin, n, k) = beg[n][k + 1]
    BY <1>4 DEF Place
  <2>4. beg[n][1] \in 2..(fin - 1)
    BY <1>3
  <2> QED BY <2>2, <2>3, <2>4, <1>0, Zenon
<1>5. CASE ~(k < Len(beg[n]))
  <2>1. Place(beg, fin, n, k) = OpBegin(beg, fin, n + 1)
    BY <1>5 DEF Place
  <2>2. CASE n + 1 <= Len(beg)
    <3>1. n + 1 \in 1..Len(beg)
      BY <1>1, <2>2
    <3>2. OpBegin(beg, fin, n + 1) = beg[n + 1][1]
      BY <2>2 DEF OpBegin
    <3>3. beg[n + 1][1] \in 2..(fin - 1) /\ beg[n][1] \in 2..(fin - 1)
      BY <3>1, <1>3
    <3>4. Place(beg, fin, n, k) = beg[n + 1][1]
      BY <2>1, <3>2
    <3> QED BY <3>3, <3>4, <1>0, Zenon
  <2>3. CASE ~(n + 1 <= Len(beg))
    BY <2>1, <2>3, <1>3 DEF OpBegin
  <2> QED BY <2>2, <2>3
<1> QED BY <1>4, <1>5

\* What stands in a document stands in it when lines are added.
LEMMA StandsOn ==
    ASSUME NEW doc \in Seq(DocLines), NEW more \in Seq(DocLines), NEW b \in Nat \ {0}, NEW lines,
           Len(lines) \in Nat, NEW e, e <= Len(doc) + 1, Stands(doc, b, lines, e)
    PROVE  Stands(doc \o more, b, lines, e)
<1>1. Len(doc) \in Nat /\ \A k \in 1..Len(doc) : (doc \o more)[k] = doc[k]
  BY Joined
<1>2. e = b + Len(lines) /\ \A k \in 1..Len(lines) : doc[b + k - 1] = lines[k]
  BY DEF Stands
<1>3. ASSUME NEW k \in 1..Len(lines) PROVE (doc \o more)[b + k - 1] = lines[k]
  <2>1. b + k - 1 \in 1..Len(doc)
    BY <1>1, <1>2
  <2> QED BY <2>1, <1>1, <1>2
<1> QED BY <1>2, <1>3 DEF Stands

\* What is added stands at the end.
LEMMA StandsLast ==
    ASSUME NEW doc \in Seq(DocLines), NEW lines \in Seq(DocLines)
    PROVE  Stands(doc \o lines, Len(doc) + 1, lines, Len(doc) + Len(lines) + 1)
<1>1. Len(doc) \in Nat /\ Len(lines) \in Nat
      /\ \A k \in 1..Len(lines) : (doc \o lines)[Len(doc) + k] = lines[k]
  BY Joined
<1>2. ASSUME NEW k \in 1..Len(lines) PROVE (doc \o lines)[(Len(doc) + 1) + k - 1] = lines[k]
  <2>1. (Len(doc) + 1) + k - 1 = Len(doc) + k
    BY <1>1
  <2> QED BY <2>1, <1>1
<1>3. Len(doc) + Len(lines) + 1 = (Len(doc) + 1) + Len(lines)
  BY <1>1
<1> QED BY <1>2, <1>3 DEF Stands

\* An operation stands on when lines are added and what has begun stays, whatever
\* begins next where the document was over.
LEMMA OperationStandsOn ==
    ASSUME NEW m, NEW doc \in Seq(DocLines), NEW more \in Seq(DocLines),
           NEW beg \in Seq(Seq(Nat)), NEW to \in Seq(Seq(Nat)), NEW fin \in Nat, NEW end \in Nat,
           DraftStands(m, doc, beg, fin), fin <= Len(doc) + 1, fin <= end,
           NEW n \in 1..Len(beg), n <= Len(to), to[n] = beg[n],
           Grammatical(m[n]),
           n < Len(to) => Len(beg[n]) = Len(m[n].hunks) + 1,
           OpBegin(to, end, n + 1) = OpBegin(beg, fin, n + 1)
    PROVE  OperationStands(m, doc \o more, to, end, n)
<1>1. OperationStands(m, doc, beg, fin, n)
  BY DEF DraftStands
<1>2. Len(beg) \in Nat /\ Len(to) \in Nat /\ n \in 1..Len(to) /\ Len(beg[n]) \in Nat
  OBVIOUS
<1>3. \A k \in Nat : Place(to, end, n, k) = Place(beg, fin, n, k)
  BY DEF Place
<1>4. \A k \in Nat : Place(beg, fin, n, k) <= Len(doc) + 1 /\ Place(beg, fin, n, k) \in Nat
  <2>1. \A k \in Nat : Place(beg, fin, n, k) <= fin /\ Place(beg, fin, n, k) \in Nat
    BY PlaceWithin
  <2>2. Len(doc) \in Nat
    OBVIOUS
  <2>3. ASSUME NEW k \in Nat PROVE Place(beg, fin, n, k) <= Len(doc) + 1
    <3> DEFINE p == Place(beg, fin, n, k)
    <3>1. p <= fin /\ p \in Nat
      BY <2>1
    <3> HIDE DEF p
    <3>2. p <= Len(doc) + 1
      BY <3>1, <2>2
    <3> QED BY <3>2 DEF p
  <2> QED BY <2>1, <2>3
<1>5. Len(to[n]) \in 1..(Len(m[n].hunks) + 1)
  BY <1>1 DEF OperationStands
<1>6. \A k \in 1..Len(beg[n]) : beg[n][k] \in 2..(fin - 1)
  BY <1>1 DEF OperationStands
<1>7. \A k \in 1..Len(to[n]) : to[n][k] \in 2..(end - 1)
  <2> SUFFICES ASSUME NEW k \in 1..Len(to[n]) PROVE to[n][k] \in 2..(end - 1)
    OBVIOUS
  <2>1. beg[n][k] \in 2..(fin - 1) /\ to[n][k] = beg[n][k]
    BY <1>6
  <2>2. to[n][k] \in 2..(fin - 1)
    BY <2>1
  <2> QED BY <2>2, Between, Zenon
<1>8. Stands(doc \o more, beg[n][1], Header(m[n]), Place(beg, fin, n, 1))
  <2>1. Stands(doc, beg[n][1], Header(m[n]), Place(beg, fin, n, 1))
    BY <1>1 DEF OperationStands
  <2>2. beg[n][1] \in Nat \ {0}
    <3>1. beg[n][1] \in 2..(fin - 1)
      BY PlaceWithin, <1>2
    <3> QED BY <3>1, Between, Zenon
  <2>3. Len(Header(m[n])) \in Nat
    BY HeaderIs
  <2>4. Place(beg, fin, n, 1) <= Len(doc) + 1
    BY <1>4
  <2> QED BY <2>1, <2>2, <2>3, <2>4, StandsOn
<1>9. ASSUME NEW k \in 1..(Len(beg[n]) - 1)
      PROVE  Stands(doc \o more, beg[n][k + 1], HunkText(m[n].hunks[k]), Place(beg, fin, n, k + 1))
  <2>1. Stands(doc, beg[n][k + 1], HunkText(m[n].hunks[k]), Place(beg, fin, n, k + 1))
    BY <1>1 DEF OperationStands
  <2>2. k + 1 \in 1..Len(beg[n]) /\ k + 1 \in Nat
    BY <1>2
  <2>3. beg[n][k + 1] \in Nat \ {0}
    <3>1. beg[n][k + 1] \in 2..(fin - 1)
      BY <1>6, <2>2
    <3> QED BY <3>1, Between, Zenon
  <2>4. Len(HunkText(m[n].hunks[k])) \in Nat
    <3>1. Len(m[n].hunks) \in Nat
      BY OpParts
    <3>2. k \in 1..Len(m[n].hunks)
      <4>1. Len(beg[n]) <= Len(m[n].hunks) + 1
        BY <1>5, <3>1
      <4> QED BY <1>2, <3>1, <4>1, Fewer, Zenon
    <3>3. /\ m[n].hunks[k].lines \in Seq(HunkLines) /\ Len(m[n].hunks[k].lines) \in Nat
          /\ m[n].hunks[k].context \in Lines \cup {Empty}
      BY <3>2, HunkParts
    <3>4. Len(HunkText(m[n].hunks[k])) = Len(m[n].hunks[k].lines) + 1
      BY <3>3, HunkTextIs
    <3> QED BY <3>3, <3>4
  <2>5. Place(beg, fin, n, k + 1) <= Len(doc) + 1
    BY <1>4, <2>2
  <2> QED BY <2>1, <2>3, <2>4, <2>5, StandsOn
<1>10. Stands(doc \o more, to[n][1], Header(m[n]), Place(to, end, n, 1))
  BY <1>3, <1>8
<1>11. \A k \in 1..(Len(to[n]) - 1) :
          Stands(doc \o more, to[n][k + 1], HunkText(m[n].hunks[k]), Place(to, end, n, k + 1))
  <2>1. \A k \in 1..(Len(to[n]) - 1) : Place(to, end, n, k + 1) = Place(beg, fin, n, k + 1)
    BY <1>3
  <2> QED BY <2>1, <1>9
<1> QED BY <1>5, <1>7, <1>10, <1>11 DEF OperationStands

\* An operation is written after those before it.
LEMMA OperationWritten ==
    ASSUME NEW m, NEW doc \in Seq(DocLines), NEW beg \in Seq(Seq(Nat)), NEW fin \in Nat,
           DraftStands(m, doc, beg, fin), fin = Len(doc) + 1, fin >= 2,
           Len(m) \in Nat, \A n \in 1..Len(m) : Grammatical(m[n]),
           \A n \in 1..Len(beg) : Len(beg[n]) = Len(m[n].hunks) + 1,
           NEW n \in 1..Len(m), n = Len(beg) + 1
    PROVE  DraftStands(m, doc \o Header(m[n]), Append(beg, <<fin>>),
                       Len(doc) + Len(Header(m[n])) + 1)
<1> DEFINE h == Header(m[n])
           to == Append(beg, <<fin>>)
           end == Len(doc) + Len(h) + 1
<1>1. h \in Seq(DocLines) /\ Len(h) \in Nat /\ Len(h) >= 1 /\ Len(doc) \in Nat
  <2>1. Grammatical(m[n])
    OBVIOUS
  <2>2. h \in Seq(DocLines) /\ Len(h) \in Nat /\ Len(h) >= 1
    BY <2>1, HeaderIs
  <2> QED BY <2>2
<1>2. <<fin>> \in Seq(Nat) /\ Len(<<fin>>) = 1 /\ <<fin>>[1] = fin
  OBVIOUS
<1>3. /\ to \in Seq(Seq(Nat)) /\ Len(to) = n /\ Len(beg) \in Nat /\ to[n] = <<fin>>
      /\ \A i \in 1..Len(beg) : to[i] = beg[i]
  BY <1>2
<1>4. end \in Nat /\ fin < end /\ fin <= end
  <2> HIDE DEF h
  <2> QED BY <1>1
<1>5. ASSUME NEW i \in 1..Len(beg) PROVE OperationStands(m, doc \o h, to, end, i)
  <2>1. i + 1 \in 1..n /\ i \in 1..Len(m) /\ i <= Len(to)
    BY <1>3
  <2>2. OpBegin(to, end, i + 1) = OpBegin(beg, fin, i + 1)
    <3> HIDE DEF to, end
    <3>1. CASE i + 1 <= Len(beg)
      <4>1. i + 1 \in 1..Len(beg) /\ i + 1 <= Len(to)
        BY <3>1, <1>3
      <4>2. to[i + 1] = beg[i + 1]
        BY <4>1, <1>3
      <4> QED BY <3>1, <4>1, <4>2 DEF OpBegin
    <3>2. CASE ~(i + 1 <= Len(beg))
      <4>1. i + 1 = n /\ i + 1 <= Len(to)
        BY <3>2, <1>3
      <4>2. to[i + 1][1] = fin
        BY <4>1, <1>2, <1>3
      <4> QED BY <3>2, <4>1, <4>2 DEF OpBegin
    <3> QED BY <3>1, <3>2
  <2>3. Len(beg[i]) = Len(m[i].hunks) + 1 /\ Grammatical(m[i]) /\ to[i] = beg[i]
        /\ fin <= Len(doc) + 1
    BY <2>1, <1>1, <1>3
  <2> HIDE DEF h, to, end
  <2> QED BY <1>1, <1>3, <1>4, <2>1, <2>2, <2>3, OperationStandsOn
<1>6. OperationStands(m, doc \o h, to, end, n)
  <2>1. Stands(doc \o h, Len(doc) + 1, h, end)
    <3> HIDE DEF h
    <3> QED BY <1>1, StandsLast
  <2>2. to[n][1] = fin /\ Len(to[n]) = 1
    BY <1>2, <1>3
  <2>3. Place(to, end, n, 1) = end
    <3> HIDE DEF h, to, end
    <3>1. ~(1 < Len(to[n])) /\ ~(n + 1 <= Len(to))
      BY <2>2, <1>3
    <3> QED BY <3>1 DEF Place, OpBegin
  <2>4. Len(m[n].hunks) \in Nat
    BY OpParts
  <2>5. Len(to[n]) \in 1..(Len(m[n].hunks) + 1)
    BY <2>2, <2>4
  <2>6. \A k \in 1..Len(to[n]) : to[n][k] \in 2..(end - 1)
    <3> HIDE DEF h, to, end
    <3>1. fin \in 2..(end - 1)
      BY <1>4
    <3>2. \A k \in 1..Len(to[n]) : k = 1
      BY <2>2
    <3> QED BY <3>1, <3>2, <2>2
  <2>7. ~(n < Len(to)) /\ 1..(Len(to[n]) - 1) = {}
    <3> HIDE DEF to
    <3> QED BY <2>2, <1>3
  <2>8. Stands(doc \o h, to[n][1], h, Place(to, end, n, 1))
    <3> HIDE DEF h, to, end
    <3> QED BY <2>1, <2>2, <2>3
  <2> HIDE DEF to, end
  <2> QED BY <2>5, <2>6, <2>7, <2>8 DEF OperationStands
<1>7. Len(to) <= Len(m) /\ \A i \in 1..Len(to) : OperationStands(m, doc \o h, to, end, i)
  <2> HIDE DEF h, to, end
  <2>1. \A i \in 1..Len(to) : i \in 1..Len(beg) \/ i = n
    BY <1>3
  <2> QED BY <2>1, <1>3, <1>5, <1>6
<1> QED BY <1>7 DEF DraftStands

\* A hunk is written after those before it.
LEMMA HunkIsWritten ==
    ASSUME NEW m, NEW doc \in Seq(DocLines), NEW beg \in Seq(Seq(Nat)), NEW fin \in Nat,
           DraftStands(m, doc, beg, fin), fin = Len(doc) + 1, fin >= 2,
           Len(m) \in Nat, \A n \in 1..Len(m) : Grammatical(m[n]),
           NEW n \in 1..Len(beg), n = Len(beg), Len(beg[n]) # Len(m[n].hunks) + 1,
           NEW text, text = HunkText(m[n].hunks[Len(beg[n])])
    PROVE  /\ text \in Seq(DocLines) /\ Len(text) >= 1
           /\ DraftStands(m, doc \o text, [beg EXCEPT ![n] = Append(@, fin)],
                          Len(doc) + Len(text) + 1)
<1> DEFINE len == Len(beg[n])
           to == [beg EXCEPT ![n] = Append(@, fin)]
           end == Len(doc) + Len(text) + 1
<1>1. /\ Len(beg) \in Nat /\ len \in Nat /\ Len(doc) \in Nat /\ Len(beg) <= Len(m)
         /\ n \in 1..Len(m)
      /\ OperationStands(m, doc, beg, fin, n)
  BY DEF DraftStands
<1>2. Len(m[n].hunks) \in Nat /\ Grammatical(m[n])
  <2>1. Grammatical(m[n])
    BY <1>1
  <2> QED BY <2>1, OpParts
<1>3. len \in 1..Len(m[n].hunks)
  <2>1. len \in 1..(Len(m[n].hunks) + 1)
    BY <1>1 DEF OperationStands
  <2>2. len # Len(m[n].hunks) + 1
    OBVIOUS
  <2> HIDE DEF len
  <2> QED BY <1>2, <2>1, <2>2, NotLast, Zenon
<1>4. text \in Seq(DocLines) /\ Len(text) >= 1 /\ Len(text) \in Nat
  <2>1. /\ m[n].hunks[len].lines \in Seq(HunkLines) /\ Len(m[n].hunks[len].lines) \in Nat
        /\ m[n].hunks[len].context \in Lines \cup {Empty}
    BY <1>2, <1>3, HunkParts
  <2>2. /\ HunkText(m[n].hunks[len]) \in Seq(DocLines)
        /\ Len(HunkText(m[n].hunks[len])) = Len(m[n].hunks[len].lines) + 1
    BY <2>1, HunkTextIs
  <2>3. HunkText(m[n].hunks[len]) = text
    OBVIOUS
  <2> DEFINE size == Len(m[n].hunks[len].lines)
  <2>4. text \in Seq(DocLines) /\ Len(text) = size + 1 /\ size \in Nat
    BY <2>1, <2>2, <2>3
  <2> HIDE DEF size
  <2> QED BY <2>4
<1>5. end \in Nat /\ fin < end /\ fin <= end
  BY <1>1, <1>4
<1>6. /\ Append(beg[n], fin) \in Seq(Nat) /\ Len(Append(beg[n], fin)) = len + 1
      /\ \A k \in 1..len : Append(beg[n], fin)[k] = beg[n][k]
      /\ Append(beg[n], fin)[len + 1] = fin
  <2>1. beg[n] \in Seq(Nat)
    OBVIOUS
  <2> QED BY <2>1
<1>7. /\ to \in Seq(Seq(Nat)) /\ Len(to) = Len(beg) /\ to[n] = Append(beg[n], fin)
      /\ \A i \in 1..Len(beg) : i # n => to[i] = beg[i]
  BY <1>6
<1>8. \A i \in 1..Len(beg) : to[i][1] = beg[i][1]
  <2>1. to[n][1] = beg[n][1]
    <3> HIDE DEF to
    <3> QED BY <1>3, <1>6, <1>7
  <2> HIDE DEF to
  <2> QED BY <2>1, <1>7
<1>9. ASSUME NEW i \in 1..Len(beg), i # n PROVE OperationStands(m, doc \o text, to, end, i)
  <2>1. i + 1 \in 1..Len(beg) /\ i \in 1..Len(m) /\ i < Len(beg) /\ to[i] = beg[i] /\ i <= Len(to)
    <3>1. i < Len(beg)
      BY <1>1, <1>9
    <3>2. i + 1 \in 1..Len(beg) /\ i \in 1..Len(m) /\ i <= Len(beg)
      BY <3>1, <1>1
    <3> HIDE DEF to
    <3> QED BY <3>1, <3>2, <1>7, <1>9
  <2>2. OpBegin(to, end, i + 1) = OpBegin(beg, fin, i + 1)
    <3> HIDE DEF to, end
    <3> QED BY <2>1, <1>7, <1>8 DEF OpBegin
  <2>3. Len(beg[i]) = Len(m[i].hunks) + 1
    BY <2>1 DEF DraftStands, OperationStands
  <2>4. Grammatical(m[i]) /\ fin <= Len(doc) + 1
    BY <2>1, <1>1
  <2> HIDE DEF to, end
  <2> QED BY <1>4, <1>5, <1>7, <2>1, <2>2, <2>3, <2>4, OperationStandsOn
<1>10. /\ \A k \in 1..len : Place(to, end, n, k) = Place(beg, fin, n, k)
       /\ Place(beg, fin, n, len) = fin /\ Place(to, end, n, len + 1) = end
  <2> HIDE DEF to, end, len
  <2>1. Len(to[n]) = len + 1 /\ ~(n + 1 <= Len(to)) /\ ~(n + 1 <= Len(beg)) /\ Len(beg[n]) = len
    BY <1>6, <1>7, <1>1 DEF len
  <2>2. Place(beg, fin, n, len) = fin
    BY <2>1, <1>1 DEF Place, OpBegin
  <2>3. Place(to, end, n, len + 1) = end
    BY <2>1, <1>1 DEF Place, OpBegin
  <2>4. ASSUME NEW k \in 1..len PROVE Place(to, end, n, k) = Place(beg, fin, n, k)
    <3>1. k < len + 1 /\ Place(to, end, n, k) = to[n][k + 1]
      BY <2>1, <1>1 DEF Place
    <3>2. CASE k < len
      <4>1. k + 1 \in 1..len
        BY <3>2, <1>1
      <4>2. to[n][k + 1] = beg[n][k + 1]
        BY <4>1, <1>6, <1>7
      <4>3. Place(beg, fin, n, k) = beg[n][k + 1]
        BY <2>1, <3>2 DEF Place
      <4> QED BY <3>1, <4>2, <4>3
    <3>3. CASE k = len
      <4>1. to[n][k + 1] = fin
        BY <3>3, <1>6, <1>7
      <4> QED BY <3>1, <3>3, <2>2, <4>1
    <3>4. k < len \/ k = len
      BY <1>1
    <3> QED BY <3>2, <3>3, <3>4
  <2> QED BY <2>2, <2>3, <2>4
<1>11. \A k \in 1..len : Place(beg, fin, n, k) <= Len(doc) + 1
  <2> SUFFICES ASSUME NEW k \in 1..len PROVE Place(beg, fin, n, k) <= Len(doc) + 1
    OBVIOUS
  <2>1. k \in Nat
    BY <1>1
  <2>2. Place(beg, fin, n, k) <= fin
    BY <2>1, PlaceWithin
  <2> QED BY <2>2
<1>12. Stands(doc \o text, to[n][1], Header(m[n]), Place(to, end, n, 1))
  <2>1. Stands(doc, beg[n][1], Header(m[n]), Place(beg, fin, n, 1))
    BY <1>1 DEF OperationStands
  <2>2. beg[n][1] \in Nat \ {0}
    <3>1. fin <= fin
      OBVIOUS
    <3>2. \A k \in Nat : beg[n][1] \in 2..(fin - 1)
      BY PlaceWithin
    <3>3. beg[n][1] \in 2..(fin - 1)
      BY <3>2, <1>1
    <3> QED BY <3>1, <3>3, Between, Zenon
  <2>3. Len(Header(m[n])) \in Nat
    BY <1>2, HeaderIs
  <2>4. 1 \in 1..len
    <3> HIDE DEF len
    <3> QED BY <1>1, <1>2, <1>3
  <2>5. Place(beg, fin, n, 1) <= Len(doc) + 1 /\ Place(to, end, n, 1) = Place(beg, fin, n, 1)
    BY <2>4, <1>10, <1>11
  <2>6. Stands(doc \o text, beg[n][1], Header(m[n]), Place(beg, fin, n, 1))
    BY <2>1, <2>2, <2>3, <2>5, <1>4, StandsOn
  <2> HIDE DEF to, end
  <2> QED BY <2>5, <2>6, <1>8
<1>13. ASSUME NEW k \in 1..len
       PROVE  Stands(doc \o text, to[n][k + 1], HunkText(m[n].hunks[k]), Place(to, end, n, k + 1))
  <2>1. CASE k = len
    <3>1. Stands(doc \o text, Len(doc) + 1, text, end)
      BY <1>4, StandsLast
    <3>2. to[n][k + 1] = fin /\ Place(to, end, n, k + 1) = end /\ HunkText(m[n].hunks[k]) = text
      <4>1. HunkText(m[n].hunks[k]) = text
        BY <2>1
      <4> HIDE DEF to, end, len
      <4> QED BY <4>1, <2>1, <1>6, <1>7, <1>10
    <3> HIDE DEF to, end, len
    <3> QED BY <3>1, <3>2
  <2>2. CASE k # len
    <3>1. k \in 1..(len - 1) /\ k + 1 \in 1..len /\ k \in 1..Len(m[n].hunks)
      <4> HIDE DEF len
      <4> QED BY <2>2, <1>1, <1>2, <1>3
    <3>2. Stands(doc, beg[n][k + 1], HunkText(m[n].hunks[k]), Place(beg, fin, n, k + 1))
      BY <3>1, <1>1 DEF OperationStands
    <3>3. beg[n][k + 1] \in Nat \ {0}
      <4>1. beg[n][k + 1] \in 2..(fin - 1) /\ fin <= fin
        BY <3>1, <1>1 DEF OperationStands
      <4> QED BY <4>1, Between, Zenon
    <3>4. Len(HunkText(m[n].hunks[k])) \in Nat
      <4>1. /\ m[n].hunks[k].lines \in Seq(HunkLines) /\ Len(m[n].hunks[k].lines) \in Nat
            /\ m[n].hunks[k].context \in Lines \cup {Empty}
        BY <1>2, <3>1, HunkParts
      <4>2. Len(HunkText(m[n].hunks[k])) = Len(m[n].hunks[k].lines) + 1
        BY <4>1, HunkTextIs
      <4> QED BY <4>1, <4>2
    <3>5. Place(beg, fin, n, k + 1) <= Len(doc) + 1
          /\ Place(to, end, n, k + 1) = Place(beg, fin, n, k + 1)
      BY <3>1, <1>10, <1>11
    <3>6. Stands(doc \o text, beg[n][k + 1], HunkText(m[n].hunks[k]), Place(beg, fin, n, k + 1))
      BY <3>2, <3>3, <3>4, <3>5, <1>4, StandsOn
    <3>7. to[n][k + 1] = beg[n][k + 1]
      <4> HIDE DEF to, len
      <4> QED BY <3>1, <1>6, <1>7
    <3> HIDE DEF to, end, len
    <3> QED BY <3>5, <3>6, <3>7
  <2> QED BY <2>1, <2>2
<1>14. OperationStands(m, doc \o text, to, end, n)
  <2>1. Len(to[n]) = len + 1 /\ ~(n < Len(to))
    <3> HIDE DEF to, len
    <3> QED BY <1>6, <1>7, <1>1
  <2>2. Len(to[n]) \in 1..(Len(m[n].hunks) + 1)
    <3> HIDE DEF to, len
    <3> QED BY <2>1, <1>1, <1>2, <1>3
  <2>3. ASSUME NEW k \in 1..Len(to[n]) PROVE to[n][k] \in 2..(end - 1)
    <3>1. \A j \in 1..len : beg[n][j] \in 2..(fin - 1)
      BY <1>1 DEF OperationStands
    <3> HIDE DEF to, end, len
    <3>2. k \in 1..len \/ k = len + 1
      BY <2>1, <1>1
    <3>3. CASE k \in 1..len
      <4>1. to[n][k] \in 2..(fin - 1)
        BY <3>1, <3>3, <1>6, <1>7
      <4> QED BY <4>1, <1>5, Between, Zenon
    <3>4. CASE k = len + 1
      <4>1. to[n][k] = fin
        BY <3>4, <1>6, <1>7
      <4> QED BY <4>1, <1>5
    <3> QED BY <3>2, <3>3, <3>4
  <2>4. \A k \in 1..(Len(to[n]) - 1) :
          Stands(doc \o text, to[n][k + 1], HunkText(m[n].hunks[k]), Place(to, end, n, k + 1))
    <3>1. Len(to[n]) - 1 = len
      <4> HIDE DEF to, len
      <4> QED BY <2>1, <1>1
    <3> HIDE DEF to, end, len
    <3> QED BY <3>1, <1>13
  <2> HIDE DEF to, end
  <2> QED BY <2>1, <2>2, <2>3, <2>4, <1>12 DEF OperationStands
<1>15. Len(to) <= Len(m) /\ \A i \in 1..Len(to) : OperationStands(m, doc \o text, to, end, i)
  <2> HIDE DEF to, end
  <2> QED BY <1>1, <1>7, <1>9, <1>14
<1>16. DraftStands(m, doc \o text, to, end)
  <2> HIDE DEF to, end
  <2> QED BY <1>15 DEF DraftStands
<1> QED BY <1>4, <1>16

\* While the document is written nothing else happens.
LEMMA OnlyDrafts ==
    ASSUME PatchInv, step = "draft", step' = "draft",
           UNCHANGED <<meant, parseVars, applyVars, started>>
    PROVE  ParserKnown' /\ PatchStepKnown' /\ FilesKept' /\ PatchKnown'
<1>1. UNCHANGED <<cursor, ops, tree, started, opAt>>
  BY DEF parseVars, applyVars
<1>2. ops = <<>> /\ cursor = 2 /\ tree = started /\ opAt = 1 /\ FilesKept
  BY DEF PatchInv, ParserKnown, PatchStepKnown
<1>3. ParserKnown'
  BY <1>1, <1>2 DEF ParserKnown, Executing
<1>4. PatchStepKnown'
  BY <1>1, <1>2 DEF PatchStepKnown, Executing
<1>5. FilesKept'
  BY <1>1, <1>2 DEF FilesKept, SomeFile
<1>6. PatchKnown'
  BY DEF PatchKnown
<1> QED BY <1>3, <1>4, <1>5, <1>6

LEMMA DraftTyped ==
    ASSUME PatchInv, step = "draft", step' = "draft",
           UNCHANGED <<meant, parseVars, applyVars, started>>,
           document' \in Seq(DocLines), begins' \in Seq(Seq(Nat)), finish' \in Nat
    PROVE  PatchTyped'
<1>1. UNCHANGED <<cursor, ops, tree, started, opAt, hunkAt, source, patch, reports, step>>
  BY DEF parseVars, applyVars
<1>2. PatchTyped
  BY DEF PatchInv
<1> QED BY <1>1, <1>2 DEF PatchTyped

\* What the draft is known to be while it is written.
LEMMA DraftIs ==
    ASSUME PatchInv, step = "draft"
    PROVE  /\ document \in Seq(DocLines) /\ Len(document) \in Nat
           /\ begins \in Seq(Seq(Nat)) /\ Len(begins) \in Nat /\ finish = Len(document) + 1
           /\ finish \in Nat /\ finish >= 2
           /\ DraftStands(meant, document, begins, finish)
           /\ Opened(document, OpBegin(begins, finish, 1))
           /\ Len(meant) \in Nat /\ \A n \in 1..Len(meant) : Grammatical(meant[n])
<1>1. PatchTyped /\ DocumentKnown
  BY DEF PatchInv
<1>2. document \in Seq(DocLines) /\ begins \in Seq(Seq(Nat)) /\ finish \in Nat
  BY <1>1 DEF PatchTyped
<1>3. /\ DraftStands(meant, document, begins, finish) /\ finish = Len(document) + 1 /\ finish >= 2
      /\ Opened(document, OpBegin(begins, finish, 1))
  BY <1>1, <1>2 DEF DocumentKnown
<1>4. Len(document) \in Nat /\ Len(begins) \in Nat
  BY <1>2
<1> QED BY <1>1, <1>2, <1>3, <1>4, MeantIs

\* The line before the first operation stays when others are added.
LEMMA OpenedOn ==
    ASSUME NEW doc \in Seq(DocLines), NEW more \in Seq(DocLines), NEW b,
           b <= Len(doc) + 1, Opened(doc, b)
    PROVE  Opened(doc \o more, b)
<1>1. Len(doc) \in Nat /\ \A k \in 1..Len(doc) : (doc \o more)[k] = doc[k]
  BY Joined
<1>2. CASE b = 2
  BY <1>2 DEF Opened
<1>3. CASE b = 3 /\ doc[2].mark \in {"blank", "other"}
  <2>1. 2 \in 1..Len(doc)
    BY <1>1, <1>3
  <2>2. (doc \o more)[2] = doc[2]
    BY <2>1, <1>1
  <2> QED BY <2>2, <1>3 DEF Opened
<1> QED BY <1>2, <1>3 DEF Opened

LEMMA WriteExtraStep == ASSUME PatchInv, WriteExtra PROVE PatchInv'
<1>1. step = "draft" /\ Len(document) = 1 /\ begins = <<>> /\ begins' = begins
  BY DEF WriteExtra
<1>2. PICK mark \in {"blank", "other"} : Drafted(<<L(mark, Empty)>>)
  BY DEF WriteExtra
<1> DEFINE line == L(mark, Empty)
<1>3. /\ document' = document \o <<line>> /\ finish' = Len(document) + Len(<<line>>) + 1
      /\ UNCHANGED <<meant, parseVars, applyVars, started>> /\ step' = "draft"
  BY <1>1, <1>2 DEF Drafted
<1>4. line \in DocLines /\ line.mark \in {"blank", "other"}
  BY DEF L, DocLines, Marks
<1> HIDE DEF line
<1>5. <<line>> \in Seq(DocLines) /\ Len(<<line>>) = 1 /\ <<line>>[1] = line
  BY <1>4
<1>6. /\ document' \in Seq(DocLines) /\ Len(document') = Len(document) + Len(<<line>>)
      /\ \A k \in 1..Len(<<line>>) : document'[Len(document) + k] = <<line>>[k]
  BY <1>1, <1>3, <1>5, DraftIs, Joined
<1>7. document'[2] = line /\ Len(document') = 2 /\ finish' = 3
  BY <1>1, <1>3, <1>5, <1>6
<1>8. begins' \in Seq(Seq(Nat)) /\ Len(begins') = 0
  BY <1>1, DraftIs
<1>9. DocumentKnown'
  <2>1. DraftStands(meant, document', begins', finish')
    <3>1. Len(begins') <= Len(meant) /\ 1..Len(begins') = {}
      BY <1>1, <1>8, DraftIs
    <3> QED BY <3>1 DEF DraftStands
  <2>2. OpBegin(begins', finish', 1) = 3
    BY <1>7, <1>8 DEF OpBegin
  <2>3. Opened(document', OpBegin(begins', finish', 1))
    BY <2>2, <1>4, <1>7 DEF Opened
  <2>4. finish' \in 2..(Len(document') + 1) /\ finish' = Len(document') + 1
    BY <1>7
  <2>5. meant' = meant /\ step' = "draft"
    BY <1>3
  <2> QED BY <2>1, <2>3, <2>4, <2>5 DEF DocumentKnown
<1>10. PatchTyped'
  <2>1. finish' \in Nat
    BY <1>7
  <2> QED BY <1>1, <1>3, <1>6, <1>8, <2>1, DraftTyped
<1>11. ParserKnown' /\ PatchStepKnown' /\ FilesKept' /\ PatchKnown'
  BY <1>1, <1>3, OnlyDrafts
<1> QED BY <1>9, <1>10, <1>11 DEF PatchInv

LEMMA FirstWithin ==
    ASSUME PatchInv, step = "draft"
    PROVE  OpBegin(begins, finish, 1) <= Len(document) + 1
<1>1. CASE Len(begins) = 0
  BY <1>1, DraftIs DEF OpBegin
<1>2. CASE Len(begins) # 0
  <2>1. 1 \in 1..Len(begins) /\ 1 \in Nat
    BY <1>2, DraftIs
  <2>2. begins[1][1] \in 2..(finish - 1)
    BY <2>1, DraftIs, PlaceWithin
  <2>3. OpBegin(begins, finish, 1) = begins[1][1] /\ finish \in Nat /\ finish = Len(document) + 1
    BY <2>1, DraftIs DEF OpBegin
  <2> QED BY <2>2, <2>3
<1> QED BY <1>1, <1>2

LEMMA WriteOperationStep == ASSUME PatchInv, WriteOperation PROVE PatchInv'
<1> DEFINE n == Len(begins) + 1
           h == Header(meant[n])
<1>1. step = "draft" /\ HunksWritten /\ Len(begins) < Len(meant)
      /\ begins' = Append(begins, <<finish>>) /\ Drafted(h)
  BY DEF WriteOperation
<1>2. /\ document' = document \o h /\ finish' = Len(document) + Len(h) + 1
      /\ UNCHANGED <<meant, parseVars, applyVars, started>> /\ step' = "draft"
  BY <1>1 DEF Drafted
<1>3. n \in 1..Len(meant)
  BY <1>1, DraftIs
<1>4. h \in Seq(DocLines) /\ Len(h) \in Nat /\ Len(h) >= 1
  <2>1. Grammatical(meant[n])
    BY <1>1, <1>3, DraftIs
  <2> QED BY <2>1, HeaderIs
<1>5. DraftStands(meant, document', begins', finish')
  <2>1. \A i \in 1..Len(begins) : Len(begins[i]) = Len(meant[i].hunks) + 1
    BY <1>1 DEF HunksWritten
  <2>2. DraftStands(meant, document \o h, Append(begins, <<finish>>), Len(document) + Len(h) + 1)
    BY <1>1, <1>3, <2>1, DraftIs, OperationWritten
  <2> QED BY <2>2, <1>1, <1>2
<1>6. document' \in Seq(DocLines) /\ Len(document') = Len(document) + Len(h)
  BY <1>1, <1>2, <1>4, DraftIs, Joined
<1>7. /\ begins' \in Seq(Seq(Nat)) /\ Len(begins') = n
      /\ \A i \in 1..Len(begins) : begins'[i] = begins[i]
      /\ begins'[n] = <<finish>>
  BY <1>1, DraftIs
<1>8. finish' \in Nat /\ finish' = Len(document') + 1 /\ finish' \in 2..(Len(document') + 1)
  <2> HIDE DEF h
  <2> QED BY <1>1, <1>2, <1>4, <1>6, DraftIs
<1>9. Opened(document', OpBegin(begins', finish', 1))
  <2> HIDE DEF h
  <2>1. OpBegin(begins', finish', 1) = OpBegin(begins, finish, 1)
    <3>1. CASE Len(begins) = 0
      <4>1. begins'[1] = <<finish>> /\ 1 <= Len(begins')
        BY <3>1, <1>7
      <4> QED BY <3>1, <4>1 DEF OpBegin
    <3>2. CASE Len(begins) # 0
      <4>1. 1 \in 1..Len(begins) /\ 1 <= Len(begins')
        BY <3>2, <1>1, <1>7, DraftIs
      <4> QED BY <4>1, <1>7 DEF OpBegin
    <3> QED BY <3>1, <3>2
  <2>2. OpBegin(begins, finish, 1) <= Len(document) + 1
    BY <1>1, FirstWithin
  <2>3. Opened(document \o h, OpBegin(begins, finish, 1))
    BY <2>2, <1>1, <1>4, DraftIs, OpenedOn
  <2> QED BY <2>1, <2>3, <1>2
<1>10. DocumentKnown'
  <2>1. meant' = meant /\ step' = "draft"
    BY <1>2
  <2> QED BY <2>1, <1>5, <1>8, <1>9 DEF DocumentKnown
<1>11. PatchTyped'
  BY <1>1, <1>2, <1>6, <1>7, <1>8, DraftTyped
<1>12. ParserKnown' /\ PatchStepKnown' /\ FilesKept' /\ PatchKnown'
  BY <1>1, <1>2, OnlyDrafts
<1> QED BY <1>10, <1>11, <1>12 DEF PatchInv

LEMMA WriteHunkStep == ASSUME PatchInv, WriteHunk PROVE PatchInv'
<1> DEFINE n == Len(begins)
           text == HunkText(meant[n].hunks[Len(begins[n])])
           to == [begins EXCEPT ![n] = Append(@, finish)]
<1>1. step = "draft" /\ ~HunksWritten /\ begins' = to /\ Drafted(text)
  BY DEF WriteHunk
<1>2. /\ document' = document \o text /\ finish' = Len(document) + Len(text) + 1
      /\ UNCHANGED <<meant, parseVars, applyVars, started>> /\ step' = "draft"
  BY <1>1 DEF Drafted
<1>3. n \in 1..Len(begins) /\ Len(begins[n]) # Len(meant[n].hunks) + 1
  <2>1. PICK i \in 1..Len(begins) : Len(begins[i]) # Len(meant[i].hunks) + 1
    BY <1>1 DEF HunksWritten
  <2>2. ~(i < Len(begins))
    BY <2>1, <1>1, DraftIs DEF DraftStands, OperationStands
  <2>3. i = n
    BY <2>1, <2>2, <1>1, DraftIs
  <2> QED BY <2>1, <2>3
<1>4. /\ text \in Seq(DocLines) /\ Len(text) >= 1
      /\ DraftStands(meant, document \o text, to, Len(document) + Len(text) + 1)
  <2> HIDE DEF text
  <2>1. n = Len(begins) /\ text = HunkText(meant[n].hunks[Len(begins[n])])
    BY DEF text
  <2> QED BY <1>1, <1>3, <2>1, DraftIs, HunkIsWritten
<1>5. DraftStands(meant, document', begins', finish')
  BY <1>1, <1>2, <1>4
<1>6. document' \in Seq(DocLines) /\ Len(document') = Len(document) + Len(text) /\ Len(text) \in Nat
  BY <1>1, <1>2, <1>4, DraftIs, Joined
<1>7. /\ Append(begins[n], finish) \in Seq(Nat)
      /\ \A k \in 1..Len(begins[n]) : Append(begins[n], finish)[k] = begins[n][k]
  <2>1. begins[n] \in Seq(Nat) /\ finish \in Nat
    BY <1>1, <1>3, DraftIs
  <2> QED BY <2>1
<1>8. /\ begins' \in Seq(Seq(Nat)) /\ Len(begins') = Len(begins)
      /\ begins'[n] = Append(begins[n], finish) /\ \A i \in 1..Len(begins) : i # n
         => begins'[i] = begins[i]
  BY <1>1, <1>3, <1>7, DraftIs
<1>9. finish' \in Nat /\ finish' = Len(document') + 1 /\ finish' \in 2..(Len(document') + 1)
  <2> HIDE DEF text
  <2> QED BY <1>1, <1>2, <1>4, <1>6, DraftIs, SMTT(60)
<1>10. Opened(document', OpBegin(begins', finish', 1))
  <2>1. 1 \in 1..Len(begins)
    BY <1>1, <1>3, DraftIs
  <2>2. begins'[1][1] = begins[1][1]
    <3>1. CASE 1 = n
      <4>1. Len(begins[n]) \in Nat /\ 1 \in 1..Len(begins[n])
        <5>1. Len(begins[n]) \in 1..(Len(meant[n].hunks) + 1)
          BY <1>1, <1>3, DraftIs DEF DraftStands, OperationStands
        <5>2. Len(begins[n]) \in Nat
          BY <1>1, <1>3, DraftIs
        <5> QED BY <5>1, <5>2
      <4>2. begins'[n][1] = begins[n][1]
        BY <4>1, <1>7, <1>8
      <4> QED BY <3>1, <4>2
    <3>2. CASE 1 # n
      BY <3>2, <2>1, <1>8
    <3> QED BY <3>1, <3>2
  <2>3. OpBegin(begins', finish', 1) = OpBegin(begins, finish, 1)
    BY <2>1, <2>2, <1>8 DEF OpBegin
  <2>4. OpBegin(begins, finish, 1) <= Len(document) + 1
    BY <1>1, FirstWithin
  <2>5. Opened(document \o text, OpBegin(begins, finish, 1))
    BY <2>4, <1>1, <1>4, DraftIs, OpenedOn
  <2> QED BY <2>3, <2>5, <1>2
<1>11. DocumentKnown'
  <2>1. meant' = meant /\ step' = "draft"
    BY <1>2
  <2> QED BY <2>1, <1>5, <1>9, <1>10 DEF DocumentKnown
<1>12. PatchTyped'
  BY <1>1, <1>2, <1>6, <1>8, <1>9, DraftTyped
<1>13. ParserKnown' /\ PatchStepKnown' /\ FilesKept' /\ PatchKnown'
  BY <1>1, <1>2, OnlyDrafts
<1> QED BY <1>11, <1>12, <1>13 DEF PatchInv

\* What stands goes on standing when the document is closed.
LEMMA AllStandOn ==
    ASSUME NEW m, NEW doc \in Seq(DocLines), NEW more \in Seq(DocLines),
           NEW beg \in Seq(Seq(Nat)), NEW fin \in Nat,
           DraftStands(m, doc, beg, fin), fin <= Len(doc) + 1,
           Len(m) \in Nat, \A n \in 1..Len(m) : Grammatical(m[n])
    PROVE  DraftStands(m, doc \o more, beg, fin)
<1>1. Len(beg) \in Nat /\ Len(beg) <= Len(m)
  BY DEF DraftStands
<1>2. ASSUME NEW n \in 1..Len(beg) PROVE OperationStands(m, doc \o more, beg, fin, n)
  <2>1. n <= Len(beg) /\ fin <= fin /\ n \in 1..Len(m)
    BY <1>1
  <2>2. Grammatical(m[n])
    BY <2>1
  <2>3. n < Len(beg) => Len(beg[n]) = Len(m[n].hunks) + 1
    BY DEF DraftStands, OperationStands
  <2> QED BY <2>1, <2>2, <2>3, OperationStandsOn
<1> QED BY <1>1, <1>2 DEF DraftStands

LEMMA CallApplyPatchStep == ASSUME PatchInv, CallApplyPatch PROVE PatchInv'
<1>1. /\ step = "draft" /\ HunksWritten /\ Len(begins) = Len(meant)
      /\ started' = tree' /\ step' = "parse"
      /\ UNCHANGED <<meant, begins, finish, parseVars, opAt, hunkAt, source, patch, reports>>
  BY DEF CallApplyPatch
<1>2. UNCHANGED <<cursor, ops>>
  BY <1>1 DEF parseVars
<1>3. PICK mark \in {"none", "eof"} :
          document' = document \o (IF mark = "eof" THEN <<L("eof", Empty)>> ELSE <<>>)
                               \o <<L("end", Empty)>>
  BY DEF CallApplyPatch
<1>4. PICK s \in Sources : tree' = [NoFiles EXCEPT ![HerePath] = File(s)]
  BY DEF CallApplyPatch
<1> DEFINE eof == L("eof", Empty)
           end == L("end", Empty)
           x == IF mark = "eof" THEN <<eof>> ELSE <<>>
           d == document \o x
<1>5. eof \in DocLines /\ end \in DocLines /\ eof.mark = "eof" /\ end.mark = "end"
  BY DEF L, DocLines, Marks
<1>6. document' = d \o <<end>>
  BY <1>3
<1> HIDE DEF eof, end
<1>7. /\ <<eof>> \in Seq(DocLines) /\ <<end>> \in Seq(DocLines) /\ <<>> \in Seq(DocLines)
      /\ Len(<<eof>>) = 1 /\ <<eof>>[1] = eof /\ Len(<<end>>) = 1 /\ <<end>>[1] = end
  BY <1>5
<1>8. x \in Seq(DocLines) /\ (mark = "eof" => Len(x) = 1 /\ x[1] = eof)
      /\ (mark = "none" => Len(x) = 0)
  BY <1>7
<1> HIDE DEF x
<1>9. /\ d \in Seq(DocLines) /\ Len(d) = Len(document) + Len(x) /\ Len(d) \in Nat /\ Len(x) \in Nat
      /\ \A k \in 1..Len(document) : d[k] = document[k]
      /\ \A k \in 1..Len(x) : d[Len(document) + k] = x[k]
  BY <1>1, <1>8, DraftIs, Joined
<1> HIDE DEF d
<1>10. /\ document' \in Seq(DocLines) /\ Len(document') = Len(d) + 1
       /\ \A k \in 1..Len(d) : document'[k] = d[k]
       /\ document'[Len(d) + 1] = end
  <2> DEFINE e == <<end>>
             j == d \o e
  <2>1. e \in Seq(DocLines) /\ Len(e) = 1 /\ e[1] = end /\ document' = j
    BY <1>6, <1>7
  <2>2. /\ j \in Seq(DocLines) /\ Len(j) = Len(d) + Len(e)
        /\ \A k \in 1..Len(d) : j[k] = d[k]
        /\ \A k \in 1..Len(e) : j[Len(d) + k] = e[k]
    <3>1. d \in Seq(DocLines) /\ e \in Seq(DocLines)
      BY <2>1, <1>9
    <3> HIDE DEF e
    <3> QED BY <3>1, Joined
  <2> HIDE DEF e, j
  <2>3. j[Len(d) + 1] = end
    BY <2>1, <2>2
  <2> QED BY <2>1, <2>2, <2>3
<1>11. DraftStands(meant, document', begins, finish)
  <2>1. finish <= Len(document) + 1 /\ finish <= Len(d) + 1
    BY <1>1, <1>9, DraftIs
  <2>2. DraftStands(meant, d, begins, finish)
    BY <2>1, <1>1, <1>8, DraftIs, AllStandOn DEF d
  <2> QED BY <2>1, <2>2, <1>1, <1>6, <1>7, <1>9, DraftIs, AllStandOn
<1>12. Opened(document', OpBegin(begins, finish, 1))
  <2>1. OpBegin(begins, finish, 1) <= Len(document) + 1
    BY <1>1, FirstWithin
  <2>2. Opened(d, OpBegin(begins, finish, 1))
    BY <2>1, <1>1, <1>8, DraftIs, OpenedOn DEF d
  <2>3. OpBegin(begins, finish, 1) <= Len(d) + 1
    <3> DEFINE b == OpBegin(begins, finish, 1)
    <3>1. b = 2 \/ b = 3
      BY <1>1, DraftIs DEF Opened
    <3> HIDE DEF b
    <3>2. b <= Len(document) + 1
      BY <2>1 DEF b
    <3>3. b <= Len(d) + 1
      BY <3>1, <3>2, <1>1, <1>9, DraftIs
    <3> QED BY <3>3 DEF b
  <2> QED BY <2>2, <2>3, <1>6, <1>7, <1>9, OpenedOn
<1>13. DocumentOver(document', finish)
  <2>1. finish = Len(document) + 1 /\ Len(document) \in Nat
    BY <1>1, DraftIs
  <2>2. CASE mark = "none"
    <3>1. Len(d) + 1 = finish /\ Len(document') = finish
      BY <2>1, <2>2, <1>8, <1>9, <1>10
    <3>2. document'[finish].mark = "end"
      BY <3>1, <1>5, <1>10
    <3> QED BY <3>1, <3>2 DEF DocumentOver
  <2>3. CASE mark = "eof"
    <3>0. Len(x) = 1 /\ x[1] = eof
      BY <2>3, <1>8, Zenon
    <3>1. Len(d) = finish /\ Len(document') = finish + 1 /\ finish \in 1..Len(d)
      BY <2>1, <3>0, <1>9, <1>10
    <3>2. d[finish] = eof
      <4>1. d[Len(document) + 1] = x[1]
        BY <3>0, <1>9
      <4> QED BY <4>1, <3>0, <2>1
    <3>3. document'[finish].mark = "eof" /\ document'[finish + 1].mark = "end"
      BY <3>1, <3>2, <1>5, <1>10
    <3> QED BY <3>1, <3>3 DEF DocumentOver
  <2> QED BY <2>2, <2>3
<1>14. DocumentKnown'
  <2>1. HunksWritten'
    BY <1>1 DEF HunksWritten
  <2>2. finish \in 2..(Len(document') + 1)
    BY <1>1, <1>9, <1>10, DraftIs
  <2>3. /\ DraftStands(meant', document', begins', finish')
        /\ Opened(document', OpBegin(begins', finish', 1))
        /\ DocumentOver(document', finish') /\ finish' \in 2..(Len(document') + 1)
    BY <2>2, <1>1, <1>11, <1>12, <1>13
  <2> QED BY <2>1, <2>3, <1>1 DEF DocumentKnown
<1>15. tree' \in [Paths -> Files]
  <2>1. s \in Seq(Lines) /\ HerePath \in Paths
    BY PatchAssumption
  <2>2. Missing \in Files /\ File(s) \in Files
    BY <2>1 DEF Missing, File, Files
  <2> QED BY <2>2, <1>4 DEF NoFiles
<1>16. ops = <<>> /\ cursor = 2 /\ opAt = 1
  BY <1>1 DEF PatchInv, ParserKnown, PatchStepKnown
<1>17. PatchTyped'
  <2>1. PatchTyped
    BY DEF PatchInv
  <2>2. 2 \in 2..Len(document')
    BY <1>1, <1>9, <1>10, DraftIs
  <2> QED BY <2>1, <2>2, <1>1, <1>2, <1>10, <1>15, <1>16 DEF PatchTyped, Steps
<1>18. ParserKnown'
  <2>1. OpsBefore(ops', meant', Len(ops'))
    BY <1>1, <1>2, <1>16, DraftIs DEF OpsBefore
  <2> QED BY <2>1, <1>1, <1>2, <1>16 DEF ParserKnown, Executing
<1>19. PatchStepKnown' /\ FilesKept' /\ PatchKnown'
  BY <1>1, <1>16 DEF PatchStepKnown, FilesKept, SomeFile, PatchKnown, Executing
<1> QED BY <1>14, <1>17, <1>18, <1>19 DEF PatchInv

-----------------------------------------------------------------------------
(* PatchHunks: the parser *)

\* What the parser works on.
LEMMA DocumentIs ==
    ASSUME PatchInv, step # "draft"
    PROVE  /\ document \in Seq(DocLines) /\ Len(document) \in Nat
           /\ \A k \in 1..Len(document) : document[k] \in DocLines
           /\ begins \in Seq(Seq(Nat)) /\ Len(begins) = Len(meant) /\ finish \in Nat
           /\ finish \in 2..Len(document) /\ DocumentOver(document, finish)
           /\ Opened(document, OpBegin(begins, finish, 1))
           /\ meant \in Seq(FileOp) /\ Len(meant) \in Nat
           /\ \A n \in 1..Len(meant) : /\ meant[n] \in FileOp /\ Grammatical(meant[n])
                                       /\ Len(begins[n]) = Len(meant[n].hunks) + 1
                                       /\ OperationStands(meant, document, begins, finish, n)
           /\ ops \in Seq(FileOp) /\ Len(ops) \in Nat /\ cursor \in 2..Len(document)
<1>1. PatchTyped /\ DocumentKnown
  BY DEF PatchInv
<1>2. document \in Seq(DocLines) /\ begins \in Seq(Seq(Nat)) /\ finish \in Nat
      /\ ops \in Seq(FileOp)
      /\ cursor \in 2..Len(document)
  BY <1>1 DEF PatchTyped
<1>3. Len(document) \in Nat /\ (\A k \in 1..Len(document) : document[k] \in DocLines)
      /\ Len(ops) \in Nat
  BY <1>2
<1>4. /\ DraftStands(meant, document, begins, finish) /\ finish >= 2 /\ DocumentOver(document, finish)
      /\ Opened(document, OpBegin(begins, finish, 1)) /\ HunksWritten /\ Len(begins) = Len(meant)
  BY <1>1, <1>2 DEF DocumentKnown
<1>5. finish \in 2..Len(document)
  BY <1>2, <1>3, <1>4 DEF DocumentOver
<1>6. meant \in Seq(FileOp) /\ Len(meant) \in Nat
      /\ \A n \in 1..Len(meant) : meant[n] \in FileOp /\ Grammatical(meant[n])
  BY <1>1, MeantIs
<1>7. \A n \in 1..Len(meant) : /\ Len(begins[n]) = Len(meant[n].hunks) + 1
                               /\ OperationStands(meant, document, begins, finish, n)
  BY <1>4 DEF DraftStands, HunksWritten
<1> QED BY <1>2, <1>3, <1>4, <1>5, <1>6, <1>7

\* The header of an operation in the document.
LEMMA HeaderStands ==
    ASSUME PatchInv, step # "draft", NEW n \in 1..Len(meant),
           NEW b, b = OpBegin(begins, finish, n)
    PROVE  /\ b \in 2..(finish - 1) /\ b \in 2..Len(document)
           /\ \A k \in 1..Len(Header(meant[n])) : document[b + k - 1] = Header(meant[n])[k]
           /\ Place(begins, finish, n, 1) = b + Len(Header(meant[n]))
<1>1. OperationStands(meant, document, begins, finish, n) /\ n <= Len(begins)
      /\ Len(begins[n]) = Len(meant[n].hunks) + 1 /\ Grammatical(meant[n])
  BY DocumentIs
<1>2. b = begins[n][1]
  BY <1>1 DEF OpBegin
<1>3. 1 \in 1..Len(begins[n])
  <2>1. Len(meant[n].hunks) \in Nat
    BY <1>1, OpParts
  <2> QED BY <2>1, <1>1
<1>4. b \in 2..(finish - 1)
  BY <1>1, <1>2, <1>3 DEF OperationStands
<1>5. b \in 2..Len(document)
  BY <1>4, DocumentIs
<1>6. Stands(document, b, Header(meant[n]), Place(begins, finish, n, 1))
  BY <1>1, <1>2 DEF OperationStands
<1> QED BY <1>4, <1>5, <1>6 DEF Stands

\* An operation begins with its header, and after the last the document is over.
LEMMA BeginIs ==
    ASSUME PatchInv, step # "draft", NEW n \in 1..(Len(meant) + 1),
           NEW b, b = OpBegin(begins, finish, n)
    PROVE  /\ b \in 2..Len(document)
              /\ document[b].mark \in {"update", "add", "delete", "eof", "end"}
           /\ (n = Len(meant) + 1 => b = finish)
           /\ (n <= Len(meant) => document[b].mark \notin {"eof", "end"})
<1>1. CASE n <= Len(meant)
  <2>1. n \in 1..Len(meant) /\ n # Len(meant) + 1
    BY <1>1, DocumentIs
  <2>2. Grammatical(meant[n])
    BY <2>1, DocumentIs
  <2>3. /\ Header(meant[n])[1] = L(IF meant[n].kind = "move" THEN "update" ELSE meant[n].kind, meant[n].path)
        /\ Len(Header(meant[n])) \in Nat /\ Len(Header(meant[n])) >= 1
        /\ meant[n].kind \in {"add", "delete", "update", "move"}
    BY <2>2, HeaderIs, OpParts
  <2>4. b \in 2..Len(document) /\ document[b + 1 - 1] = Header(meant[n])[1]
    <3>1. 1 \in 1..Len(Header(meant[n]))
      BY <2>3
    <3> QED BY <2>1, <3>1, HeaderStands
  <2>5. b + 1 - 1 = b
    BY <2>4, DocumentIs
  <2>6. document[b].mark \in {"update", "add", "delete"}
    BY <2>3, <2>4, <2>5 DEF L
  <2> QED BY <2>1, <2>4, <2>6
<1>2. CASE ~(n <= Len(meant))
  <2>1. n = Len(meant) + 1 /\ ~(n <= Len(begins))
    BY <1>2, DocumentIs
  <2>2. b = finish
    BY <2>1 DEF OpBegin
  <2>3. document[finish].mark \in {"eof", "end"}
    BY DocumentIs DEF DocumentOver
  <2> QED BY <2>1, <2>2, <2>3, <1>2, DocumentIs
<1> QED BY <1>1, <1>2

\* A hunk in the document.
LEMMA PlaceIs ==
    ASSUME PatchInv, step # "draft", NEW n \in 1..Len(meant),
           NEW k \in 1..Len(meant[n].hunks), NEW p, p = Place(begins, finish, n, k)
    PROVE  /\ p \in 2..Len(document) /\ document[p] = L("@@", meant[n].hunks[k].context)
           /\ \A i \in 1..Len(meant[n].hunks[k].lines) : document[p + i] = meant[n].hunks[k].lines[i]
           /\ Place(begins, finish, n, k + 1) = p + Len(meant[n].hunks[k].lines) + 1
<1> DEFINE hunk == meant[n].hunks[k]
<1>1. /\ OperationStands(meant, document, begins, finish, n) /\ Grammatical(meant[n])
      /\ Len(begins[n]) = Len(meant[n].hunks) + 1
  BY DocumentIs
<1>2. Len(meant[n].hunks) \in Nat /\ k \in Nat /\ k < Len(begins[n]) /\ k + 1 \in 1..Len(begins[n])
      /\ k \in 1..(Len(begins[n]) - 1)
  <2>1. Len(meant[n].hunks) \in Nat
    BY <1>1, OpParts
  <2> QED BY <2>1, <1>1
<1>3. p = begins[n][k + 1] /\ Stands(document, p, HunkText(hunk), Place(begins, finish, n, k + 1))
  <2>1. p = begins[n][k + 1]
    BY <1>2 DEF Place
  <2> QED BY <2>1, <1>1, <1>2 DEF OperationStands
<1>4. p \in 2..(finish - 1)
  BY <1>1, <1>2, <1>3 DEF OperationStands
<1>5. p \in 2..Len(document) /\ p \in Nat
  BY <1>4, DocumentIs
<1>6. /\ Len(HunkText(hunk)) = Len(hunk.lines) + 1 /\ Len(hunk.lines) \in Nat
      /\ HunkText(hunk)[1] = L("@@", hunk.context)
      /\ \A i \in 1..Len(hunk.lines) : HunkText(hunk)[i + 1] = hunk.lines[i]
  <2>1. hunk.lines \in Seq(HunkLines) /\ Len(hunk.lines) \in Nat
        /\ hunk.context \in Lines \cup {Empty}
    BY <1>1, HunkParts
  <2> QED BY <2>1, HunkTextIs
<1> HIDE DEF hunk
<1>7. /\ Place(begins, finish, n, k + 1) = p + Len(HunkText(hunk))
      /\ \A j \in 1..Len(HunkText(hunk)) : document[p + j - 1] = HunkText(hunk)[j]
  BY <1>3 DEF Stands
<1>len. Len(HunkText(hunk)) = Len(hunk.lines) + 1 /\ Len(hunk.lines) \in Nat
  BY <1>6
<1>8. document[p] = L("@@", hunk.context)
  <2>1. 1 \in 1..Len(HunkText(hunk)) /\ p + 1 - 1 = p
    BY <1>5, <1>len
  <2> QED BY <2>1, <1>6, <1>7
<1>9. ASSUME NEW i \in 1..Len(hunk.lines) PROVE document[p + i] = hunk.lines[i]
  <2>1. i + 1 \in 1..Len(HunkText(hunk)) /\ p + (i + 1) - 1 = p + i
    BY <1>5, <1>len
  <2>2. document[p + (i + 1) - 1] = HunkText(hunk)[i + 1]
    BY <2>1, <1>7
  <2> QED BY <2>1, <2>2, <1>6
<1>10. Place(begins, finish, n, k + 1) = p + Len(hunk.lines) + 1
  BY <1>5, <1>6, <1>7
<1> QED BY <1>5, <1>8, <1>9, <1>10 DEF hunk

\* Behind the last hunk the next operation begins.
LEMMA PlaceLast ==
    ASSUME PatchInv, step # "draft", NEW n \in 1..Len(meant)
    PROVE  Place(begins, finish, n, Len(meant[n].hunks) + 1) = OpBegin(begins, finish, n + 1)
<1>1. Len(begins[n]) = Len(meant[n].hunks) + 1 /\ Len(meant[n].hunks) \in Nat
  <2>1. Grammatical(meant[n]) /\ Len(begins[n]) = Len(meant[n].hunks) + 1
    BY DocumentIs
  <2> QED BY <2>1, OpParts
<1>2. ~(Len(meant[n].hunks) + 1 < Len(begins[n]))
  BY <1>1
<1> QED BY <1>2 DEF Place

\* A step of the parser that leaves it known keeps all that is known.
LEMMA ParseKeeps ==
    ASSUME PatchInv, step \in {"parse", "chunks"}, Parsed, ops' \in Seq(FileOp),
           cursor' \in 2..Len(document),
           step' \in {"parse", "chunks", "refused", "apply", "answered"},
           step' = "apply" => ops' # <<>>, ParserKnown'
    PROVE  PatchInv'
<1>1. UNCHANGED <<meant, document, begins, finish, opAt, hunkAt, source, patch, tree, reports, started>>
  BY DEF Parsed, draftVars, applyVars
<1>2. PatchTyped /\ DocumentKnown /\ tree = started /\ opAt = 1 /\ step # "draft"
  BY DEF PatchInv, PatchStepKnown
<1>3. Len(ops') \in Nat
  OBVIOUS
<1>4. PatchTyped'
  BY <1>1, <1>2, <1>3 DEF PatchTyped, Steps
<1>5. DocumentKnown'
  BY <1>1, <1>2 DEF DocumentKnown, HunksWritten
<1>6. PatchStepKnown'
  <2>1. step' = "apply" => 1 <= Len(ops')
    BY <1>3
  <2> QED BY <2>1, <1>1, <1>2 DEF PatchStepKnown, Executing
<1>7. FilesKept' /\ PatchKnown'
  BY <1>1, <1>2 DEF FilesKept, SomeFile, PatchKnown
<1> QED BY <1>4, <1>5, <1>6, <1>7 DEF PatchInv

\* One more operation that is meant.
LEMMA OneMore ==
    ASSUME NEW S, NEW o \in Seq(S), NEW m, Len(m) \in Nat, OpsBefore(o, m, Len(o)), Len(o) < Len(m),
           NEW op \in S, op = m[Len(o) + 1]
    PROVE  /\ Append(o, op) \in Seq(S) /\ Len(Append(o, op)) = Len(o) + 1
           /\ OpsBefore(Append(o, op), m, Len(o) + 1)
<1> DEFINE a == Append(o, op)
<1>1. /\ a \in Seq(S) /\ Len(a) = Len(o) + 1 /\ Len(o) \in Nat /\ a[Len(o) + 1] = op
      /\ \A i \in 1..Len(o) : a[i] = o[i]
  OBVIOUS
<1> HIDE DEF a
<1>2. ASSUME NEW i \in 1..(Len(o) + 1) PROVE a[i] = m[i]
  <2>1. i \in 1..Len(o) \/ i = Len(o) + 1
    BY <1>1
  <2> QED BY <2>1, <1>1 DEF OpsBefore
<1>3. Len(o) + 1 <= Len(m)
  BY <1>1
<1> QED BY <1>1, <1>2, <1>3 DEF OpsBefore, a

\* All of them.
LEMMA AllOps ==
    ASSUME NEW S, NEW o \in Seq(S), NEW m \in Seq(S), OpsBefore(o, m, Len(o)), Len(o) = Len(m)
    PROVE  o = m
BY DEF OpsBefore

\* An operation that is added or deleted is its kind, path and lines.
LEMMA OpIs ==
    ASSUME NEW op, Grammatical(op), op.kind \in {"add", "delete"}
    PROVE  op = Op(op.kind, op.path, NoPath, op.lines)
<1>1. op \in FileOp /\ op.to = NoPath /\ op.hunks = <<>>
  BY OpParts
<1>2. op = [kind |-> op.kind, path |-> op.path, to |-> op.to, lines |-> op.lines, hunks |-> op.hunks]
  BY <1>1 DEF FileOp
<1> QED BY <1>1, <1>2 DEF Op

\* The parser at the end of the document.
LEMMA EndParseStep ==
    ASSUME PatchInv, step = "parse", ParsePatch, Mark(cursor) = "end", Len(ops) = Len(meant)
    PROVE  PatchInv'
<1>1. EndParse /\ Parsed
  BY DEF ParsePatch
<1>2. ops = meant
  <2>1. OpsBefore(ops, meant, Len(ops))
    BY DEF PatchInv, ParserKnown
  <2> QED BY <2>1, DocumentIs, AllOps
<1>3. ops' = ops /\ cursor' = cursor /\ meant' = meant
  BY <1>1 DEF EndParse, Parsed, parseVars, draftVars
<1>4. step' \in {"apply", "answered", "refused"} /\ (step' = "apply" => ops # <<>>)
  BY <1>1 DEF EndParse
<1>5. ParserKnown'
  BY <1>2, <1>3, <1>4 DEF ParserKnown, Executing
<1> QED BY <1>1, <1>3, <1>4, <1>5, DocumentIs, ParseKeeps

\* A document that is refused.
LEMMA RefusedStep ==
    ASSUME PatchInv, step \in {"parse", "chunks"}, Refused, Parsed
    PROVE  PatchInv'
<1>1. step' = "refused" /\ ops' = ops /\ cursor' = cursor
  BY DEF Refused, parseVars
<1>2. ParserKnown'
  BY <1>1 DEF ParserKnown, Executing
<1> QED BY <1>1, <1>2, DocumentIs, ParseKeeps

\* What has been parsed when the next operation is parsed.
LEMMA NextOp ==
    ASSUME PatchInv, step = "parse", Len(ops) < Len(meant),
           NEW n, n = Len(ops) + 1, cursor = OpBegin(begins, finish, n)
    PROVE  /\ n \in 1..Len(meant) /\ Grammatical(meant[n]) /\ meant[n] \in FileOp
           /\ document[cursor] = Header(meant[n])[1]
           /\ OpsBefore(ops, meant, Len(ops)) /\ n + 1 \in 1..(Len(meant) + 1)
           /\ cursor \in Nat /\ n \in Nat
<1>1. n \in 1..Len(meant) /\ n + 1 \in 1..(Len(meant) + 1) /\ n \in Nat /\ cursor \in Nat
  BY DocumentIs
<1>2. Grammatical(meant[n]) /\ meant[n] \in FileOp
  BY <1>1, DocumentIs
<1>3. 1 \in 1..Len(Header(meant[n]))
  <2>1. Len(Header(meant[n])) \in Nat /\ Len(Header(meant[n])) >= 1
    BY <1>2, HeaderIs
  <2> QED BY <2>1
<1>4. document[cursor + 1 - 1] = Header(meant[n])[1]
  BY <1>1, <1>3, HeaderStands
<1>5. cursor + 1 - 1 = cursor
  BY <1>1
<1>6. OpsBefore(ops, meant, Len(ops))
  BY DEF PatchInv, ParserKnown
<1> QED BY <1>1, <1>2, <1>4, <1>5, <1>6

\* An operation is parsed whole.
LEMMA WholeParsed ==
    ASSUME PatchInv, step = "parse", Parsed, Len(ops) < Len(meant),
           NEW n, n = Len(ops) + 1, cursor = OpBegin(begins, finish, n),
           ops' = Append(ops, meant[n]), cursor' = OpBegin(begins, finish, n + 1), step' = step
    PROVE  PatchInv'
<1>1. /\ n \in 1..Len(meant) /\ meant[n] \in FileOp /\ OpsBefore(ops, meant, Len(ops))
      /\ n + 1 \in 1..(Len(meant) + 1)
  BY NextOp
<1>2. ops' \in Seq(FileOp) /\ Len(ops') = n /\ OpsBefore(ops', meant, n)
  <2>1. ops \in Seq(FileOp) /\ Len(meant) \in Nat
    BY DocumentIs
  <2> QED BY <1>1, <2>1, OneMore
<1>3. cursor' \in 2..Len(document)
  BY <1>1, BeginIs
<1>4. UNCHANGED <<meant, begins, finish>>
  BY DEF Parsed, draftVars
<1>5. ParserKnown'
  BY <1>2, <1>4 DEF ParserKnown, Executing
<1> QED BY <1>2, <1>3, <1>5, ParseKeeps

LEMMA DeleteParsed ==
    ASSUME PatchInv, step = "parse", ParsePatch, Len(ops) < Len(meant),
           NEW n, n = Len(ops) + 1, cursor = OpBegin(begins, finish, n), meant[n].kind = "delete"
    PROVE  PatchInv'
<1>1. Grammatical(meant[n]) /\ document[cursor] = Header(meant[n])[1] /\ n \in 1..Len(meant)
  BY NextOp
<1>2. document[cursor] = L("delete", meant[n].path) /\ Len(Header(meant[n])) = 1
  BY <1>1, HeaderIs
<1>3. Mark(cursor) = "delete" /\ document[cursor].text = meant[n].path
  BY <1>2 DEF Mark, L
<1>4. /\ ops' = Append(ops, Op("delete", document[cursor].text, NoPath, <<>>))
      /\ cursor' = cursor + 1 /\ step' = step /\ Parsed
  BY <1>3 DEF ParsePatch
<1>5. meant[n] = Op("delete", meant[n].path, NoPath, <<>>)
  <2>1. meant[n].lines = <<>>
    BY <1>1, OpParts
  <2> QED BY <2>1, <1>1, OpIs
<1>6. cursor' = OpBegin(begins, finish, n + 1)
  <2>1. Place(begins, finish, n, 1) = cursor + 1
    BY <1>1, <1>2, HeaderStands
  <2>2. Len(meant[n].hunks) = 0
    BY <1>1, OpParts
  <2>3. Place(begins, finish, n, Len(meant[n].hunks) + 1) = OpBegin(begins, finish, n + 1)
    BY <1>1, PlaceLast
  <2> QED BY <2>1, <2>2, <2>3, <1>4
<1> QED BY <1>3, <1>4, <1>5, <1>6, WholeParsed

LEMMA AddParsed ==
    ASSUME PatchInv, step = "parse", ParsePatch, Len(ops) < Len(meant),
           NEW n, n = Len(ops) + 1, cursor = OpBegin(begins, finish, n), meant[n].kind = "add"
    PROVE  PatchInv'
<1> DEFINE lines == meant[n].lines
           next == OpBegin(begins, finish, n + 1)
<1>1. /\ Grammatical(meant[n]) /\ document[cursor] = Header(meant[n])[1] /\ n \in 1..Len(meant)
      /\ n + 1 \in 1..(Len(meant) + 1) /\ cursor \in Nat
  BY NextOp
<1>2. /\ document[cursor] = L("add", meant[n].path) /\ Len(Header(meant[n])) = Len(lines) + 1
      /\ \A k \in 1..Len(lines) : Header(meant[n])[k + 1] = L("+", lines[k])
  BY <1>1, HeaderIs
<1>3. lines \in Seq(Lines) /\ Len(lines) \in Nat /\ Len(lines) >= 1 /\ Len(meant[n].hunks) = 0
  BY <1>1, OpParts
<1>4. next = cursor + Len(lines) + 1
  <2>1. Place(begins, finish, n, 1) = cursor + Len(Header(meant[n]))
    BY <1>1, HeaderStands
  <2>2. Place(begins, finish, n, Len(meant[n].hunks) + 1) = next
    BY <1>1, PlaceLast
  <2> HIDE DEF next, lines
  <2> QED BY <2>1, <2>2, <1>1, <1>2, <1>3
<1>5. ASSUME NEW k \in 1..Len(lines) PROVE document[cursor + k] = L("+", lines[k])
  <2>1. k + 1 \in 1..Len(Header(meant[n])) /\ cursor + (k + 1) - 1 = cursor + k
    BY <1>1, <1>2, <1>3
  <2>2. document[cursor + (k + 1) - 1] = Header(meant[n])[k + 1]
    BY <1>1, <2>1, HeaderStands
  <2> QED BY <2>1, <2>2, <1>2
<1>6. next \in 2..Len(document) /\ document[next].mark # "+"
  BY <1>1, BeginIs
<1>7. Past(cursor + 1, {"+"}) = next
  <2> HIDE DEF lines, next
  <2>1. cursor + 1 \in Nat /\ next \in (cursor + 1)..Len(document) /\ Len(document) \in Nat
    <3>1. Len(document) \in Nat
      BY DocumentIs
    <3> QED BY <3>1, <1>1, <1>3, <1>4, <1>6, SMTT(60)
  <2>2. ASSUME NEW k \in (cursor + 1)..(next - 1) PROVE Mark(k) \in {"+"}
    <3>1. k - cursor \in 1..Len(lines) /\ cursor + (k - cursor) = k
      BY <1>1, <1>3, <1>4, SMTT(60)
    <3>2. document[cursor + (k - cursor)] = L("+", lines[k - cursor])
      BY <3>1, <1>5
    <3> QED BY <3>1, <3>2 DEF Mark, L
  <2>3. Mark(next) \notin {"+"}
    BY <1>6 DEF Mark
  <2> QED BY <2>1, <2>2, <2>3, PastIs
<1>8. Mark(cursor) = "add" /\ document[cursor].text = meant[n].path
  BY <1>2 DEF Mark, L
<1>9. ParseAddFile(cursor) /\ Parsed
  BY <1>8 DEF ParsePatch
<1>10. next # cursor + 1 /\ next - cursor - 1 = Len(lines)
  <2> HIDE DEF lines, next
  <2> QED BY <1>1, <1>3, <1>4, SMTT(60)
<1>11. /\ ops' = Append(ops, Op("add", document[cursor].text, NoPath,
                     [k \in 1..(next - cursor - 1) |-> document[cursor + k].text]))
       /\ cursor' = next /\ step' = step
  <2> HIDE DEF next
  <2> QED BY <1>7, <1>9, <1>10 DEF ParseAddFile
<1>12. [k \in 1..(next - cursor - 1) |-> document[cursor + k].text] = lines
  <2>1. \A k \in 1..Len(lines) : document[cursor + k].text = lines[k]
    <3> SUFFICES ASSUME NEW k \in 1..Len(lines) PROVE document[cursor + k].text = lines[k]
      OBVIOUS
    <3>1. document[cursor + k] = L("+", lines[k])
      BY <1>5
    <3> HIDE DEF lines
    <3> QED BY <3>1 DEF L
  <2>2. lines = [k \in 1..Len(lines) |-> lines[k]]
    BY <1>3
  <2> HIDE DEF lines, next
  <2>3. [k \in 1..(next - cursor - 1) |-> document[cursor + k].text] = [k \in 1..Len(lines) |-> lines[k]]
    BY <2>1, <1>10
  <2> QED BY <2>2, <2>3
<1>13. meant[n] = Op("add", meant[n].path, NoPath, lines)
  BY <1>1, OpIs
<1>14. ops' = Append(ops, meant[n])
  <2> HIDE DEF lines, next
  <2> QED BY <1>8, <1>11, <1>12, <1>13
<1>15. cursor' = OpBegin(begins, finish, n + 1) /\ step' = step
  BY <1>11
<1> HIDE DEF lines, next
<1> QED BY <1>9, <1>14, <1>15, WholeParsed

\* The header of an operation with hunks, and the path to move to, are parsed.
LEMMA UpdateParsed ==
    ASSUME PatchInv, step = "parse", ParsePatch, Len(ops) < Len(meant),
           NEW n, n = Len(ops) + 1, cursor = OpBegin(begins, finish, n),
           meant[n].kind \in {"update", "move"}
    PROVE  PatchInv'
<1> DEFINE op == meant[n]
           next == Place(begins, finish, n, 1)
           parsed == Op(op.kind, op.path, op.to, <<>>)
<1>1. /\ Grammatical(op) /\ document[cursor] = Header(op)[1] /\ n \in 1..Len(meant)
      /\ cursor \in Nat /\ OpsBefore(ops, meant, Len(ops)) /\ op \in FileOp
  BY NextOp
<1>2. /\ document[cursor] = L("update", op.path)
      /\ op.kind = "move" => Len(Header(op)) = 2 /\ Header(op)[2] = L("move to", op.to)
      /\ op.kind = "update" => Len(Header(op)) = 1
  BY <1>1, HeaderIs
<1>3. /\ Len(op.hunks) \in Nat /\ Len(op.hunks) >= 1 /\ op.lines = <<>>
      /\ op.kind = "update" => op.to = NoPath
  BY <1>1, OpParts
<1>4. next = cursor + Len(Header(op))
  BY <1>1, HeaderStands
<1>5. next \in 2..Len(document) /\ document[next] = L("@@", op.hunks[1].context)
  <2>1. 1 \in 1..Len(op.hunks)
    BY <1>3
  <2> QED BY <2>1, <1>1, PlaceIs
<1>6. Mark(cursor) = "update" /\ document[cursor].text = op.path
  <2>1. document[cursor] = L("update", op.path)
    BY <1>2
  <2> HIDE DEF op
  <2> QED BY <2>1 DEF Mark, L
<1>7. ParseUpdateFile(cursor) /\ Parsed
  BY <1>6 DEF ParsePatch
<1>8. /\ ops' = Append(ops, parsed) /\ cursor' = next /\ step' = "chunks"
  <2>1. CASE op.kind = "move"
    <3>1. document[cursor + 1] = L("move to", op.to) /\ next = cursor + 2
      <4>1. Len(Header(op)) = 2 /\ Header(op)[2] = L("move to", op.to)
        BY <2>1, <1>2
      <4>2. 2 \in 1..Len(Header(op)) /\ cursor + 2 - 1 = cursor + 1
        <5>1. 2 \in 1..Len(Header(op))
          <6>1. Len(Header(op)) = 2
            BY <4>1
          <6> HIDE DEF op
          <6> QED BY <6>1
        <5>2. cursor + 2 - 1 = cursor + 1
          BY <1>1
        <5> QED BY <5>1, <5>2
      <4>3. document[cursor + 2 - 1] = Header(op)[2]
        BY <1>1, <4>2, HeaderStands
      <4> QED BY <4>1, <4>2, <4>3, <1>4
    <3>2. Mark(cursor + 1) = "move to" /\ document[cursor + 1].text = op.to
      <4>1. document[cursor + 1] = L("move to", op.to)
        BY <3>1
      <4>2. L("move to", op.to).mark = "move to" /\ L("move to", op.to).text = op.to
        BY DEF L
      <4> HIDE DEF op
      <4> QED BY <4>1, <4>2 DEF Mark
    <3> HIDE DEF next
    <3>3. /\ ops' = Append(ops, Op("move", document[cursor].text, document[cursor + 1].text, <<>>))
          /\ cursor' = cursor + 2 /\ step' = "chunks"
      BY <3>2, <1>7 DEF ParseUpdateFile
    <3> QED BY <2>1, <3>1, <3>2, <3>3, <1>6
  <2>2. CASE op.kind = "update"
    <3>1. next = cursor + 1
      <4>1. Len(Header(op)) = 1
        BY <2>2, <1>2
      <4> QED BY <4>1, <1>4
    <3>2. Mark(cursor + 1) = "@@"
      <4> HIDE DEF next
      <4> QED BY <3>1, <1>5 DEF Mark, L
    <3> HIDE DEF next
    <3>3. /\ ops' = Append(ops, Op("update", document[cursor].text, NoPath, <<>>))
          /\ cursor' = cursor + 1 /\ step' = "chunks"
      BY <3>2, <1>7 DEF ParseUpdateFile
    <3> QED BY <2>2, <3>1, <3>3, <1>3, <1>6
  <2> QED BY <2>1, <2>2
<1>9. /\ parsed \in FileOp /\ parsed.hunks = <<>> /\ SameButHunks(parsed, op)
  <2>1. op.kind \in {"add", "delete", "update", "move"} /\ op.path \in Paths
        /\ op.to \in Paths \cup {NoPath}
    BY <1>1, OpParts
  <2>2. <<>> \in Seq(Lines) /\ <<>> \in Seq(PatchHunk)
    OBVIOUS
  <2>3. SameButHunks(parsed, op)
    BY <1>3 DEF SameButHunks, Op
  <2> QED BY <2>1, <2>2, <2>3 DEF FileOp, Op
<1> HIDE DEF parsed
<1>10. /\ ops' \in Seq(FileOp) /\ Len(ops') = n /\ ops'[n] = parsed
       /\ \A i \in 1..(n - 1) : ops'[i] = ops[i]
  <2>1. ops \in Seq(FileOp) /\ Len(ops) \in Nat /\ n = Len(ops) + 1
    BY DocumentIs
  <2> QED BY <2>1, <1>8, <1>9
<1>11. UNCHANGED <<meant, begins, finish, document>>
  BY <1>7 DEF Parsed, draftVars
<1>12. OpsBefore(ops', meant, n - 1)
  <2>1. n - 1 = Len(ops) /\ \A i \in 1..(n - 1) : ops[i] = meant[i] /\ Len(ops) <= Len(meant)
    BY <1>1, DocumentIs DEF OpsBefore
  <2>2. n - 1 <= Len(meant)
    BY DocumentIs
  <2> QED BY <2>1, <2>2, <1>10 DEF OpsBefore
<1>13. Len(ops'[n].hunks) = 0
  BY <1>9, <1>10
<1>14. OpsBefore(ops'[n].hunks, op.hunks, 0)
  BY <1>3 DEF OpsBefore
<1>15. ChunksKnown(n, 0)'
  <2>1. SameButHunks(ops'[n], meant[n])
    BY <1>9, <1>10
  <2>2. cursor' = Place(begins', finish', n, 0 + 1)
    BY <1>8, <1>11
  <2>3. meant' = meant /\ meant[n].kind \in {"update", "move"}
        /\ OpsBefore(ops'[n].hunks, meant[n].hunks, 0)
    BY <1>11, <1>14
  <2> QED BY <2>1, <2>2, <2>3, <1>1, <1>12 DEF ChunksKnown
<1>16. ParserKnown'
  BY <1>8, <1>10, <1>13, <1>15 DEF ParserKnown, Executing
<1> QED BY <1>5, <1>7, <1>8, <1>10, <1>16, ParseKeeps

LEMMA ParsePatchStep == ASSUME PatchInv, ParsePatch PROVE PatchInv'
<1>1. step = "parse" /\ Parsed
  BY DEF ParsePatch
<1>2. /\ OpsBefore(ops, meant, Len(ops))
      /\ \/ cursor = OpBegin(begins, finish, Len(ops) + 1)
         \/ cursor = 2 /\ ops = <<>>
         \/ cursor = Len(document) /\ Len(ops) = Len(meant)
  BY <1>1 DEF PatchInv, ParserKnown
<1>3. Len(ops) \in Nat /\ Len(meant) \in Nat /\ Len(ops) <= Len(meant)
      /\ Len(ops) + 1 \in 1..(Len(meant) + 1)
  BY <1>1, <1>2, DocumentIs DEF OpsBefore
<1>4. CASE cursor = OpBegin(begins, finish, Len(ops) + 1)
  <2>1. CASE Len(ops) = Len(meant)
    <3>1. Mark(cursor) \in {"eof", "end"}
      <4>1. cursor = finish
        BY <2>1, <1>1, <1>3, <1>4, BeginIs
      <4> QED BY <4>1, <1>1, DocumentIs DEF DocumentOver, Mark
    <3>2. CASE Mark(cursor) = "end"
      BY <3>2, <2>1, <1>1, EndParseStep
    <3>3. CASE Mark(cursor) = "eof"
      <4>1. Refused
        BY <3>3 DEF ParsePatch
      <4> QED BY <4>1, <1>1, RefusedStep
    <3> QED BY <3>1, <3>2, <3>3
  <2>2. CASE Len(ops) < Len(meant)
    <3> DEFINE n == Len(ops) + 1
    <3>1. meant[n].kind \in {"add", "delete", "update", "move"}
      <4>1. Grammatical(meant[n])
        BY <2>2, <1>1, <1>4, NextOp
      <4> QED BY <4>1, OpParts
    <3>2. n = Len(ops) + 1 /\ cursor = OpBegin(begins, finish, n)
      BY <1>4
    <3> HIDE DEF n
    <3>3. CASE meant[n].kind = "add"
      BY <3>2, <3>3, <2>2, <1>1, AddParsed
    <3>4. CASE meant[n].kind = "delete"
      BY <3>2, <3>4, <2>2, <1>1, DeleteParsed
    <3>5. CASE meant[n].kind \in {"update", "move"}
      BY <3>2, <3>5, <2>2, <1>1, UpdateParsed
    <3> QED BY <3>1, <3>3, <3>4, <3>5
  <2> QED BY <2>1, <2>2, <1>3
<1>5. CASE cursor = 2 /\ ops = <<>> /\ cursor # OpBegin(begins, finish, Len(ops) + 1)
  <2>1. OpBegin(begins, finish, 1) = 3 /\ document[2].mark \in {"blank", "other"} /\ Len(ops) + 1 = 1
    <3>1. Len(ops) + 1 = 1
      BY <1>5
    <3>2. Opened(document, OpBegin(begins, finish, 1))
      BY <1>1, DocumentIs
    <3> QED BY <3>1, <3>2, <1>5 DEF Opened
  <2>2. Mark(cursor) \in {"blank", "other"}
    BY <2>1, <1>5 DEF Mark
  <2>3. CASE Mark(cursor) = "blank"
    <3>1. cursor' = cursor + 1 /\ ops' = ops /\ step' = step
      BY <2>3 DEF ParsePatch
    <3>2. cursor' = 3 /\ 3 \in 2..Len(document)
      <4>1. OpBegin(begins, finish, 1) \in 2..Len(document)
        BY <1>1, <1>3, <2>1, BeginIs
      <4> QED BY <4>1, <3>1, <2>1, <1>5
    <3>3. UNCHANGED <<meant, begins, finish, document>>
      BY <1>1 DEF Parsed, draftVars
    <3>4. ParserKnown'
      <4>1. OpsBefore(ops', meant', Len(ops')) /\ cursor' = OpBegin(begins', finish', Len(ops') + 1)
        BY <3>1, <3>2, <3>3, <2>1, <1>2
      <4> QED BY <4>1, <3>1, <1>1 DEF ParserKnown, Executing
    <3> QED BY <3>1, <3>2, <3>4, <1>1, DocumentIs, ParseKeeps
  <2>4. CASE Mark(cursor) = "other"
    <3>1. Refused
      BY <2>4 DEF ParsePatch
    <3> QED BY <3>1, <1>1, RefusedStep
  <2> QED BY <2>2, <2>3, <2>4
<1>6. CASE cursor = Len(document) /\ Len(ops) = Len(meant)
  <2>1. Mark(cursor) = "end"
    BY <1>1, <1>6, DocumentIs DEF DocumentOver, Mark
  <2> QED BY <2>1, <1>1, <1>6, EndParseStep
<1> QED BY <1>2, <1>4, <1>5, <1>6

\* The hunks of an operation are those of the one that is meant: they are the same.
LEMMA SameOp ==
    ASSUME NEW o \in FileOp, NEW m \in FileOp, SameButHunks(o, m),
           OpsBefore(o.hunks, m.hunks, Len(o.hunks)), Len(o.hunks) = Len(m.hunks)
    PROVE  o = m
<1>1. o.hunks \in Seq(PatchHunk) /\ m.hunks \in Seq(PatchHunk)
  BY DEF FileOp
<1>2. o.hunks = m.hunks
  BY <1>1, AllOps
<1>3. /\ o = [kind |-> o.kind, path |-> o.path, to |-> o.to, lines |-> o.lines, hunks |-> o.hunks]
      /\ m = [kind |-> m.kind, path |-> m.path, to |-> m.to, lines |-> m.lines, hunks |-> m.hunks]
  BY DEF FileOp
<1> QED BY <1>2, <1>3 DEF SameButHunks

\* What the parser has of the operation whose hunks it parses.
LEMMA ChunksAre ==
    ASSUME PatchInv, step = "chunks", NEW n, n = Len(ops), NEW k, k = Len(ops[n].hunks)
    PROVE  /\ n \in 1..Len(meant) /\ n \in Nat /\ k \in Nat /\ ChunksKnown(n, k)
           /\ ops[n] \in FileOp /\ ops[n].hunks \in Seq(PatchHunk)
           /\ Grammatical(meant[n]) /\ meant[n] \in FileOp /\ meant[n].hunks \in Seq(PatchHunk)
           /\ Len(meant[n].hunks) \in Nat /\ Len(meant[n].hunks) >= 1 /\ k <= Len(meant[n].hunks)
<1>1. ChunksKnown(n, k) /\ n \in 1..Len(meant)
  BY DEF PatchInv, ParserKnown, ChunksKnown
<1>2. /\ ops \in Seq(FileOp) /\ Len(ops) \in Nat /\ Grammatical(meant[n]) /\ meant[n] \in FileOp
  BY <1>1, DocumentIs
<1>3. ops[n] \in FileOp /\ n \in Nat
  BY <1>1, <1>2
<1>4. ops[n].hunks \in Seq(PatchHunk)
  BY <1>3 DEF FileOp
<1>5. meant[n].hunks \in Seq(PatchHunk) /\ Len(meant[n].hunks) \in Nat /\ Len(meant[n].hunks) >= 1
  BY <1>1, <1>2, OpParts DEF ChunksKnown
<1>6. k \in Nat /\ k <= Len(meant[n].hunks)
  BY <1>1, <1>4 DEF ChunksKnown, OpsBefore
<1> QED BY <1>1, <1>2, <1>3, <1>4, <1>5, <1>6

\* All hunks of an operation are parsed: the parser goes on to the next one.
LEMMA ChunksOver ==
    ASSUME PatchInv, step = "chunks", Parsed, step' = "parse", UNCHANGED parseVars,
           NEW n, n = Len(ops), Len(ops[n].hunks) = Len(meant[n].hunks)
    PROVE  PatchInv'
<1> DEFINE k == Len(ops[n].hunks)
<1>1. /\ n \in 1..Len(meant) /\ n \in Nat /\ ChunksKnown(n, k) /\ ops[n] \in FileOp
         /\ meant[n] \in FileOp
  BY ChunksAre
<1>2. ops' = ops /\ cursor' = cursor
  BY DEF parseVars
<1>3. UNCHANGED <<meant, begins, finish, document>>
  BY DEF Parsed, draftVars
<1>4. ops[n] = meant[n]
  BY <1>1, SameOp DEF ChunksKnown
<1>5. OpsBefore(ops, meant, n)
  <2>1. n <= Len(meant) /\ \A i \in 1..(n - 1) : ops[i] = meant[i]
    BY <1>1 DEF ChunksKnown, OpsBefore
  <2>2. \A i \in 1..n : i \in 1..(n - 1) \/ i = n
    BY <1>1
  <2> QED BY <2>1, <2>2, <1>4 DEF OpsBefore
<1>6. cursor = OpBegin(begins, finish, n + 1) \/ (cursor = Len(document) /\ n = Len(meant))
  <2>1. Place(begins, finish, n, Len(meant[n].hunks) + 1) = OpBegin(begins, finish, n + 1)
    BY <1>1, PlaceLast
  <2>2. \/ cursor = Place(begins, finish, n, k + 1)
        \/ n = Len(meant) /\ cursor = Len(document)
    BY <1>1 DEF ChunksKnown
  <2> QED BY <2>1, <2>2
<1>7. ParserKnown'
  BY <1>2, <1>3, <1>5, <1>6 DEF ParserKnown, Executing
<1> QED BY <1>2, <1>7, DocumentIs, ParseKeeps

\* A hunk of the document begins with its mark.
LEMMA PlaceMark ==
    ASSUME PatchInv, step # "draft", NEW n \in 1..Len(meant),
           NEW j \in 1..Len(meant[n].hunks), NEW c, c = Place(begins, finish, n, j)
    PROVE  c \in 2..Len(document) /\ document[c].mark = "@@"
<1>1. c \in 2..Len(document) /\ document[c] = L("@@", meant[n].hunks[j].context)
  BY PlaceIs, ZenonT(60)
<1> QED BY <1>1 DEF L

\* The next hunk is parsed.
LEMMA ChunkParsed ==
    ASSUME PatchInv, step = "chunks", ParseChunks, NEW n, n = Len(ops), NEW k,
           k = Len(ops[n].hunks),
           cursor = Place(begins, finish, n, k + 1), k < Len(meant[n].hunks)
    PROVE  PatchInv'
<1> DEFINE hunk == meant[n].hunks[k + 1]
           lines == hunk.lines
           next == Place(begins, finish, n, k + 2)
           body == {" ", "+", "-", "blank"}
<1>1. /\ n \in 1..Len(meant) /\ n \in Nat /\ k \in Nat /\ ChunksKnown(n, k)
      /\ ops[n] \in FileOp /\ ops[n].hunks \in Seq(PatchHunk)
      /\ Grammatical(meant[n]) /\ meant[n].hunks \in Seq(PatchHunk)
      /\ Len(meant[n].hunks) \in Nat
  BY ChunksAre
<1>2. k + 1 \in 1..Len(meant[n].hunks) /\ k + 2 = (k + 1) + 1
  BY <1>1
<1>3. /\ hunk \in PatchHunk /\ lines \in Seq(HunkLines) /\ Len(lines) \in Nat /\ Len(lines) >= 1
      /\ \A i \in 1..Len(lines) : lines[i] \in HunkLines
  BY <1>1, <1>2, HunkParts
<1>4. /\ cursor \in Nat /\ document[cursor] = L("@@", hunk.context)
         /\ next = cursor + Len(lines) + 1
      /\ \A i \in 1..Len(lines) : document[cursor + i] = lines[i]
  <2> DEFINE j == k + 1
  <2>1. j \in 1..Len(meant[n].hunks) /\ cursor = Place(begins, finish, n, j) /\ step # "draft"
    BY <1>2
  <2> HIDE DEF j
  <2>2. /\ cursor \in 2..Len(document) /\ document[cursor] = L("@@", meant[n].hunks[j].context)
        /\ \A i \in 1..Len(meant[n].hunks[j].lines) : document[cursor + i] = meant[n].hunks[j].lines[i]
        /\ Place(begins, finish, n, j + 1) = cursor + Len(meant[n].hunks[j].lines) + 1
    BY <1>1, <2>1, PlaceIs
  <2>3. cursor \in Nat
    BY <2>2
  <2> QED BY <2>2, <2>3, <1>2 DEF j
<1>5. /\ next \in 2..Len(document) /\ document[next].mark \notin body
      /\ (document[next].mark = "eof" => next = finish /\ n = Len(meant) /\ k + 1 = Len(meant[n].hunks))
  <2>1. CASE k + 1 < Len(meant[n].hunks)
    <3> DEFINE j == k + 2
    <3>1. j \in 1..Len(meant[n].hunks) /\ next = Place(begins, finish, n, j) /\ step # "draft"
      BY <2>1, <1>1
    <3>2. n \in 1..Len(meant)
      BY <1>1
    <3> HIDE DEF j, next
    <3>3. next \in 2..Len(document) /\ document[next].mark = "@@"
      BY <3>1, <3>2, PlaceMark
    <3>4. document[next].mark \notin body /\ document[next].mark # "eof"
      BY <3>3
    <3> HIDE DEF body
    <3> QED BY <3>3, <3>4
  <2>2. CASE k + 1 = Len(meant[n].hunks)
    <3>1. next = OpBegin(begins, finish, n + 1)
      <4>1. Place(begins, finish, n, Len(meant[n].hunks) + 1) = OpBegin(begins, finish, n + 1)
        BY <1>1, PlaceLast
      <4> QED BY <4>1, <2>2, <1>2
    <3>2. n + 1 \in 1..(Len(meant) + 1) /\ Len(meant) \in Nat
      BY <1>1, DocumentIs
    <3> HIDE DEF next
    <3>3. /\ next \in 2..Len(document)
             /\ document[next].mark \in {"update", "add", "delete", "eof", "end"}
          /\ (n + 1 = Len(meant) + 1 => next = finish)
          /\ (n + 1 <= Len(meant) => document[next].mark \notin {"eof", "end"})
      BY <3>1, <3>2, BeginIs
    <3>4. document[next].mark \notin body
      BY <3>3
    <3>5. document[next].mark = "eof" => next = finish /\ n = Len(meant)
      BY <3>2, <3>3, <1>1
    <3> QED BY <3>3, <3>4, <3>5, <2>2
  <2>3. k + 1 < Len(meant[n].hunks) \/ k + 1 = Len(meant[n].hunks)
    BY <1>1
  <2> HIDE DEF next, body
  <2> QED BY <2>1, <2>2, <2>3
<1>6. \A i \in 1..Len(lines) : document[cursor + i].mark \in {" ", "+", "-"}
  <2> SUFFICES ASSUME NEW i \in 1..Len(lines) PROVE document[cursor + i].mark \in {" ", "+", "-"}
    OBVIOUS
  <2>1. lines[i] \in HunkLines /\ document[cursor + i] = lines[i]
    BY <1>3, <1>4
  <2> HIDE DEF lines
  <2> QED BY <2>1 DEF HunkLines
<1>7. Past(cursor + 1, body) = next
  <2> HIDE DEF lines, next, hunk
  <2>1. cursor + 1 \in Nat /\ next \in (cursor + 1)..Len(document) /\ Len(document) \in Nat
    <3>1. Len(document) \in Nat
      BY DocumentIs
    <3>2. next \in 2..Len(document)
      BY <1>5
    <3>3. cursor + 1 \in Nat /\ next >= cursor + 1
      BY <1>3, <1>4
    <3> QED BY <3>1, <3>2, <3>3
  <2>2. ASSUME NEW j \in (cursor + 1)..(next - 1) PROVE Mark(j) \in body
    <3>1. j - cursor \in 1..Len(lines) /\ cursor + (j - cursor) = j
      BY <1>3, <1>4, SMTT(60)
    <3>2. document[cursor + (j - cursor)].mark \in {" ", "+", "-"}
      BY <3>1, <1>6
    <3> QED BY <3>1, <3>2 DEF Mark
  <2>3. Mark(next) \notin body
    BY <1>5 DEF Mark
  <2> HIDE DEF body
  <2> QED BY <2>1, <2>2, <2>3, PastIs
<1>8. Mark(cursor) = "@@" /\ document[cursor].text = hunk.context
  <2>1. document[cursor] = L("@@", hunk.context)
    BY <1>4
  <2> HIDE DEF hunk
  <2> QED BY <2>1 DEF Mark, L
<1>9. ParseUpdateChunk(cursor) /\ Parsed
  BY <1>8 DEF ParseChunks, Starred
<1> DEFINE found == ChunkLines(cursor + 1, next)
<1>10. found = lines
  <2>1. next - (cursor + 1) = Len(lines)
    <3> HIDE DEF next, lines
    <3> QED BY <1>3, <1>4
  <2>2. ASSUME NEW i \in 1..Len(lines)
        PROVE  Mark(cursor + 1 + i - 1) # "blank" /\ document[cursor + 1 + i - 1] = lines[i]
    <3>1. cursor + 1 + i - 1 = cursor + i
      <4>1. \A x, y \in Nat : x + 1 + y - 1 = x + y
        OBVIOUS
      <4>2. cursor \in Nat /\ Len(lines) \in Nat
        BY <1>3, <1>4
      <4> HIDE DEF lines
      <4>3. i \in Nat
        BY <4>2
      <4> QED BY <4>1, <4>2, <4>3, Zenon
    <3>2. document[cursor + i].mark \in {" ", "+", "-"} /\ document[cursor + i] = lines[i]
      BY <1>4, <1>6
    <3> HIDE DEF lines
    <3> QED BY <3>1, <3>2 DEF Mark
  <2>3. lines = [i \in 1..Len(lines) |-> lines[i]]
    <3> HIDE DEF lines
    <3> QED BY <1>3
  <2> HIDE DEF lines, next
  <2>4. found = [i \in 1..Len(lines) |-> lines[i]]
    BY <2>1, <2>2 DEF ChunkLines
  <2> QED BY <2>3, <2>4
<1>11. lines # <<>>
  <2> HIDE DEF lines
  <2> QED BY <1>3
<1>12. /\ ops' = [ops EXCEPT ![n].hunks = Append(@, [context |-> hunk.context, lines |-> lines])]
       /\ cursor' = (IF Mark(next) = "eof" THEN next + 1 ELSE next) /\ step' = step
  <2> HIDE DEF hunk, next, lines
  <2>1. document[cursor].text = hunk.context /\ Mark(cursor) = "@@" /\ cursor + 1 > cursor
        /\ cursor + 1 # cursor
    BY <1>4, <1>8
  <2>2. found # <<>>
    BY <1>10, <1>11
  <2>3. /\ ops' = [ops EXCEPT ![Len(ops)].hunks = Append(@, [context |-> document[cursor].text, lines |-> found])]
        /\ cursor' = (IF Mark(next) = "eof" THEN next + 1 ELSE next) /\ step' = step
    BY <2>1, <2>2, <1>7, <1>9 DEF ParseUpdateChunk
  <2> QED BY <2>1, <2>3, <1>10
<1>13. [context |-> hunk.context, lines |-> lines] = hunk
  <2> HIDE DEF hunk
  <2> QED BY <1>3 DEF PatchHunk
<1>14. ops' = [ops EXCEPT ![n].hunks = Append(@, hunk)]
  <2> HIDE DEF hunk
  <2> QED BY <1>12, <1>13
<1>15. /\ OpsBefore(ops[n].hunks, meant[n].hunks, k) /\ SameButHunks(ops[n], meant[n])
       /\ OpsBefore(ops, meant, n - 1) /\ meant[n].kind \in {"update", "move"}
  BY <1>1 DEF ChunksKnown
<1> DEFINE hs == Append(ops[n].hunks, hunk)
<1>16. hs \in Seq(PatchHunk) /\ Len(hs) = k + 1 /\ OpsBefore(hs, meant[n].hunks, k + 1)
  <2>1. hunk = meant[n].hunks[Len(ops[n].hunks) + 1]
    OBVIOUS
  <2> HIDE DEF hunk
  <2> QED BY <2>1, <1>1, <1>3, <1>15, OneMore, SMTT(60)
<1> HIDE DEF hs
<1>17. /\ ops' \in Seq(FileOp) /\ Len(ops') = n /\ ops'[n] = [ops[n] EXCEPT !.hunks = hs]
       /\ \A i \in 1..(n - 1) : ops'[i] = ops[i]
  <2>1. ops' = [ops EXCEPT ![n] = [ops[n] EXCEPT !.hunks = hs]]
    BY <1>14 DEF hs
  <2>2. [ops[n] EXCEPT !.hunks = hs] \in FileOp
    BY <1>1, <1>16 DEF FileOp
  <2>3. ops \in Seq(FileOp) /\ Len(ops) = n
    BY DocumentIs
  <2> QED BY <2>1, <2>2, <2>3, <1>1
<1>18. ops'[n].hunks = hs /\ SameButHunks(ops'[n], meant[n])
  BY <1>1, <1>15, <1>17 DEF SameButHunks, FileOp
<1>19. UNCHANGED <<meant, begins, finish, document>>
  BY <1>9 DEF Parsed, draftVars
<1>20. OpsBefore(ops', meant, n - 1)
  BY <1>15, <1>17 DEF OpsBefore
<1>21. /\ cursor' \in 2..Len(document)
       /\ \/ cursor' = next
          \/ n = Len(meant) /\ k + 1 = Len(meant[n].hunks) /\ cursor' = Len(document)
  <2> HIDE DEF next
  <2>1. CASE document[next].mark = "eof"
    <3>1. next = finish /\ n = Len(meant) /\ k + 1 = Len(meant[n].hunks) /\ cursor' = finish + 1
      BY <2>1, <1>5, <1>12 DEF Mark
    <3>2. Len(document) = finish + 1 /\ finish \in Nat /\ finish \in 2..Len(document)
      BY <2>1, <3>1, DocumentIs DEF DocumentOver
    <3>3. cursor' \in 2..Len(document)
      BY <3>1, <3>2
    <3> QED BY <3>1, <3>2, <3>3
  <2>2. CASE document[next].mark # "eof"
    <3>1. cursor' = next
      BY <2>2, <1>12 DEF Mark
    <3> QED BY <3>1, <1>5
  <2> QED BY <2>1, <2>2
<1>22. ChunksKnown(n, k + 1)'
  <2>1. \/ cursor' = Place(begins', finish', n, (k + 1) + 1)
        \/ n = Len(meant) /\ k + 1 = Len(meant[n].hunks) /\ cursor' = Len(document')
    <3>1. Place(begins', finish', n, (k + 1) + 1) = next
      BY <1>2, <1>19
    <3> QED BY <3>1, <1>19, <1>21
  <2>2. OpsBefore(ops'[n].hunks, meant[n].hunks, k + 1) /\ meant' = meant
    BY <1>16, <1>18, <1>19
  <2> QED BY <2>1, <2>2, <1>1, <1>15, <1>18, <1>20 DEF ChunksKnown
<1>23. ParserKnown'
  <2>1. step' = "chunks" /\ Len(ops') = n /\ Len(ops'[n].hunks) = k + 1
    BY <1>12, <1>16, <1>17, <1>18
  <2> QED BY <2>1, <1>22 DEF ParserKnown, Executing
<1> QED BY <1>9, <1>12, <1>17, <1>21, <1>23, ParseKeeps

LEMMA ParseChunksStep == ASSUME PatchInv, ParseChunks PROVE PatchInv'
<1> DEFINE n == Len(ops)
           k == Len(ops[n].hunks)
<1>1. step = "chunks" /\ Parsed
  BY DEF ParseChunks
<1>2. /\ n \in 1..Len(meant) /\ ChunksKnown(n, k) /\ k \in Nat /\ ops[n].hunks \in Seq(PatchHunk)
      /\ Len(meant[n].hunks) \in Nat /\ Len(meant[n].hunks) >= 1 /\ k <= Len(meant[n].hunks)
  BY <1>1, ChunksAre
<1>3. CASE k < Len(meant[n].hunks)
  <2>1. cursor = Place(begins, finish, n, k + 1)
    BY <1>2, <1>3 DEF ChunksKnown
  <2>2. n = Len(ops) /\ k = Len(ops[n].hunks)
    OBVIOUS
  <2> HIDE DEF n, k
  <2> QED BY <2>1, <2>2, <1>1, <1>3, ChunkParsed
<1>4. CASE k = Len(meant[n].hunks)
  <2>1. Mark(cursor) \in Starred
    <3>1. CASE cursor = Place(begins, finish, n, k + 1)
      <4>1. cursor = OpBegin(begins, finish, n + 1)
        <5>1. Place(begins, finish, n, Len(meant[n].hunks) + 1) = OpBegin(begins, finish, n + 1)
          BY <1>1, <1>2, PlaceLast
        <5> QED BY <5>1, <3>1, <1>4
      <4>2. n + 1 \in 1..(Len(meant) + 1)
        BY <1>1, <1>2, DocumentIs
      <4>3. document[cursor].mark \in {"update", "add", "delete", "eof", "end"}
        BY <4>1, <4>2, <1>1, BeginIs
      <4> QED BY <4>3 DEF Mark, Starred
    <3>2. CASE cursor = Len(document)
      BY <3>2, <1>1, DocumentIs DEF DocumentOver, Mark, Starred
    <3> QED BY <3>1, <3>2, <1>2 DEF ChunksKnown
  <2>2. ops[n].hunks # <<>>
    BY <1>2, <1>4
  <2>3. step' = "parse" /\ UNCHANGED parseVars
    BY <2>1, <2>2, <1>1 DEF ParseChunks, Starred
  <2>4. n = Len(ops)
    OBVIOUS
  <2> QED BY <2>3, <2>4, <1>1, <1>4, ChunksOver
<1> QED BY <1>2, <1>3, <1>4

-----------------------------------------------------------------------------
(* PatchHunks: the operations are carried out *)

\* The operation that is carried out.
LEMMA RunIs ==
    ASSUME PatchInv, step \in Executing
    PROVE  /\ ops = meant /\ ops \in Seq(FileOp) /\ Len(ops) \in Nat /\ opAt \in 1..Len(ops)
           /\ Grammatical(Current) /\ Current \in FileOp /\ Current.path \in Paths
           /\ Current.kind \in {"add", "delete", "update", "move"}
           /\ (Current.kind = "move" => Current.to \in Paths)
           /\ Current.lines \in Seq(Lines) /\ Current.hunks \in Seq(PatchHunk)
           /\ (Current.kind = "update" => Len(Current.hunks) >= 1)
           /\ tree \in [Paths -> Files]
<1>1. ops = meant /\ PatchTyped /\ PatchStepKnown
  BY DEF PatchInv, ParserKnown
<1>2. meant \in Seq(FileOp) /\ Len(meant) \in Nat
      /\ \A n \in 1..Len(meant) : meant[n] \in FileOp /\ Grammatical(meant[n])
  BY <1>1, MeantIs
<1>3. opAt \in 1..(Len(ops) + 1) /\ opAt <= Len(ops) /\ tree \in [Paths -> Files]
  BY <1>1 DEF PatchStepKnown, PatchTyped
<1>4. opAt \in 1..Len(ops)
  BY <1>1, <1>2, <1>3
<1>5. Current \in FileOp /\ Grammatical(Current)
  BY <1>1, <1>2, <1>4 DEF Current
<1> DEFINE op == Current
<1>6. /\ op.path \in Paths /\ op.kind \in {"add", "delete", "update", "move"}
      /\ op.to \in Paths \cup {NoPath} /\ (op.kind = "move" <=> op.to # NoPath)
      /\ op.lines \in Seq(Lines) /\ op.hunks \in Seq(PatchHunk)
      /\ (op.kind \in {"update", "move"} => Len(op.hunks) >= 1)
  BY <1>5, OpParts
<1> HIDE DEF op
<1>7. op.kind = "move" => op.to \in Paths
  BY <1>6
<1>8. op.kind = "update" => Len(op.hunks) >= 1
  BY <1>6
<1> QED BY <1>1, <1>2, <1>3, <1>4, <1>5, <1>6, <1>7, <1>8 DEF op

\* A step that leaves the document and what is parsed alone.
LEMMA RunKeeps ==
    ASSUME PatchInv, step \in Executing, Carried, step' \in Executing \cup {"answered"},
           opAt' \in 1..(Len(ops) + 1), hunkAt' \in Nat \ {0}, source' \in Seq(Lines),
           patch' \in [pos : Nat, out : Seq(Lines)], reports' \in Seq({"ok", "error"}),
           tree' \in [Paths -> Files], PatchStepKnown', FilesKept', PatchKnown'
    PROVE  PatchInv'
<1>1. PatchTyped /\ DocumentKnown /\ ParserKnown
  BY DEF PatchInv
<1>2. UNCHANGED <<meant, document, begins, finish, cursor, ops, started>>
  BY DEF Carried, draftVars, parseVars
<1>3. step # "draft" /\ step' # "draft" /\ step' \in Steps
  BY DEF Executing, Steps
<1>4. PatchTyped'
  BY <1>1, <1>2, <1>3 DEF PatchTyped
<1>5. DocumentKnown'
  BY <1>1, <1>2, <1>3 DEF DocumentKnown, HunksWritten
<1>6. ParserKnown'
  BY <1>1, <1>2 DEF ParserKnown, Executing
<1> QED BY <1>4, <1>5, <1>6 DEF PatchInv

\* After a report the next operation is carried out, or the call is answered.
LEMMA ReportKeeps ==
    ASSUME PatchInv, step \in Executing, Carried, NEW r \in {"ok", "error"}, Report(r),
           UNCHANGED <<hunkAt, source, patch>>, tree' \in [Paths -> Files], FilesKept'
    PROVE  PatchInv'
<1>1. PatchTyped /\ Len(ops) \in Nat /\ opAt \in 1..Len(ops)
  BY RunIs DEF PatchInv
<1>2. /\ reports' = Append(reports, r) /\ opAt' = opAt + 1
      /\ step' = IF opAt = Len(ops) THEN "answered" ELSE "apply"
  BY DEF Report
<1>3. reports' \in Seq({"ok", "error"}) /\ hunkAt' \in Nat \ {0} /\ source' \in Seq(Lines)
      /\ patch' \in [pos : Nat, out : Seq(Lines)]
  BY <1>1, <1>2 DEF PatchTyped
<1>4. opAt' \in 1..(Len(ops) + 1) /\ (step' = "apply" => opAt' <= Len(ops))
  BY <1>1, <1>2
<1>5. step' \in {"apply", "answered"}
  BY <1>2
<1>6. ops' = ops
  BY DEF Carried, parseVars
<1>7. PatchStepKnown'
  BY <1>4, <1>5, <1>6 DEF PatchStepKnown, Executing
<1>8. PatchKnown' /\ step' \in Executing \cup {"answered"}
  BY <1>5 DEF PatchKnown, Executing
<1> QED BY <1>3, <1>4, <1>7, <1>8, RunKeeps

\* A file that is written is there.
LEMMA WrittenIsKept ==
    ASSUME PatchInv, step \in Executing, Carried, NEW p \in Paths, NEW f \in Files,
           tree' = [tree EXCEPT ![p] = f], f.there \/ Gone(Current)
    PROVE  tree' \in [Paths -> Files] /\ FilesKept'
<1>1. tree \in [Paths -> Files] /\ opAt \in 1..Len(ops) /\ ops' = ops
  BY RunIs DEF Carried, parseVars
<1>2. tree' \in [Paths -> Files] /\ tree'[p] = f
  BY <1>1
<1>3. CASE f.there
  <2>1. SomeFile(tree')
    BY <1>2, <1>3 DEF SomeFile
  <2> QED BY <1>2, <2>1 DEF FilesKept
<1>4. CASE Gone(Current)
  <2>1. \E i \in 1..Len(ops') : Gone(ops'[i])
    BY <1>1, <1>4 DEF Current
  <2> QED BY <1>2, <2>1 DEF FilesKept
<1> QED BY <1>3, <1>4

\* A tree that stays keeps its files.
LEMMA TreeStays ==
    ASSUME PatchInv, step \in Executing, Carried, tree' = tree
    PROVE  tree' \in [Paths -> Files] /\ FilesKept'
<1>1. tree \in [Paths -> Files] /\ ops' = ops /\ started' = started /\ FilesKept
  BY RunIs DEF Carried, parseVars, PatchInv
<1> QED BY <1>1 DEF FilesKept

LEMMA AFile ==
    /\ Missing \in Files
    /\ \A lines \in Seq(Lines) : File(lines) \in Files /\ File(lines).there
<1>1. <<>> \in Seq(Lines)
  OBVIOUS
<1> QED BY <1>1 DEF Files, Missing, File

LEMMA WriteFileKeeps ==
    ASSUME PatchInv, step \in Executing, Carried, UNCHANGED <<hunkAt, source, patch>>,
           NEW p \in Paths, NEW lines \in Seq(Lines), WriteFile(p, lines)
    PROVE  PatchInv'
<1>1. CASE Report("error") /\ UNCHANGED tree
  BY <1>1, TreeStays, ReportKeeps
<1>2. CASE /\ tree' = [tree EXCEPT ![p] = File(lines)]
           /\ Report("ok") \/ Report("error")
  <2>1. tree' \in [Paths -> Files] /\ FilesKept'
    BY <1>2, WrittenIsKept, AFile
  <2> QED BY <2>1, <1>2, ReportKeeps
<1> QED BY <1>1, <1>2 DEF WriteFile, Remote

LEMMA AddOrDeleteStep == ASSUME PatchInv, AddOrDelete PROVE PatchInv'
<1>1. step \in Executing /\ UNCHANGED <<hunkAt, source, patch>> /\ Carried
  BY DEF AddOrDelete, Executing
<1>2. Current.path \in Paths /\ Current.lines \in Seq(Lines)
  BY <1>1, RunIs
<1>3. CASE WriteFile(Current.path, Current.lines)
  BY <1>1, <1>2, <1>3, WriteFileKeeps
<1>4. CASE Report("error") /\ UNCHANGED tree
  BY <1>1, <1>4, TreeStays, ReportKeeps
<1>5. CASE /\ tree' = [tree EXCEPT ![Current.path] = Missing] /\ Current.kind = "delete"
           /\ Report("ok") \/ Report("error")
  <2>1. Gone(Current)
    BY <1>5 DEF Gone
  <2>2. tree' \in [Paths -> Files] /\ FilesKept'
    BY <2>1, <1>1, <1>2, <1>5, WrittenIsKept, AFile
  <2> QED BY <2>2, <1>1, <1>5, ReportKeeps
<1> QED BY <1>3, <1>4, <1>5 DEF AddOrDelete, Remote

LEMMA WritePatchedStep ==
    ASSUME PatchInv, WritePatched, Patched \in Seq(Lines) PROVE PatchInv'
<1>1. step \in Executing /\ UNCHANGED <<hunkAt, source, patch>> /\ Carried
  BY DEF WritePatched, Executing
<1>2. Current.path \in Paths
  BY <1>1, RunIs
<1>3. WriteFile(Current.path, Patched)
  BY DEF WritePatched
<1> QED BY <1>1, <1>2, <1>3, WriteFileKeeps

\* The file that is moved is at its new path before it leaves the old one.
LEMMA CopyOverStep == ASSUME PatchInv, CopyOver PROVE PatchInv'
<1>1. step \in Executing /\ UNCHANGED <<hunkAt, source, patch>> /\ Carried /\ Current.kind = "move"
  BY DEF CopyOver, Executing
<1>2. /\ Current.path \in Paths /\ Current.to \in Paths /\ tree \in [Paths -> Files]
      /\ opAt \in 1..Len(ops) /\ Len(ops) \in Nat
  BY <1>1, RunIs
<1>3. CASE Report("error") /\ UNCHANGED tree
  BY <1>1, <1>3, TreeStays, ReportKeeps
<1>4. CASE /\ tree[Current.path].there /\ tree' = [tree EXCEPT ![Current.to] = tree[Current.path]]
           /\ GoesTo("remove") \/ Report("error")
  <2>1. tree[Current.path] \in Files
    BY <1>2
  <2>2. tree' \in [Paths -> Files] /\ FilesKept'
    BY <2>1, <1>1, <1>2, <1>4, WrittenIsKept
  <2>3. CASE Report("error")
    BY <2>2, <2>3, <1>1, ReportKeeps
  <2>4. CASE GoesTo("remove")
    <3>1. step' = "remove" /\ opAt' = opAt /\ reports' = reports /\ ops' = ops
      BY <2>4, <1>1 DEF GoesTo, Carried, parseVars
    <3>2. Current' = Current /\ tree'[Current.to].there
      BY <3>1, <1>2, <1>4 DEF Current
    <3>3. PatchStepKnown'
      BY <3>1, <3>2, <1>1, <1>2 DEF PatchStepKnown, Executing
    <3>4. PatchTyped /\ PatchKnown' /\ step' \in Executing \cup {"answered"}
      BY <3>1 DEF PatchInv, PatchKnown, Executing
    <3>5. /\ opAt' \in 1..(Len(ops) + 1) /\ hunkAt' \in Nat \ {0} /\ source' \in Seq(Lines)
          /\ patch' \in [pos : Nat, out : Seq(Lines)] /\ reports' \in Seq({"ok", "error"})
      BY <3>1, <3>4, <1>1 DEF PatchTyped
    <3> QED BY <3>3, <3>4, <3>5, <2>2, <1>1, RunKeeps
  <2> QED BY <2>3, <2>4, <1>4
<1> QED BY <1>3, <1>4 DEF CopyOver, Remote

LEMMA RemoveOldStep == ASSUME PatchInv, RemoveOld PROVE PatchInv'
<1>1. step \in Executing /\ UNCHANGED <<hunkAt, source, patch>> /\ Carried
      /\ step = "remove" /\ Current.kind = "move" /\ tree[Current.to].there
  BY DEF RemoveOld, Executing, PatchInv, PatchStepKnown
<1>2. /\ Current.path \in Paths /\ Current.to \in Paths /\ tree \in [Paths -> Files]
  BY <1>1, RunIs
<1>3. CASE Report("error") /\ UNCHANGED tree
  BY <1>1, <1>3, TreeStays, ReportKeeps
<1>4. CASE /\ tree' = [tree EXCEPT ![Current.path] = Missing]
           /\ Report("ok") \/ Report("error")
  <2>1. CASE Current.to = Current.path
    <3>1. Gone(Current)
      BY <2>1 DEF Gone
    <3>2. tree' \in [Paths -> Files] /\ FilesKept'
      BY <3>1, <1>1, <1>2, <1>4, WrittenIsKept, AFile
    <3> QED BY <3>2, <1>1, <1>4, ReportKeeps
  <2>2. CASE Current.to # Current.path
    <3>1. tree' \in [Paths -> Files] /\ tree'[Current.to] = tree[Current.to]
      BY <2>2, <1>2, <1>4, AFile
    <3>2. SomeFile(tree')
      BY <3>1, <1>1, <1>2 DEF SomeFile
    <3>3. FilesKept'
      BY <3>2 DEF FilesKept
    <3> QED BY <3>1, <3>3, <1>1, <1>4, ReportKeeps
  <2> QED BY <2>1, <2>2
<1> QED BY <1>3, <1>4 DEF RemoveOld, Remote

\* Before the first hunk nothing is replaced.
LEMMA NothingInPlace ==
    ASSUME NEW s \in Seq(Lines), NEW hunks, NEW p, p = [pos |-> 0, out |-> <<>>]
    PROVE  HunksInPlace(s, hunks, 0, p)
<1> DEFINE at == [i \in 1..0 |-> 0]
<1>1. Len(s) \in Nat /\ p.pos = 0 /\ p.out = <<>> /\ Len(p.out) = 0
  OBVIOUS
<1>2. at \in [1..0 -> 0..Len(s)] /\ at \in [1..0 -> 0..Len(p.out)]
  BY <1>1
<1> HIDE DEF at
<1>3. InPlace(s, hunks, 0, p.out, at, at)
  BY DEF InPlace
<1>4. AfterOld(hunks, at, 0) = 0 /\ AfterNew(hunks, at, 0) = 0
  BY DEF AfterOld, AfterNew
<1>5. /\ p.pos = AfterOld(hunks, at, 0) /\ p.pos <= Len(s) /\ Len(p.out) = AfterNew(hunks, at, 0)
  BY <1>1, <1>4
<1> QED BY <1>2, <1>3, <1>5, Zenon DEF HunksInPlace

LEMMA ReadFileStep == ASSUME PatchInv, ReadFile PROVE PatchInv'
<1>1. step \in Executing /\ Carried /\ Current.kind = "update" /\ tree' = tree
  BY DEF ReadFile, Executing
<1>2. /\ Current.path \in Paths /\ tree \in [Paths -> Files] /\ opAt \in 1..Len(ops)
      /\ Len(ops) \in Nat /\ Len(Current.hunks) >= 1
  BY <1>1, RunIs
<1>3. tree' \in [Paths -> Files] /\ FilesKept'
  BY <1>1, TreeStays
<1>4. CASE Report("error") /\ UNCHANGED <<hunkAt, source, patch>>
  BY <1>1, <1>3, <1>4, ReportKeeps
<1>5. CASE /\ GoesTo("hunks") /\ source' = tree[Current.path].lines
           /\ patch' = [pos |-> 0, out |-> <<>>] /\ hunkAt' = 1
  <2>1. step' = "hunks" /\ opAt' = opAt /\ reports' = reports /\ ops' = ops
    BY <1>1, <1>5 DEF GoesTo, Carried, parseVars
  <2>2. Current' = Current
    BY <2>1 DEF Current
  <2>3. tree[Current.path] \in Files
    BY <1>2
  <2>4. source' \in Seq(Lines)
    BY <2>3, <1>5 DEF Files
  <2>5. patch' \in [pos : Nat, out : Seq(Lines)] /\ hunkAt' \in Nat \ {0}
    BY <1>5
  <2>6. PatchTyped
    BY DEF PatchInv
  <2>7. opAt' \in 1..(Len(ops) + 1) /\ reports' \in Seq({"ok", "error"})
    BY <2>1, <2>6 DEF PatchTyped
  <2>8. PatchStepKnown'
    BY <2>1, <2>2, <1>1, <1>2, <1>5 DEF PatchStepKnown, Executing
  <2>9. HunksInPlace(source', Current.hunks, 0, patch')
    BY <2>4, <1>5, NothingInPlace
  <2>10. PatchKnown'
    <3>1. hunkAt' - 1 = 0
      BY <1>5
    <3> QED BY <3>1, <2>2, <2>9 DEF PatchKnown
  <2>11. step' \in Executing \cup {"answered"}
    BY <2>1 DEF Executing
  <2> QED BY <2>4, <2>5, <2>7, <2>8, <2>10, <2>11, <1>1, <1>3, RunKeeps
<1> QED BY <1>4, <1>5 DEF ReadFile

-----------------------------------------------------------------------------
(* PatchHunks: the hunks are applied *)

LEMMA LeastIs ==
    ASSUME NEW S, S # {}, S \subseteq Nat
    PROVE  Least(S) \in S
<1>1. \E a \in S : \A b \in S : a <= b
  BY LeastExists
<1> QED BY <1>1, Zenon DEF Least

\* The place of a hunk is behind where the hunks before it have come, its old lines
\* are there, and its context is on the way.
LEMMA PlaceOf ==
    ASSUME NEW s \in Seq(Lines), NEW pos \in Nat, pos <= Len(s), NEW hunk \in PatchHunk,
           HunkPlaces(s, pos, hunk) # {}, NEW a, a = Least(HunkPlaces(s, pos, hunk))
    PROVE  /\ a \in pos..Len(s) /\ MatchesAt(s, a, OldLines(hunk))
           /\ hunk.context # Empty => \E k \in (pos + 1)..a : s[k] = hunk.context
<1> DEFINE old == OldLines(hunk)
           anchors == Anchors(s, pos, hunk)
           first == IF hunk.context = Empty THEN pos ELSE Least(anchors) + 1
<1>1. Len(s) \in Nat /\ old \in Seq(Lines) /\ Len(old) \in Nat
  <2>1. old \in Seq(Lines)
    BY LinesOfType DEF OldLines
  <2> HIDE DEF old
  <2> QED BY <2>1
<1> HIDE DEF old
<1>2. ASSUME hunk.context # Empty
      PROVE  Least(anchors) \in pos..(Len(s) - 1) /\ s[Least(anchors) + 1] = hunk.context
  <2>1. anchors # {}
    <3>1. ASSUME anchors = {} PROVE HunkPlaces(s, pos, hunk) = {}
      BY <3>1, <1>2 DEF HunkPlaces
    <3> HIDE DEF anchors
    <3> QED BY <3>1
  <2>2. anchors \subseteq Nat
    BY <1>1 DEF Anchors
  <2>3. Least(anchors) \in anchors
    <3> HIDE DEF anchors
    <3> QED BY <2>1, <2>2, LeastIs
  <2> QED BY <2>3 DEF Anchors
<1> HIDE DEF anchors
<1>3. first \in pos..Len(s)
  BY <1>1, <1>2
<1>4. hunk.context # Empty => first \in (pos + 1)..Len(s) /\ s[first] = hunk.context
  BY <1>1, <1>2
<1> HIDE DEF first
<1>5. a \in first..Len(s) /\ MatchesAt(s, a, old)
  <2> DEFINE there == {i \in first..Len(s) : MatchesAt(s, i, old)}
  <2>1. CASE old = <<>>
    <3>1. HunkPlaces(s, pos, hunk) = {Len(s)}
      BY <2>1 DEF HunkPlaces, old
    <3>2. a \in {Len(s)}
      BY <3>1, <1>1, LeastIs
    <3>3. a = Len(s) /\ Len(old) = 0 /\ a \in first..Len(s)
      BY <3>2, <2>1, <1>1, <1>3
    <3> QED BY <3>3, <1>1 DEF MatchesAt
  <2>2. CASE old # <<>>
    <3>1. HunkPlaces(s, pos, hunk) = there
      BY <2>2 DEF HunkPlaces, old, first, anchors
    <3>2. there \subseteq Nat
      BY <1>1, <1>3
    <3>3. a \in there
      <4> HIDE DEF there
      <4> QED BY <3>1, <3>2, LeastIs
    <3> QED BY <3>3
  <2> QED BY <2>1, <2>2
<1>6. a \in pos..Len(s)
  BY <1>1, <1>3, <1>5
<1>7. ASSUME hunk.context # Empty PROVE \E k \in (pos + 1)..a : s[k] = hunk.context
  <2>1. first \in (pos + 1)..a /\ s[first] = hunk.context
    BY <1>1, <1>4, <1>5, <1>7
  <2> QED BY <2>1
<1> QED BY <1>5, <1>6, <1>7 DEF old

\* What is made of the file goes on with the lines up to the place, and the new ones.
MadeOf(s, pos, a, out, new, made) ==
    /\ s \in Seq(Lines) /\ pos \in Nat /\ a \in pos..Len(s)
    /\ out \in Seq(Lines) /\ new \in Seq(Lines)
    /\ made = out \o SubSeq(s, pos + 1, a) \o new
Continues(s, pos, a, out, new, made) ==
    /\ made \in Seq(Lines) /\ Len(out) \in Nat /\ Len(new) \in Nat /\ Len(s) \in Nat
    /\ Len(made) = Len(out) + (a - pos) + Len(new)
    /\ \A k \in 1..Len(out) : made[k] = out[k]
    /\ \A k \in 1..(a - pos) : made[Len(out) + k] = s[pos + k]
    /\ \A k \in 1..Len(new) : made[Len(out) + (a - pos) + k] = new[k]

LEMMA OutIs ==
    ASSUME NEW s, NEW pos, NEW a, NEW out, NEW new, NEW made, MadeOf(s, pos, a, out, new, made)
    PROVE  Continues(s, pos, a, out, new, made)
<1>a. /\ s \in Seq(Lines) /\ pos \in Nat /\ a \in pos..Len(s)
       /\ out \in Seq(Lines) /\ new \in Seq(Lines)
       /\ made = out \o SubSeq(s, pos + 1, a) \o new
  BY DEF MadeOf
<1>0. \A r, t \in Seq(Lines) :
         /\ r \o t \in Seq(Lines) /\ Len(r) \in Nat /\ Len(t) \in Nat /\ Len(r \o t) \in Nat
         /\ Len(r \o t) = Len(r) + Len(t)
         /\ \A k \in 1..Len(r) : (r \o t)[k] = r[k]
         /\ \A k \in 1..Len(t) : (r \o t)[Len(r) + k] = t[k]
  BY Joined
<1> DEFINE kept == SubSeq(s, pos + 1, a)
           begun == out \o kept
<1>1. Len(s) \in Nat /\ a \in Nat /\ a - pos \in Nat
  BY <1>a
<1>2. kept \in Seq(Lines) /\ Len(kept) = a - pos /\ \A k \in 1..(a - pos) : kept[k] = s[pos + k]
  <2>1. pos + 1 \in 1..(Len(s) + 1) /\ a \in ((pos + 1) - 1)..Len(s)
    BY <1>1, <1>a
  <2>2. kept \in Seq(Lines) /\ Len(kept) = a - pos
    BY <1>1, <2>1, <1>a
  <2>3. ASSUME NEW k \in 1..(a - pos) PROVE kept[k] = s[pos + k]
    <3>1. kept[k] = s[(pos + 1) + k - 1]
      BY <1>1, <2>1, <2>2, <1>a
    <3>2. (pos + 1) + k - 1 = pos + k
      BY <1>1, <1>a
    <3> HIDE DEF kept
    <3> QED BY <3>1, <3>2
  <2> QED BY <2>2, <2>3
<1> HIDE DEF kept
<1>3. /\ begun \in Seq(Lines) /\ Len(begun) = Len(out) + (a - pos) /\ Len(out) \in Nat
      /\ \A k \in 1..Len(out) : begun[k] = out[k]
      /\ \A k \in 1..(a - pos) : begun[Len(out) + k] = s[pos + k]
  <2>1. /\ out \o kept \in Seq(Lines) /\ Len(out) \in Nat /\ Len(out \o kept) = Len(out) + Len(kept)
        /\ \A k \in 1..Len(out) : (out \o kept)[k] = out[k]
        /\ \A k \in 1..Len(kept) : (out \o kept)[Len(out) + k] = kept[k]
    BY <1>2, <1>0, <1>a
  <2> QED BY <2>1, <1>2
<1> HIDE DEF begun
<1>4. /\ begun \o new \in Seq(Lines) /\ Len(new) \in Nat /\ Len(begun) \in Nat
      /\ Len(begun \o new) = Len(begun) + Len(new)
      /\ \A k \in 1..Len(begun) : (begun \o new)[k] = begun[k]
      /\ \A k \in 1..Len(new) : (begun \o new)[Len(begun) + k] = new[k]
  BY <1>3, <1>0, <1>a
<1>5. made = begun \o new
  BY <1>a DEF begun, kept
<1>6. /\ made \in Seq(Lines) /\ Len(new) \in Nat /\ Len(made) = Len(out) + (a - pos) + Len(new)
      /\ \A k \in 1..Len(new) : made[Len(out) + (a - pos) + k] = new[k]
  BY <1>3, <1>4, <1>5
<1>7. ASSUME NEW k \in 1..Len(out) PROVE made[k] = out[k]
  <2>1. k \in 1..Len(begun)
    BY <1>1, <1>3
  <2> QED BY <2>1, <1>3, <1>4, <1>5
<1>8. ASSUME NEW k \in 1..(a - pos) PROVE made[Len(out) + k] = s[pos + k]
  <2>1. Len(out) + k \in 1..Len(begun)
    BY <1>1, <1>3
  <2> QED BY <2>1, <1>3, <1>4, <1>5
<1> QED BY <1>1, <1>3, <1>6, <1>7, <1>8 DEF Continues

\* Where a hunk ends.
LEMMA AfterType ==
    ASSUME NEW hunks \in Seq(PatchHunk), NEW n \in 0..Len(hunks), NEW f,
           \A i \in 1..n : f[i] \in Nat, NEW i \in 0..n
    PROVE  AfterOld(hunks, f, i) \in Nat /\ AfterNew(hunks, f, i) \in Nat
<1>1. CASE i = 0
  BY <1>1 DEF AfterOld, AfterNew
<1>2. CASE i # 0
  <2>1. i \in 1..n /\ i \in 1..Len(hunks)
    BY <1>2
  <2>2. hunks[i] \in PatchHunk
    BY <2>1
  <2>3. OldLines(hunks[i]) \in Seq(Lines) /\ NewLines(hunks[i]) \in Seq(Lines)
    BY <2>2, LinesOfType DEF OldLines, NewLines
  <2>4. Len(OldLines(hunks[i])) \in Nat /\ Len(NewLines(hunks[i])) \in Nat /\ f[i] \in Nat
    BY <2>1, <2>3
  <2> QED BY <1>2, <2>4 DEF AfterOld, AfterNew
<1> QED BY <1>1, <1>2

\* Lines that are there stay in what goes on with others.
LEMMA ReplacesOn ==
    ASSUME NEW hunk, NEW s, NEW a \in Nat, NEW at \in Nat, NEW b \in Nat, NEW to \in Nat,
           NEW out \in Seq(Lines), NEW out2 \in Seq(Lines), Len(NewLines(hunk)) \in Nat,
           Replaces(hunk, s, a, at, out, b, to), Len(out) <= Len(out2),
           \A k \in 1..Len(out) : out2[k] = out[k]
    PROVE  Replaces(hunk, s, a, at, out2, b, to)
<1> DEFINE new == NewLines(hunk)
<1>1. /\ Len(out) \in Nat /\ Len(out2) \in Nat /\ Len(new) \in Nat
      /\ to + Len(new) <= Len(out) /\ \A k \in 1..Len(new) : out[to + k] = new[k]
      /\ a <= at /\ at + b = to + a /\ \A k \in 1..(at - a) : out[b + k] = s[a + k]
  BY DEF Replaces, SameLines, MatchesAt
<1> HIDE DEF new
<1>2. ASSUME NEW k \in 1..Len(new) PROVE out2[to + k] = new[k]
  <2>1. to + k \in 1..Len(out)
    BY <1>1
  <2> QED BY <2>1, <1>1
<1>3. ASSUME NEW k \in 1..(at - a) PROVE out2[b + k] = s[a + k]
  <2>1. b + k \in 1..Len(out)
    BY <1>1
  <2> QED BY <2>1, <1>1
<1>4. MatchesAt(out2, to, new)
  <2>1. to + Len(new) <= Len(out2)
    BY <1>1
  <2> QED BY <2>1, <1>2 DEF MatchesAt
<1>5. SameLines(s, a, at, out2, b, to)
  BY <1>1, <1>3 DEF SameLines
<1> QED BY <1>4, <1>5 DEF Replaces, new

Extends(hunks, n, at, to, at2, to2, out, out2) ==
    /\ hunks \in Seq(PatchHunk) /\ n \in 0..Len(hunks)
    /\ \A i \in 1..n : at[i] \in Nat /\ to[i] \in Nat /\ at2[i] = at[i] /\ to2[i] = to[i]
    /\ out \in Seq(Lines) /\ out2 \in Seq(Lines) /\ Len(out) <= Len(out2)
    /\ \A k \in 1..Len(out) : out2[k] = out[k]

LEMMA InPlaceOn ==
    ASSUME NEW s, NEW hunks, NEW n, NEW at, NEW to, NEW at2, NEW to2, NEW out, NEW out2,
           InPlace(s, hunks, n, out, at, to), Extends(hunks, n, at, to, at2, to2, out, out2)
    PROVE  /\ InPlace(s, hunks, n, out2, at2, to2)
           /\ AfterOld(hunks, at2, n) = AfterOld(hunks, at, n)
           /\ AfterNew(hunks, to2, n) = AfterNew(hunks, to, n)
<1>a. /\ hunks \in Seq(PatchHunk) /\ n \in 0..Len(hunks) /\ out \in Seq(Lines)
         /\ out2 \in Seq(Lines)
      /\ \A i \in 1..n : at[i] \in Nat /\ to[i] \in Nat /\ at2[i] = at[i] /\ to2[i] = to[i]
      /\ Len(out) <= Len(out2) /\ \A k \in 1..Len(out) : out2[k] = out[k]
  BY DEF Extends
<1>1. \A i \in 0..n : /\ AfterOld(hunks, at2, i) = AfterOld(hunks, at, i)
                      /\ AfterNew(hunks, to2, i) = AfterNew(hunks, to, i)
  BY <1>a DEF AfterOld, AfterNew
<1>2. ASSUME NEW i \in 1..n
      PROVE  Replaces(hunks[i], s, AfterOld(hunks, at2, i - 1), at2[i],
                      out2, AfterNew(hunks, to2, i - 1), to2[i])
  <2> DEFINE a == AfterOld(hunks, at, i - 1)
             b == AfterNew(hunks, to, i - 1)
  <2>1. i - 1 \in 0..n /\ n \in 0..Len(hunks) /\ i \in 1..Len(hunks)
    BY <1>a
  <2>2. a \in Nat /\ b \in Nat
    BY <2>1, <1>a, AfterType
  <2>3. Replaces(hunks[i], s, a, at[i], out, b, to[i])
    BY DEF InPlace
  <2>4. Len(NewLines(hunks[i])) \in Nat
    <3>1. hunks[i] \in PatchHunk
      BY <2>1, <1>a
    <3>2. NewLines(hunks[i]) \in Seq(Lines)
      BY <3>1, LinesOfType DEF NewLines
    <3> QED BY <3>2
  <2>5. at[i] \in Nat /\ to[i] \in Nat /\ at2[i] = at[i] /\ to2[i] = to[i]
    BY <1>a
  <2>6. AfterOld(hunks, at2, i - 1) = a /\ AfterNew(hunks, to2, i - 1) = b
    BY <1>1, <2>1
  <2> HIDE DEF a, b
  <2>7. Replaces(hunks[i], s, a, at[i], out2, b, to[i])
    BY <2>2, <2>3, <2>4, <2>5, <1>a, ReplacesOn
  <2> QED BY <2>5, <2>6, <2>7
<1>3. n \in 0..n
  BY <1>a
<1> QED BY <1>1, <1>2, <1>3 DEF InPlace

\* A hunk that is applied is in its place, and those before it stay in theirs.
LEMMA HunkApplied ==
    ASSUME NEW s \in Seq(Lines), NEW hunks \in Seq(PatchHunk), NEW n \in Nat, n < Len(hunks),
           NEW p \in [pos : Nat, out : Seq(Lines)], HunksInPlace(s, hunks, n, p),
           HunkPlaces(s, p.pos, hunks[n + 1]) # {}, NEW q, q = Applied(s, p, hunks[n + 1])
    PROVE  q \in [pos : Nat, out : Seq(Lines)] /\ HunksInPlace(s, hunks, n + 1, q)
<1> DEFINE hunk == hunks[n + 1]
           old == OldLines(hunk)
           new == NewLines(hunk)
           pos == p.pos
           out == p.out
           made == q.out
           a == Least(HunkPlaces(s, pos, hunk))
           b == Len(out) + (a - pos)
<1>1. n + 1 \in 1..Len(hunks) /\ n \in 0..Len(hunks) /\ n \in 0..n
  OBVIOUS
<1>2. hunk \in PatchHunk
  BY <1>1
<1>3. old \in Seq(Lines) /\ new \in Seq(Lines)
  BY <1>2, LinesOfType DEF OldLines, NewLines
<1>4. pos \in Nat /\ out \in Seq(Lines) /\ Len(out) \in Nat /\ Len(s) \in Nat
  OBVIOUS
<1>5. PICK at \in [1..n -> 0..Len(s)], to \in [1..n -> 0..Len(out)] :
          /\ InPlace(s, hunks, n, out, at, to)
          /\ pos = AfterOld(hunks, at, n) /\ pos <= Len(s)
          /\ Len(out) = AfterNew(hunks, to, n)
  BY DEF HunksInPlace
<1>6. /\ a \in pos..Len(s) /\ MatchesAt(s, a, old)
      /\ hunk.context # Empty => \E k \in (pos + 1)..a : s[k] = hunk.context
  <2> HIDE DEF pos, out, hunk
  <2>1. HunkPlaces(s, pos, hunk) # {}
    BY DEF hunk, pos
  <2>2. pos <= Len(s)
    BY <1>5
  <2> QED BY <2>1, <2>2, <1>2, <1>4, PlaceOf
<1>7. q = [pos |-> a + Len(old), out |-> out \o SubSeq(s, pos + 1, a) \o new]
  BY DEF Applied
<1>8. made = out \o SubSeq(s, pos + 1, a) \o new /\ q.pos = a + Len(old)
  <2> DEFINE e == a + Len(old)
             f == out \o SubSeq(s, pos + 1, a) \o new
  <2>1. q = [pos |-> e, out |-> f]
    BY <1>7
  <2> HIDE DEF e, f
  <2>2. q.pos = e /\ q.out = f
    BY <2>1
  <2> QED BY <2>2 DEF e, f
<1>9. Len(old) \in Nat /\ a \in Nat /\ b \in Nat
  <2> HIDE DEF a, old, out, pos
  <2> QED BY <1>3, <1>4, <1>6
<1> HIDE DEF hunk, old, new, pos, out, a, made
<1>10. /\ made \in Seq(Lines) /\ Len(new) \in Nat /\ Len(made) = b + Len(new)
       /\ \A k \in 1..Len(out) : made[k] = out[k]
       /\ \A k \in 1..(a - pos) : made[Len(out) + k] = s[pos + k]
       /\ \A k \in 1..Len(new) : made[b + k] = new[k]
  <2>1. a \in pos..Len(s) /\ made = out \o SubSeq(s, pos + 1, a) \o new
    BY <1>6, <1>8
  <2>2. MadeOf(s, pos, a, out, new, made)
    BY <2>1, <1>3, <1>4, Zenon DEF MadeOf
  <2>3. Continues(s, pos, a, out, new, made)
    BY <2>2, OutIs, Zenon
  <2> QED BY <2>3, Zenon DEF Continues
<1> HIDE DEF b
<1>11. b + pos = a + Len(out) /\ Len(out) <= Len(made) /\ b <= Len(made) /\ Len(made) \in Nat
  BY <1>4, <1>6, <1>9, <1>10 DEF b
<1>12. Replaces(hunk, s, pos, a, made, Len(out), b)
  <2>1. MatchesAt(made, b, new)
    BY <1>10, SMTT(60) DEF MatchesAt
  <2>2. SameLines(s, pos, a, made, Len(out), b)
    BY <1>4, <1>6, <1>10, <1>11 DEF SameLines
  <2> QED BY <2>1, <2>2, <1>6 DEF Replaces, new, old
<1> DEFINE at2 == [i \in 1..(n + 1) |-> IF i = n + 1 THEN a ELSE at[i]]
           to2 == [i \in 1..(n + 1) |-> IF i = n + 1 THEN b ELSE to[i]]
<1>13. at2 \in [1..(n + 1) -> 0..Len(s)] /\ to2 \in [1..(n + 1) -> 0..Len(made)]
  <2>1. a \in 0..Len(s) /\ b \in 0..Len(made)
    BY <1>4, <1>6, <1>9, <1>11
  <2>2. ASSUME NEW i \in 1..(n + 1), i # n + 1
        PROVE  at[i] \in 0..Len(s) /\ to[i] \in 0..Len(made)
    <3>1. i \in 1..n
      BY <2>2, NotLast, Zenon
    <3>2. at[i] \in 0..Len(s) /\ to[i] \in 0..Len(out)
      BY <3>1, <1>5
    <3> QED BY <3>2, <1>4, <1>11
  <2> QED BY <2>1, <2>2
<1>14. /\ \A i \in 1..n : at[i] \in Nat /\ to[i] \in Nat /\ at2[i] = at[i] /\ to2[i] = to[i]
       /\ at2[n + 1] = a /\ to2[n + 1] = b
  <2>1. \A i \in 1..n : i \in 1..(n + 1) /\ i # n + 1
    OBVIOUS
  <2>2. n + 1 \in 1..(n + 1)
    OBVIOUS
  <2>3. \A i \in 1..n : at[i] \in 0..Len(s) /\ to[i] \in 0..Len(out)
    BY <1>5
  <2>4. \A i \in 1..n : at[i] \in Nat /\ to[i] \in Nat
    BY <2>3, <1>4
  <2> QED BY <2>1, <2>2, <2>4
<1> HIDE DEF at2, to2
<1>15. /\ InPlace(s, hunks, n, made, at2, to2)
       /\ AfterOld(hunks, at2, n) = pos /\ AfterNew(hunks, to2, n) = Len(out)
  <2>1. InPlace(s, hunks, n, out, at, to) /\ pos = AfterOld(hunks, at, n)
        /\ Len(out) = AfterNew(hunks, to, n)
    BY <1>5
  <2>2. Extends(hunks, n, at, to, at2, to2, out, made)
    BY <1>1, <1>4, <1>10, <1>11, <1>14 DEF Extends
  <2>3. /\ InPlace(s, hunks, n, made, at2, to2)
        /\ AfterOld(hunks, at2, n) = AfterOld(hunks, at, n)
        /\ AfterNew(hunks, to2, n) = AfterNew(hunks, to, n)
    BY <2>1, <2>2, InPlaceOn
  <2> QED BY <2>1, <2>3
<1>16. InPlace(s, hunks, n + 1, made, at2, to2)
  <2> SUFFICES ASSUME NEW i \in 1..(n + 1)
               PROVE  Replaces(hunks[i], s, AfterOld(hunks, at2, i - 1), at2[i],
                               made, AfterNew(hunks, to2, i - 1), to2[i])
    BY DEF InPlace
  <2>1. CASE i = n + 1
    <3>1. i - 1 = n
      BY <2>1
    <3> QED BY <2>1, <3>1, <1>12, <1>14, <1>15 DEF hunk
  <2>2. CASE i # n + 1
    <3>1. i \in 1..n
      BY <2>2, NotLast, Zenon
    <3> QED BY <3>1, <1>15 DEF InPlace
  <2> QED BY <2>1, <2>2
<1>17. AfterOld(hunks, at2, n + 1) = a + Len(old) /\ AfterNew(hunks, to2, n + 1) = b + Len(new)
  <2>1. n + 1 # 0
    OBVIOUS
  <2> QED BY <2>1, <1>14 DEF AfterOld, AfterNew, old, new, hunk
<1>18. q.pos <= Len(s)
  BY <1>6, <1>8 DEF MatchesAt
<1>19. HunksInPlace(s, hunks, n + 1, q)
  <2>1. q.pos = AfterOld(hunks, at2, n + 1) /\ Len(made) = AfterNew(hunks, to2, n + 1)
    BY <1>8, <1>10, <1>17
  <2>2. /\ InPlace(s, hunks, n + 1, q.out, at2, to2) /\ Len(q.out) = AfterNew(hunks, to2, n + 1)
        /\ to2 \in [1..(n + 1) -> 0..Len(q.out)]
    BY <2>1, <1>13, <1>16 DEF made
  <2> QED BY <2>1, <2>2, <1>13, <1>18, Zenon DEF HunksInPlace
<1>20. q \in [pos : Nat, out : Seq(Lines)]
  <2>1. a + Len(old) \in Nat
    BY <1>9
  <2>2. q = [pos |-> a + Len(old), out |-> made]
    BY <1>7, <1>8
  <2> QED BY <2>1, <2>2, <1>10
<1> QED BY <1>19, <1>20

\* When all hunks are in their places the rest of the file stays.
LEMMA AllInPlace ==
    ASSUME NEW s \in Seq(Lines), NEW hunks \in Seq(PatchHunk),
           NEW p \in [pos : Nat, out : Seq(Lines)], HunksInPlace(s, hunks, Len(hunks), p),
           NEW made, made = p.out \o From(s, p.pos)
    PROVE  made \in Seq(Lines) /\ Explains(s, hunks, made)
<1> DEFINE n == Len(hunks)
           pos == p.pos
           out == p.out
<1>1. n \in Nat /\ n \in 0..Len(hunks) /\ n \in 0..n
  OBVIOUS
<1>2. pos \in Nat /\ out \in Seq(Lines) /\ Len(out) \in Nat /\ Len(s) \in Nat
  OBVIOUS
<1>3. PICK at \in [1..n -> 0..Len(s)], to \in [1..n -> 0..Len(out)] :
          /\ InPlace(s, hunks, n, out, at, to)
          /\ pos = AfterOld(hunks, at, n) /\ pos <= Len(s)
          /\ Len(out) = AfterNew(hunks, to, n)
  BY DEF HunksInPlace
<1> HIDE DEF n, pos, out
<1>4. /\ made \in Seq(Lines) /\ Len(made) = Len(out) + (Len(s) - pos)
      /\ \A k \in 1..Len(out) : made[k] = out[k]
      /\ \A k \in 1..(Len(s) - pos) : made[Len(out) + k] = s[pos + k]
  <2> DEFINE rest == SubSeq(s, pos + 1, Len(s))
             none == <<>>
             whole == out \o rest \o none
  <2>1. /\ Len(s) \in pos..Len(s) /\ none \in Seq(Lines) /\ Len(none) = 0 /\ pos + 1 \in Nat
        /\ rest \in Seq(Lines)
    BY <1>2, <1>3
  <2> HIDE DEF rest, none
  <2>2. out \o rest \in Seq(Lines)
    BY <2>1, <1>2
  <2>3. whole = out \o rest
    BY <2>2, ConcatEmptySeq DEF none
  <2>4. made = whole
    BY <2>3 DEF From, rest, out, pos
  <2>5. MadeOf(s, pos, Len(s), out, none, made)
    BY <2>1, <2>4, <1>2 DEF MadeOf, rest
  <2>6. Continues(s, pos, Len(s), out, none, made)
    BY <2>5, OutIs, Zenon
  <2>7. Len(made) = Len(out) + (Len(s) - pos)
    <3>1. Len(s) - pos \in Int
      BY <1>2
    <3> QED BY <2>1, <2>6, <3>1, <1>2 DEF Continues
  <2> QED BY <2>6, <2>7, Zenon DEF Continues
<1>5. Len(out) <= Len(made) /\ Len(made) \in Nat
  BY <1>2, <1>3, <1>4
<1>6. /\ at \in [1..n -> 0..Len(s)] /\ to \in [1..n -> 0..Len(made)]
      /\ \A i \in 1..n : at[i] \in Nat /\ to[i] \in Nat /\ at[i] = at[i] /\ to[i] = to[i]
  <2>1. at \in [1..n -> 0..Len(s)] /\ to \in [1..n -> 0..Len(out)]
    BY <1>3
  <2>2. 0..Len(out) \subseteq 0..Len(made) /\ 0..Len(out) \subseteq Nat /\ 0..Len(s) \subseteq Nat
    BY <1>2, <1>5
  <2>3. to \in [1..n -> 0..Len(made)]
    BY <2>1, <2>2
  <2>4. \A i \in 1..n : at[i] \in 0..Len(s) /\ to[i] \in 0..Len(out)
    BY <2>1
  <2> QED BY <2>1, <2>2, <2>3, <2>4
<1>7. InPlace(s, hunks, n, made, at, to)
  <2>1. n \in 0..Len(hunks) /\ InPlace(s, hunks, n, out, at, to)
    BY <1>1, <1>3 DEF n
  <2>2. Extends(hunks, n, at, to, at, to, out, made)
    BY <2>1, <1>2, <1>4, <1>5, <1>6 DEF Extends
  <2> QED BY <2>1, <2>2, InPlaceOn
<1>8. SameLines(s, pos, Len(s), made, Len(out), Len(made))
  <2>1. pos <= Len(s) /\ Len(s) + Len(out) = Len(made) + pos
    BY <1>2, <1>3, <1>4
  <2> QED BY <2>1, <1>4 DEF SameLines
<1>9. SameLines(s, AfterOld(hunks, at, n), Len(s), made, AfterNew(hunks, to, n), Len(made))
  BY <1>3, <1>8
<1> QED BY <1>4, <1>6, <1>7, <1>9 DEF Explains, n

\* What is written back is explained by the hunks.
LEMMA PatchedIs ==
    ASSUME PatchInv, step = "write"
    PROVE  Patched \in Seq(Lines) /\ Explains(source, Current.hunks, Patched)
<1> DEFINE hunks == Current.hunks
<1>1. hunks \in Seq(PatchHunk)
  BY RunIs DEF Executing
<1>2. source \in Seq(Lines) /\ patch \in [pos : Nat, out : Seq(Lines)]
  BY DEF PatchInv, PatchTyped
<1>3. hunkAt = Len(hunks) + 1 /\ HunksInPlace(source, hunks, hunkAt - 1, patch)
  BY DEF PatchInv, PatchStepKnown, PatchKnown
<1> HIDE DEF hunks
<1>4. hunkAt - 1 = Len(hunks)
  <2>1. Len(hunks) \in Nat
    BY <1>1
  <2> QED BY <2>1, <1>3
<1>5. HunksInPlace(source, hunks, Len(hunks), patch)
  BY <1>3, <1>4
<1>6. Patched \in Seq(Lines) /\ Explains(source, hunks, Patched)
  BY <1>1, <1>2, <1>5, AllInPlace DEF Patched
<1> QED BY <1>6 DEF hunks

LEMMA ApplyHunkStep == ASSUME PatchInv, ApplyHunk PROVE PatchInv'
<1> DEFINE hunks == Current.hunks
           hunk == hunks[hunkAt]
<1>1. step = "hunks" /\ step \in Executing /\ Carried /\ source' = source /\ tree' = tree
  BY DEF ApplyHunk, Executing
<1>2. /\ hunks \in Seq(PatchHunk) /\ opAt \in 1..Len(ops) /\ Len(ops) \in Nat
  BY <1>1, RunIs
<1>3. tree' \in [Paths -> Files] /\ FilesKept'
  BY <1>1, TreeStays
<1>4. PatchTyped /\ Current.kind = "update" /\ hunkAt <= Len(hunks)
      /\ HunksInPlace(source, hunks, hunkAt - 1, patch)
  BY <1>1 DEF PatchInv, PatchStepKnown, PatchKnown
<1>5. hunkAt \in Nat \ {0} /\ source \in Seq(Lines) /\ patch \in [pos : Nat, out : Seq(Lines)]
      /\ reports \in Seq({"ok", "error"})
  BY <1>4 DEF PatchTyped
<1>6. CASE Report("error") /\ UNCHANGED <<hunkAt, patch>>
  BY <1>1, <1>3, <1>6, ReportKeeps
<1>7. CASE /\ HunkPlaces(source, patch.pos, hunk) # {} /\ patch' = Applied(source, patch, hunk)
           /\ hunkAt' = hunkAt + 1
           /\ GoesTo(IF hunkAt = Len(hunks) THEN "write" ELSE "hunks")
  <2>1. /\ step' = (IF hunkAt = Len(hunks) THEN "write" ELSE "hunks") /\ opAt' = opAt
        /\ reports' = reports /\ ops' = ops
    BY <1>1, <1>7 DEF GoesTo, Carried, parseVars
  <2>2. Current' = Current
    BY <2>1 DEF Current
  <2> DEFINE n == hunkAt - 1
  <2>3. n \in Nat /\ n < Len(hunks) /\ n + 1 = hunkAt /\ Len(hunks) \in Nat
    <3> HIDE DEF hunks
    <3> QED BY <1>2, <1>4, <1>5
  <2>4. patch' \in [pos : Nat, out : Seq(Lines)] /\ HunksInPlace(source, hunks, n + 1, patch')
    <3>1. HunkPlaces(source, patch.pos, hunks[n + 1]) # {}
          /\ patch' = Applied(source, patch, hunks[n + 1])
      BY <2>3, <1>7
    <3>2. HunksInPlace(source, hunks, n, patch)
      BY <1>4
    <3> HIDE DEF hunks, n
    <3> QED BY <3>1, <3>2, <2>3, <1>2, <1>5, HunkApplied
  <2>5. hunkAt' \in Nat \ {0} /\ hunkAt' - 1 = n + 1
        /\ (step' = "hunks" => hunkAt' <= Len(hunks))
        /\ (step' = "write" => hunkAt' = Len(hunks) + 1)
    <3> HIDE DEF hunks
    <3> QED BY <2>1, <2>3, <1>4, <1>5, <1>7
  <2>6. Current'.hunks = hunks /\ Current'.kind = "update"
    BY <2>2, <1>4
  <2>7. PatchKnown'
    <3>1. HunksInPlace(source', Current'.hunks, hunkAt' - 1, patch')
      <4> HIDE DEF hunks, n
      <4> QED BY <2>4, <2>5, <2>6, <1>1
    <3> QED BY <3>1 DEF PatchKnown
  <2>8. step' \in {"write", "hunks"} /\ step' \in Executing \cup {"answered"}
    BY <2>1 DEF Executing
  <2>9. opAt' \in 1..(Len(ops) + 1) /\ opAt' <= Len(ops')
    BY <2>1, <1>2
  <2>10. PatchStepKnown'
    <3> HIDE DEF hunks
    <3> QED BY <2>5, <2>6, <2>8, <2>9 DEF PatchStepKnown
  <2>11. source' \in Seq(Lines) /\ reports' \in Seq({"ok", "error"})
    BY <2>1, <1>1, <1>5
  <2> QED BY <2>4, <2>5, <2>7, <2>8, <2>9, <2>10, <2>11, <1>1, <1>3, RunKeeps
<1> QED BY <1>6, <1>7 DEF ApplyHunk

-----------------------------------------------------------------------------
(* PatchHunks: the theorem *)

LEMMA PatchInitInv == ASSUME PatchInit PROVE PatchInv
<1>1. document = <<L("begin", Empty)>> /\ Len(document) = 1 /\ document \in Seq(DocLines)
  <2>1. L("begin", Empty) \in DocLines
    BY DEF L, DocLines, Marks
  <2>2. document = <<L("begin", Empty)>>
    BY DEF PatchInit, L
  <2> QED BY <2>1, <2>2
<1>2. NoFiles \in [Paths -> Files]
  BY AFile DEF NoFiles
<1>3. /\ step = "draft" /\ begins = <<>> /\ finish = 2 /\ cursor = 2 /\ ops = <<>> /\ opAt = 1
      /\ hunkAt = 1 /\ source = <<>> /\ patch = [pos |-> 0, out |-> <<>>] /\ reports = <<>>
      /\ tree = NoFiles /\ started = NoFiles /\ meant \in Operations
  BY DEF PatchInit
<1>4. /\ begins \in Seq(Seq(Nat)) /\ Len(begins) = 0 /\ ops \in Seq(FileOp) /\ Len(ops) = 0
      /\ source \in Seq(Lines) /\ patch \in [pos : Nat, out : Seq(Lines)]
      /\ reports \in Seq({"ok", "error"})
  BY <1>3
<1>5. PatchTyped
  BY <1>1, <1>2, <1>3, <1>4 DEF PatchTyped, Steps
<1>6. DocumentKnown
  <2>1. Len(meant) \in Nat
    BY <1>5, MeantIs
  <2>2. DraftStands(meant, document, begins, finish)
    BY <2>1, <1>4 DEF DraftStands
  <2>3. Opened(document, OpBegin(begins, finish, 1))
    BY <1>3, <1>4 DEF Opened, OpBegin
  <2> QED BY <2>2, <2>3, <1>1, <1>3 DEF DocumentKnown
<1>7. ParserKnown /\ PatchKnown
  BY <1>3 DEF ParserKnown, PatchKnown, Executing
<1>8. PatchStepKnown
  BY <1>3 DEF PatchStepKnown, Executing
<1>9. FilesKept
  BY <1>3 DEF FilesKept, SomeFile, NoFiles, Missing
<1> QED BY <1>5, <1>6, <1>7, <1>8, <1>9 DEF PatchInv

LEMMA PatchNextInv == ASSUME PatchInv, [PatchNext]_patchVars PROVE PatchInv'
<1>1. CASE WriteExtra
  BY <1>1, WriteExtraStep
<1>2. CASE WriteOperation
  BY <1>2, WriteOperationStep
<1>3. CASE WriteHunk
  BY <1>3, WriteHunkStep
<1>4. CASE CallApplyPatch
  BY <1>4, CallApplyPatchStep
<1>5. CASE ParsePatch
  BY <1>5, ParsePatchStep
<1>6. CASE ParseChunks
  BY <1>6, ParseChunksStep
<1>7. CASE AddOrDelete
  BY <1>7, AddOrDeleteStep
<1>8. CASE ReadFile
  BY <1>8, ReadFileStep
<1>9. CASE ApplyHunk
  BY <1>9, ApplyHunkStep
<1>10. CASE WritePatched
  <2>1. step = "write"
    BY <1>10 DEF WritePatched
  <2> QED BY <2>1, <1>10, PatchedIs, WritePatchedStep
<1>11. CASE CopyOver
  BY <1>11, CopyOverStep
<1>12. CASE RemoveOld
  BY <1>12, RemoveOldStep
<1>13. CASE UNCHANGED patchVars
  <2>1. UNCHANGED <<meant, document, begins, finish, cursor, ops, opAt, hunkAt, source, patch, tree,
                    reports, step, started>>
    BY <1>13 DEF patchVars, draftVars, parseVars, applyVars
  <2>2. PatchTyped' /\ DocumentKnown'
    BY <2>1 DEF PatchInv, PatchTyped, DocumentKnown, HunksWritten
  <2>3. ParserKnown' /\ FilesKept'
    BY <2>1 DEF PatchInv, ParserKnown, ChunksKnown, FilesKept
  <2>4. PatchStepKnown' /\ PatchKnown'
    BY <2>1 DEF PatchInv, PatchStepKnown, PatchKnown, Current
  <2> QED BY <2>2, <2>3, <2>4 DEF PatchInv
<1> QED BY <1>1, <1>2, <1>3, <1>4, <1>5, <1>6, <1>7, <1>8, <1>9, <1>10, <1>11, <1>12, <1>13
       DEF PatchNext

\* What is known implies what is promised.
LEMMA PatchInvSound == ASSUME PatchInv PROVE PatchTypeOK /\ PatchSound
<1>1. PatchTypeOK
  <2>1. PatchTyped
    BY DEF PatchInv
  <2>2. step = "draft" \/ cursor \in 1..Len(document)
    <3>1. Len(document) \in Nat
      BY <2>1 DEF PatchTyped
    <3>2. step = "draft" \/ cursor \in 2..Len(document)
      BY <2>1 DEF PatchTyped
    <3> QED BY <3>1, <3>2
  <2> QED BY <2>1, <2>2 DEF PatchTyped, PatchTypeOK, Steps, Files
<1>2. ParsedAsMeant
  BY DEF PatchInv, ParserKnown, PatchStepKnown, ParsedAsMeant, Executing
<1>3. PatchedAsMeant
  BY PatchedIs DEF PatchedAsMeant
<1>4. NothingLost
  BY DEF PatchInv, FilesKept, SomeFile, Gone, NothingLost
<1> QED BY <1>1, <1>2, <1>3, <1>4 DEF PatchSound

\* apply_patch: what is carried out is what the document means by the grammar, and
\* a document that is refused changes nothing; the hunks of a file replace their old
\* lines by their new ones, each in one place behind the one before it, and leave the
\* other lines; and no file is lost that no operation deletes (apply_patch_core.go,
\* apply_patch.go), whichever calls to the executor fail or are not answered.
THEOREM PatchAlwaysSound == PatchSpec => [](PatchTypeOK /\ PatchSound)
<1>1. PatchInit => PatchInv
  BY PatchInitInv
<1>2. PatchInv /\ [PatchNext]_patchVars => PatchInv'
  BY PatchNextInv
<1>3. PatchInv => PatchTypeOK /\ PatchSound
  BY PatchInvSound
<1> QED BY <1>1, <1>2, <1>3, PTL DEF PatchSpec

===============================================================================
