---------------------------- MODULE Relay_proofs ----------------------------
(***************************************************************************)
(* TLAPS proofs about Relay, for any sets of tickets, workspaces and       *)
(* requests and any cap: no request waits for a run that has given up, the *)
(* cap counts exactly the tickets in the map, and the relay implements     *)
(* RelaySession.                                                           *)
(*                                                                         *)
(* The argument: a side of a ticket is claimed once (Claimed), so what run *)
(* received is never overwritten and stays with the request that waits     *)
(* (Received) until run answers it on its way out.                         *)
(***************************************************************************)
EXTENDS Relay, FiniteSetTheorems, TLAPS

Entered == {"check", "offer", "wait"}

\* A request that got past Claim is the one that claimed its side.
Claimed ==
    /\ \A h \in Handlers :
          /\ req[h].pc \in {"claim", "check", "offer", "wait"} =>
                /\ req[h].ticket \in Tickets
                /\ run[req[h].ticket] # "unborn"
          /\ req[h].pc \in Entered => req[h].side \in claims[req[h].ticket]
    /\ \A g, h \in Handlers :
          /\ req[g].pc \in Entered /\ req[h].pc \in Entered
          /\ req[g].ticket = req[h].ticket /\ req[g].side = req[h].side
          => g = h

Waits(h, t, s) ==
    req[h].pc = "wait" /\ req[h].ticket = t /\ req[h].side = s

\* What run holds it has yet to answer, until it answers it; it copies when it
\* holds both sides.
Received ==
    \A t \in Tickets :
        /\ \A s \in Sides :
              /\ run[t] = "unborn" => held[t][s] = NoHandler
              /\ /\ held[t][s] # NoHandler
                 /\ \/ run[t] \in {"pairing", "copying"}
                    \/ run[t] = "answerPut" /\ s = "PUT"
                 => Waits(held[t][s], t, s)
        /\ run[t] = "pairing" =>
              held[t]["PUT"] = NoHandler \/ held[t]["GET"] = NoHandler
        /\ run[t] \in {"copying", "answerPut"} =>
              held[t]["PUT"] # NoHandler /\ held[t]["GET"] # NoHandler

\* A ticket is in the map from Create to Cleanup, and only Expire times out.
Mapped ==
    \A t \in Tickets :
        /\ t \in tickets <=>
              run[t] \in {"pairing", "copying", "answerPut", "cleanup"}
        /\ run[t] = "answerPut" => err[t] # "timeout"
        /\ run[t] = "cleanup" /\ err[t] # "timeout" =>
              held[t]["PUT"] # NoHandler /\ held[t]["GET"] # NoHandler

\* The inductive invariant.
IInv == TypeOK /\ Claimed /\ Received /\ Mapped /\ WaitingIsHeld /\ CapExact

-----------------------------------------------------------------------------
(* What the answers change *)

LEMMA GotoFact ==
    ASSUME req \in [Handlers -> Requests], NEW h \in Handlers,
           NEW pc \in HandlerSteps, Goto(h, pc)
    PROVE  /\ req' \in [Handlers -> Requests]
           /\ \A g \in Handlers :
                 /\ req'[g].side = req[g].side
                 /\ req'[g].ticket = req[g].ticket
                 /\ req'[g].pc = IF g = h THEN pc ELSE req[g].pc
  BY DEF Goto, Requests

LEMMA ReturnFact ==
    ASSUME req \in [Handlers -> Requests], NEW h \in Handlers,
           NEW a \in Answers, Return(h, a)
    PROVE  /\ req' \in [Handlers -> Requests]
           /\ \A g \in Handlers :
                 /\ req'[g].side = req[g].side
                 /\ req'[g].ticket = req[g].ticket
                 /\ req'[g].pc = IF g = h THEN "returned" ELSE req[g].pc
<1> DEFINE r == [req[h] EXCEPT !.pc = "returned", !.answer = a]
<1>1. r \in Requests /\ r.side = req[h].side /\ r.ticket = req[h].ticket
         /\ r.pc = "returned"
  BY DEF Requests, HandlerSteps
<1>2. req' = [req EXCEPT ![h] = r]
  BY DEF Return
<1> HIDE DEF r
<1> QED BY <1>1, <1>2 DEF Requests

LEMMA AnswerFact ==
    ASSUME req \in [Handlers -> Requests], NEW H, NEW a \in Answers,
           Answer(H, a)
    PROVE  /\ req' \in [Handlers -> Requests]
           /\ \A g \in Handlers :
                 /\ req'[g].side = req[g].side
                 /\ req'[g].ticket = req[g].ticket
                 /\ req'[g].pc = IF g \in H THEN "returned" ELSE req[g].pc
<1> DEFINE r(g) == [req[g] EXCEPT !.pc = "returned", !.answer = a]
<1>1. \A g \in Handlers :
         /\ r(g) \in Requests /\ r(g).side = req[g].side
         /\ r(g).ticket = req[g].ticket /\ r(g).pc = "returned"
  BY DEF Requests, HandlerSteps
<1>2. req' = [g \in Handlers |-> IF g \in H THEN r(g) ELSE req[g]]
  BY DEF Answer
<1> HIDE DEF r
<1> QED BY <1>1, <1>2 DEF Requests

\* A ticket in the map is counted.
LEMMA CountPositive ==
    ASSUME TypeOK, CapExact, NEW t \in tickets
    PROVE  count[owner[t]] - 1 \in Nat
<1> USE RelayAssumption DEF TypeOK
<1>1. IsFiniteSet(Minted(owner[t]))
  BY FS_Subset DEF Minted
<1>2. Minted(owner[t]) # {}
  BY DEF Minted
<1>3. Cardinality(Minted(owner[t])) # 0 /\ Cardinality(Minted(owner[t])) \in Nat
  BY <1>1, <1>2, FS_EmptySet, FS_CardinalityType
<1>4. count[owner[t]] = Cardinality(Minted(owner[t]))
  BY DEF CapExact
<1> QED BY <1>3, <1>4

\* No request has got further than from "offer" to "wait", and no ticket is
\* taken back.
NoFurther ==
    \A g \in Handlers :
        /\ req'[g].side = req[g].side
        /\ req'[g].ticket = req[g].ticket
        /\ \/ req'[g].pc = req[g].pc
           \/ req'[g].pc = "returned"
           \/ req'[g].pc = "wait" /\ req[g].pc = "offer"

StillMinted == \A t \in Tickets : run[t] # "unborn" => run'[t] # "unborn"

\* Such a step keeps the claims.
LEMMA ClaimedFrame ==
    ASSUME Claimed, UNCHANGED claims, StillMinted, NoFurther
    PROVE  Claimed'
<1>1. \A g \in Handlers :
         /\ req'[g].pc \in Entered => req[g].pc \in Entered
         /\ req'[g].pc \in Entered \cup {"claim"} =>
               req[g].pc \in Entered \cup {"claim"}
  BY DEF Entered, NoFurther
<1>2. \A h \in Handlers :
         /\ req'[h].pc \in {"claim", "check", "offer", "wait"} =>
               req'[h].ticket \in Tickets /\ run'[req'[h].ticket] # "unborn"
         /\ req'[h].pc \in Entered => req'[h].side \in claims'[req'[h].ticket]
  BY <1>1 DEF Claimed, Entered, NoFurther, StillMinted
<1>3. \A g, h \in Handlers :
         /\ req'[g].pc \in Entered /\ req'[h].pc \in Entered
         /\ req'[g].ticket = req'[h].ticket /\ req'[g].side = req'[h].side
         => g = h
  BY <1>1 DEF Claimed, NoFurther
<1> QED BY <1>2, <1>3 DEF Claimed

LEMMA AnswerNoFurther ==
    ASSUME req \in [Handlers -> Requests], NEW H, NEW a \in Answers,
           Answer(H, a)
    PROVE  NoFurther
  BY AnswerFact DEF NoFurther

-----------------------------------------------------------------------------
(* Steps *)

\* Every step keeps the types; the count does because it is exact.
LEMMA TypeStep ==
    ASSUME TypeOK, Claimed, CapExact, [Next]_vars
    PROVE  TypeOK'
<1> USE RelayAssumption
        DEF TypeOK, Sides, RunSteps, HandlerSteps, Answers, registry, pairing,
            Claimed, Entered
<1>1. ASSUME NEW t \in Tickets, NEW w \in Workspaces, Create(t, w)
      PROVE TypeOK'
  BY <1>1 DEF Create
<1>2. ASSUME NEW h \in Handlers, NEW s \in Sides,
            NEW t \in Tickets, Lookup(h, s, t)
      PROVE TypeOK'
  BY <1>2 DEF Lookup, Requests
<1>3. ASSUME NEW h \in Handlers, Claim(h) PROVE TypeOK'
  <2>1. req' \in [Handlers -> Requests]
    BY <1>3, GotoFact, ReturnFact DEF Claim
  <2>2. claims' \in [Tickets -> SUBSET Sides]
    BY <1>3 DEF Claim, Requests
  <2> QED BY <1>3, <2>1, <2>2 DEF Claim
<1>4. ASSUME NEW h \in Handlers, CheckDone(h) PROVE TypeOK'
  BY <1>4, GotoFact, ReturnFact DEF CheckDone
<1>5. ASSUME NEW h \in Handlers, HandOver(h) PROVE TypeOK'
  BY <1>5, GotoFact DEF HandOver
<1>6. ASSUME NEW h \in Handlers, OfferGone(h) PROVE TypeOK'
  BY <1>6, ReturnFact DEF OfferGone
<1>7. ASSUME NEW t \in Tickets, Expire(t) PROVE TypeOK'
  BY <1>7, AnswerFact DEF Expire, Held
<1>8. ASSUME NEW t \in Tickets, AnswerGet(t) PROVE TypeOK'
  BY <1>8, AnswerFact DEF AnswerGet
<1>9. ASSUME NEW t \in Tickets, AnswerPut(t) PROVE TypeOK'
  BY <1>9, AnswerFact DEF AnswerPut
<1>10. ASSUME NEW t \in Tickets, Cleanup(t) PROVE TypeOK'
  <2>1. t \in tickets => count[owner[t]] - 1 \in Nat
    BY CountPositive
  <2> QED BY <1>10, <2>1 DEF Cleanup
<1>11. ASSUME NEW t \in Tickets, CloseDone(t) PROVE TypeOK'
  BY <1>11 DEF CloseDone
<1>12. CASE UNCHANGED vars
  BY <1>12 DEF vars
<1> QED
  BY <1>1, <1>2, <1>3, <1>4, <1>5, <1>6, <1>7, <1>8, <1>9, <1>10, <1>11, <1>12
  DEF Next, Accept, Run

\* Only Claim lets a request in, and it lets one in per side.
LEMMA ClaimedStep ==
    ASSUME TypeOK, Claimed, Mapped, [Next]_vars
    PROVE  Claimed'
<1> USE RelayAssumption
        DEF TypeOK, Sides, RunSteps, HandlerSteps, Answers, registry, pairing,
            Claimed, Entered, Mapped
<1>1. ASSUME NEW t \in Tickets, NEW w \in Workspaces, Create(t, w)
      PROVE Claimed'
  BY <1>1 DEF Create
<1>2. ASSUME NEW h \in Handlers, NEW s \in Sides,
            NEW t \in Tickets, Lookup(h, s, t)
      PROVE Claimed'
  BY <1>2 DEF Lookup, Requests
<1>3. ASSUME NEW h \in Handlers, Claim(h) PROVE Claimed'
  <2>1. CASE Return(h, "locked") /\ UNCHANGED claims
    <3>1. NoFurther
      BY <2>1, ReturnFact DEF NoFurther
    <3>2. StillMinted
      BY <1>3 DEF Claim, StillMinted
    <3> QED BY <2>1, <3>1, <3>2, ClaimedFrame
  <2>2. CASE Goto(h, "check") /\ req[h].side \notin claims[req[h].ticket]
    <3>1. /\ claims' = [claims EXCEPT ![req[h].ticket] =
                                          @ \cup {req[h].side}]
          /\ req[h].pc = "claim" /\ UNCHANGED run
      BY <1>3, <2>2, ReturnFact DEF Claim
    <3>2. \A g \in Handlers :
             /\ req'[g].side = req[g].side
             /\ req'[g].ticket = req[g].ticket
             /\ req'[g].pc = IF g = h THEN "check" ELSE req[g].pc
      BY <2>2, GotoFact
    <3>3. \A t \in Tickets : claims[t] \subseteq claims'[t]
      BY <3>1
    <3>4. req[h].ticket \in Tickets /\ req[h].side \in claims'[req[h].ticket]
      BY <3>1
    <3>5. \A g \in Handlers :
             /\ req'[g].pc \in {"claim", "check", "offer", "wait"} =>
                   /\ req'[g].ticket \in Tickets
                   /\ run'[req'[g].ticket] # "unborn"
             /\ req'[g].pc \in Entered =>
                   req'[g].side \in claims'[req'[g].ticket]
      BY <3>1, <3>2, <3>3, <3>4
    <3>6. \A f, g \in Handlers :
             /\ req'[f].pc \in Entered /\ req'[g].pc \in Entered
             /\ req'[f].ticket = req'[g].ticket
             /\ req'[f].side = req'[g].side
             => f = g
      BY <2>2, <3>2
    <3> QED BY <3>5, <3>6
  <2> QED BY <1>3, <2>1, <2>2 DEF Claim
<1>4. ASSUME NEW h \in Handlers, CheckDone(h) PROVE Claimed'
  <2>1. CASE Return(h, "gone")
    <3>1. NoFurther
      BY <2>1, ReturnFact DEF NoFurther
    <3>2. StillMinted /\ UNCHANGED claims
      BY <1>4 DEF CheckDone, StillMinted
    <3> QED BY <3>1, <3>2, ClaimedFrame
  <2>2. CASE Goto(h, "offer")
    BY <1>4, <2>2, GotoFact, SMTT(30) DEF CheckDone
  <2> QED BY <1>4, <2>1, <2>2 DEF CheckDone
<1>5. ASSUME NEW h \in Handlers, HandOver(h) PROVE Claimed'
  <2>1. Goto(h, "wait") /\ req[h].pc = "offer"
    BY <1>5 DEF HandOver
  <2>2. NoFurther
    BY <2>1, GotoFact DEF NoFurther
  <2>3. StillMinted /\ UNCHANGED claims
    BY <1>5 DEF HandOver, StillMinted
  <2> QED BY <2>2, <2>3, ClaimedFrame
<1>6. ASSUME NEW h \in Handlers, OfferGone(h) PROVE Claimed'
  <2>1. Return(h, "gone")
    BY <1>6 DEF OfferGone
  <2>2. NoFurther
    BY <2>1, ReturnFact DEF NoFurther
  <2>3. StillMinted /\ UNCHANGED claims
    BY <1>6 DEF OfferGone, StillMinted
  <2> QED BY <2>2, <2>3, ClaimedFrame
<1>7. ASSUME NEW t \in Tickets, Expire(t) PROVE Claimed'
  <2>1. Answer(Held(t), "timeout")
    BY <1>7 DEF Expire
  <2>2. NoFurther
    BY <2>1, AnswerNoFurther
  <2>3. StillMinted /\ UNCHANGED claims
    BY <1>7 DEF Expire, StillMinted
  <2> QED BY <2>2, <2>3, ClaimedFrame
<1>8. ASSUME NEW t \in Tickets, AnswerGet(t) PROVE Claimed'
  <2>1. Answer({held[t]["GET"]}, "streamed")
    BY <1>8 DEF AnswerGet
  <2>2. NoFurther
    BY <2>1, AnswerNoFurther
  <2>3. StillMinted /\ UNCHANGED claims
    BY <1>8 DEF AnswerGet, StillMinted
  <2> QED BY <2>2, <2>3, ClaimedFrame
<1>9. ASSUME NEW t \in Tickets, AnswerPut(t) PROVE Claimed'
  <2>1. Answer({held[t]["PUT"]}, (IF err[t] = "none" THEN "ok" ELSE "failed"))
    BY <1>9 DEF AnswerPut
  <2>2. NoFurther
    BY <2>1, AnswerNoFurther
  <2>3. StillMinted /\ UNCHANGED claims
    BY <1>9 DEF AnswerPut, StillMinted
  <2> QED BY <2>2, <2>3, ClaimedFrame
<1>10. ASSUME NEW t \in Tickets, Cleanup(t) PROVE Claimed'
  BY <1>10 DEF Cleanup
<1>11. ASSUME NEW t \in Tickets, CloseDone(t) PROVE Claimed'
  BY <1>11 DEF CloseDone
<1>12. CASE UNCHANGED vars
  BY <1>12 DEF vars
<1> QED
  BY <1>1, <1>2, <1>3, <1>4, <1>5, <1>6, <1>7, <1>8, <1>9, <1>10, <1>11, <1>12
  DEF Next, Accept, Run

\* run receives what waits, and forgets it when it answers.
LEMMA ReceivedStep ==
    ASSUME TypeOK, Claimed, Received, [Next]_vars
    PROVE  Received'
<1> USE RelayAssumption
        DEF TypeOK, Sides, RunSteps, HandlerSteps, Answers, registry, pairing,
            Claimed, Entered, Received, Waits, Held
<1>1. ASSUME NEW t \in Tickets, NEW w \in Workspaces, Create(t, w)
      PROVE Received'
  BY <1>1 DEF Create
<1>2. ASSUME NEW h \in Handlers, NEW s \in Sides,
            NEW t \in Tickets, Lookup(h, s, t)
      PROVE Received'
  BY <1>2 DEF Lookup, Requests
<1>3. ASSUME NEW h \in Handlers, Claim(h) PROVE Received'
  BY <1>3, GotoFact, ReturnFact DEF Claim
<1>4. ASSUME NEW h \in Handlers, CheckDone(h) PROVE Received'
  <2>1. CASE Return(h, "gone")
    BY <1>4, <2>1, ReturnFact DEF CheckDone
  <2>2. CASE Goto(h, "offer")
    BY <1>4, <2>2, GotoFact, SMTT(30) DEF CheckDone
  <2> QED BY <1>4, <2>1, <2>2 DEF CheckDone
<1>5. ASSUME NEW h \in Handlers, HandOver(h) PROVE Received'
  <2> DEFINE t == req[h].ticket
             s == req[h].side
  <2>1. t \in Tickets /\ s \in Sides /\ req[h].pc = "offer"
    BY <1>5 DEF HandOver, Requests
  <2>2. \A g \in Handlers :
           /\ req'[g].side = req[g].side
           /\ req'[g].ticket = req[g].ticket
           /\ req'[g].pc = IF g = h THEN "wait" ELSE req[g].pc
    BY <1>5, GotoFact DEF HandOver
  <2>3. /\ run[t] = "pairing"
        /\ \A u \in Tickets, o \in Sides :
              held'[u][o] = IF u = t /\ o = s THEN h ELSE held[u][o]
        /\ \A u \in Tickets : u # t => run'[u] = run[u]
        /\ \/ /\ run'[t] = "pairing"
              /\ \A o \in Sides \ {s} : held[t][o] = NoHandler
           \/ /\ run'[t] = "copying"
              /\ \A o \in Sides \ {s} : held[t][o] # NoHandler
    BY <1>5, <2>1, SMTT(30) DEF HandOver
  <2>4. h # NoHandler /\ req[h].ticket = t /\ req[h].side = s
    OBVIOUS
  <2> HIDE DEF t, s
  <2>5. ASSUME NEW u \in Tickets, NEW o \in Sides
        PROVE  /\ run'[u] = "unborn" => held'[u][o] = NoHandler
               /\ /\ held'[u][o] # NoHandler
                  /\ \/ run'[u] \in {"pairing", "copying"}
                     \/ run'[u] = "answerPut" /\ o = "PUT"
                  => Waits(held[u][o], u, o)'
    <3>1. CASE u = t /\ o = s
      <4>1. held'[u][o] = h /\ run'[u] # "unborn"
        BY <2>3, <3>1
      <4>2. /\ req'[h].pc = "wait" /\ req'[h].ticket = t
            /\ req'[h].side = s
        BY <2>2, <2>4
      <4> QED BY <3>1, <4>1, <4>2 DEF Waits
    <3>2. CASE ~(u = t /\ o = s)
      <4>1. held'[u][o] = held[u][o]
        BY <2>3, <3>2
      <4>2. /\ run'[u] = "unborn" => run[u] = "unborn"
            /\ run'[u] \in {"pairing", "copying"} =>
                  run[u] \in {"pairing", "copying"}
            /\ run'[u] = "answerPut" => run[u] = "answerPut"
        BY <2>3
      <4>3. ASSUME NEW g \in Handlers, Waits(g, u, o)
            PROVE  Waits(g, u, o)'
        BY <2>1, <2>2, <4>3 DEF Waits
      <4>4. held[u][o] \in Handlers \cup {NoHandler}
        OBVIOUS
      <4> QED BY <4>1, <4>2, <4>3, <4>4 DEF Received
    <3> QED BY <3>1, <3>2
  <2>6. ASSUME NEW u \in Tickets
        PROVE  /\ run'[u] = "pairing" =>
                     held'[u]["PUT"] = NoHandler \/ held'[u]["GET"] = NoHandler
               /\ run'[u] \in {"copying", "answerPut"} =>
                     held'[u]["PUT"] # NoHandler /\ held'[u]["GET"] # NoHandler
    <3>1. CASE u = t
      BY <2>1, <2>3, <2>4, <3>1
    <3>2. CASE u # t
      BY <2>3, <3>2
    <3> QED BY <3>1, <3>2
  <2> QED BY <2>5, <2>6 DEF Received
<1>6. ASSUME NEW h \in Handlers, OfferGone(h) PROVE Received'
  BY <1>6, ReturnFact, SMTT(30) DEF OfferGone
<1>7. ASSUME NEW t \in Tickets, Expire(t) PROVE Received'
  BY <1>7, AnswerFact, SMTT(30) DEF Expire, Held
<1>8. ASSUME NEW t \in Tickets, AnswerGet(t) PROVE Received'
  <2>1. Answer({held[t]["GET"]}, "streamed")
    BY <1>8 DEF AnswerGet
  <2>2. \A g \in Handlers :
           /\ req'[g].side = req[g].side
           /\ req'[g].ticket = req[g].ticket
           /\ req'[g].pc = IF g \in {held[t]["GET"]} THEN "returned"
                           ELSE req[g].pc
    BY <2>1, AnswerFact
  <2>3. ASSUME NEW u \in Tickets, NEW s \in Sides,
               held[u][s] # NoHandler,
               \/ run[u] \in {"pairing", "copying"}
               \/ run[u] = "answerPut" /\ s = "PUT",
               held[u][s] = held[t]["GET"]
        PROVE  u = t /\ s = "GET"
    BY <1>8, <2>3 DEF AnswerGet
  <2>4. ASSUME NEW u \in Tickets, NEW s \in Sides,
               held[u][s] # NoHandler,
               \/ run'[u] \in {"pairing", "copying"}
               \/ run'[u] = "answerPut" /\ s = "PUT"
        PROVE  Waits(held[u][s], u, s)'
    BY <1>8, <2>2, <2>3, <2>4, SMTT(30) DEF AnswerGet
  <2> QED BY <1>8, <2>4, SMTT(30) DEF AnswerGet
<1>9. ASSUME NEW t \in Tickets, AnswerPut(t) PROVE Received'
  BY <1>9, AnswerFact, SMTT(30) DEF AnswerPut
<1>10. ASSUME NEW t \in Tickets, Cleanup(t) PROVE Received'
  BY <1>10, SMTT(30) DEF Cleanup
<1>11. ASSUME NEW t \in Tickets, CloseDone(t) PROVE Received'
  BY <1>11, SMTT(30) DEF CloseDone
<1>12. CASE UNCHANGED vars
  BY <1>12 DEF vars
<1> HIDE DEF TypeOK, Claimed, Received, registry, pairing, Sides, Held
<1> QED
  BY <1>1, <1>2, <1>3, <1>4, <1>5, <1>6, <1>7, <1>8, <1>9, <1>10, <1>11, <1>12
  DEF Next, Accept, Run

\* The ticket leaves the map when run is through with its requests.
LEMMA MappedStep ==
    ASSUME TypeOK, Mapped, Received, [Next]_vars
    PROVE  Mapped'
<1> USE RelayAssumption
        DEF TypeOK, Sides, RunSteps, HandlerSteps, Answers, registry, pairing,
            Mapped, Received, Waits, Held
<1>1. ASSUME NEW t \in Tickets, NEW w \in Workspaces, Create(t, w)
      PROVE Mapped'
  BY <1>1 DEF Create
<1>2. ASSUME NEW h \in Handlers, NEW s \in Sides,
            NEW t \in Tickets, Lookup(h, s, t)
      PROVE Mapped'
  BY <1>2 DEF Lookup, Requests
<1>3. ASSUME NEW h \in Handlers, Claim(h) PROVE Mapped'
  BY <1>3, GotoFact, ReturnFact DEF Claim
<1>4. ASSUME NEW h \in Handlers, CheckDone(h) PROVE Mapped'
  BY <1>4, GotoFact, ReturnFact DEF CheckDone
<1>5. ASSUME NEW h \in Handlers, HandOver(h) PROVE Mapped'
  BY <1>5, GotoFact DEF HandOver
<1>6. ASSUME NEW h \in Handlers, OfferGone(h) PROVE Mapped'
  BY <1>6, ReturnFact DEF OfferGone
<1>7. ASSUME NEW t \in Tickets, Expire(t) PROVE Mapped'
  BY <1>7, AnswerFact DEF Expire, Held
<1>8. ASSUME NEW t \in Tickets, AnswerGet(t) PROVE Mapped'
  BY <1>8, AnswerFact DEF AnswerGet
<1>9. ASSUME NEW t \in Tickets, AnswerPut(t) PROVE Mapped'
  BY <1>9, AnswerFact DEF AnswerPut
<1>10. ASSUME NEW t \in Tickets, Cleanup(t) PROVE Mapped'
  BY <1>10 DEF Cleanup
<1>11. ASSUME NEW t \in Tickets, CloseDone(t) PROVE Mapped'
  BY <1>11 DEF CloseDone
<1>12. CASE UNCHANGED vars
  BY <1>12 DEF vars
<1> QED
  BY <1>1, <1>2, <1>3, <1>4, <1>5, <1>6, <1>7, <1>8, <1>9, <1>10, <1>11, <1>12
  DEF Next, Accept, Run

\* A request starts to wait in the step in which run receives it, and every
\* step with which run moves on answers whom it leaves behind.
LEMMA WaitingStep ==
    ASSUME TypeOK, Claimed, Received, WaitingIsHeld, [Next]_vars
    PROVE  WaitingIsHeld'
<1> USE RelayAssumption
        DEF TypeOK, Sides, RunSteps, HandlerSteps, Answers, registry, pairing,
            Claimed, Entered, Received, Waits, Held, WaitingIsHeld
<1>1. ASSUME NEW t \in Tickets, NEW w \in Workspaces, Create(t, w)
      PROVE WaitingIsHeld'
  BY <1>1 DEF Create
<1>2. ASSUME NEW h \in Handlers, NEW s \in Sides,
            NEW t \in Tickets, Lookup(h, s, t)
      PROVE WaitingIsHeld'
  BY <1>2 DEF Lookup, Requests
<1>3. ASSUME NEW h \in Handlers, Claim(h) PROVE WaitingIsHeld'
  BY <1>3, GotoFact, ReturnFact, SMTT(30) DEF Claim
<1>4. ASSUME NEW h \in Handlers, CheckDone(h) PROVE WaitingIsHeld'
  BY <1>4, GotoFact, ReturnFact, SMTT(30) DEF CheckDone
<1>5. ASSUME NEW h \in Handlers, HandOver(h) PROVE WaitingIsHeld'
  BY <1>5, GotoFact, SMTT(30) DEF HandOver
<1>6. ASSUME NEW h \in Handlers, OfferGone(h) PROVE WaitingIsHeld'
  BY <1>6, ReturnFact, SMTT(30) DEF OfferGone
<1>7. ASSUME NEW t \in Tickets, Expire(t) PROVE WaitingIsHeld'
  BY <1>7, AnswerFact, SMTT(30) DEF Expire, Held
<1>8. ASSUME NEW t \in Tickets, AnswerGet(t) PROVE WaitingIsHeld'
  BY <1>8, AnswerFact, SMTT(30) DEF AnswerGet
<1>9. ASSUME NEW t \in Tickets, AnswerPut(t) PROVE WaitingIsHeld'
  BY <1>9, AnswerFact, SMTT(30) DEF AnswerPut
<1>10. ASSUME NEW t \in Tickets, Cleanup(t) PROVE WaitingIsHeld'
  BY <1>10 DEF Cleanup
<1>11. ASSUME NEW t \in Tickets, CloseDone(t) PROVE WaitingIsHeld'
  BY <1>11 DEF CloseDone
<1>12. CASE UNCHANGED vars
  BY <1>12 DEF vars
<1> QED
  BY <1>1, <1>2, <1>3, <1>4, <1>5, <1>6, <1>7, <1>8, <1>9, <1>10, <1>11, <1>12
  DEF Next, Accept, Run

\* The cap is counted under the mutex with the map: a step changes both or
\* neither.
LEMMA CapStep ==
    ASSUME TypeOK, Mapped, CapExact, [Next]_vars
    PROVE  CapExact'
<1> USE RelayAssumption DEF TypeOK, registry
<1>0. \A v \in Workspaces :
         /\ IsFiniteSet(Minted(v)) /\ count[v] = Cardinality(Minted(v))
         /\ count[v] <= MaxPerWorkspace
  BY FS_Subset DEF CapExact, Minted
<1>1. ASSUME NEW t \in Tickets, NEW w \in Workspaces, Create(t, w)
      PROVE CapExact'
  <2>1. t \notin tickets /\ tickets' = tickets \cup {t}
          /\ owner' = [owner EXCEPT ![t] = w]
    BY <1>1 DEF Create, Mapped
  <2>2. ASSUME NEW v \in Workspaces
        PROVE  /\ count'[v] = Cardinality(Minted(v)')
               /\ count'[v] <= MaxPerWorkspace
    <3>1. CASE v = w
      <4>1. Minted(v)' = Minted(v) \cup {t} /\ t \notin Minted(v)
        BY <2>1, <3>1 DEF Minted
      <4>2. Cardinality(Minted(v) \cup {t}) = Cardinality(Minted(v)) + 1
        BY <4>1, <1>0, FS_AddElement
      <4>3. count'[v] = count[v] + 1 /\ count[v] < MaxPerWorkspace
        BY <1>1, <3>1 DEF Create
      <4> QED BY <4>1, <4>2, <4>3, <1>0
    <3>2. CASE v # w
      <4>1. Minted(v)' = Minted(v)
        BY <2>1, <3>2 DEF Minted
      <4>2. count'[v] = count[v]
        BY <1>1, <3>2 DEF Create
      <4> QED BY <4>1, <4>2, <1>0
    <3> QED BY <3>1, <3>2
  <2> QED BY <2>2 DEF CapExact
<1>2. ASSUME NEW t \in Tickets, Cleanup(t) PROVE CapExact'
  <2>1. t \in tickets /\ tickets' = tickets \ {t} /\ owner' = owner
          /\ count' = [count EXCEPT ![owner[t]] = @ - 1]
    BY <1>2 DEF Cleanup, Mapped
  <2>2. ASSUME NEW v \in Workspaces
        PROVE  /\ count'[v] = Cardinality(Minted(v)')
               /\ count'[v] <= MaxPerWorkspace
    <3>1. CASE v = owner[t]
      <4>1. Minted(v)' = Minted(v) \ {t} /\ t \in Minted(v)
        BY <2>1, <3>1 DEF Minted
      <4>2. Cardinality(Minted(v) \ {t}) = Cardinality(Minted(v)) - 1
        BY <4>1, <1>0, FS_RemoveElement
      <4>3. count'[v] = count[v] - 1
        BY <2>1, <3>1
      <4> QED BY <4>1, <4>2, <4>3, <1>0
    <3>2. CASE v # owner[t]
      <4>1. Minted(v)' = Minted(v)
        BY <2>1, <3>2 DEF Minted
      <4>2. count'[v] = count[v]
        BY <2>1, <3>2
      <4> QED BY <4>1, <4>2, <1>0
    <3> QED BY <3>1, <3>2
  <2> QED BY <2>2 DEF CapExact
<1>3. CASE UNCHANGED registry
  <2>1. count' = count /\ \A v \in Workspaces : Minted(v)' = Minted(v)
    BY <1>3 DEF Minted
  <2> QED BY <2>1 DEF CapExact
<1> QED
  BY <1>1, <1>2, <1>3
  DEF Next, Accept, Run, vars, Lookup, Claim, CheckDone, HandOver, OfferGone,
      Expire, AnswerGet, AnswerPut, CloseDone

-----------------------------------------------------------------------------
(* Refinement *)

\* A registry without relays is a session without tickets.
LEMMA SessionInitially == Init => Session!SessionInit
  BY DEF Init, Session!SessionInit, Session!NoPair, Phase, Pair, Sides

\* The tickets that the session counts are those in the map.
LEMMA OutstandingInMap ==
    ASSUME TypeOK, Mapped, NEW w \in Workspaces
    PROVE  Session!Outstanding(w) = Minted(w)
<1>1. \A t \in Tickets : Phase(t) \in {"open", "paired"} <=> t \in tickets
  BY DEF TypeOK, Mapped, Phase, RunSteps
<1> QED BY <1>1 DEF Session!Outstanding, TypeOK, Minted

\* The instance has a copy of the standard module.
LEMMA SameCardinality ==
    ASSUME NEW S PROVE Session!Cardinality(S) = Cardinality(S)
  BY Zenon DEF Session!Cardinality, Cardinality

\* A step that changes neither the phase nor the pair of a ticket stutters.
LEMMA SessionStutters ==
    ASSUME UNCHANGED owner,
           \A u \in Tickets : Phase(u)' = Phase(u) /\ Pair(u)' = Pair(u)
    PROVE  UNCHANGED Session!svars
  BY DEF Session!svars

\* Every step of the relay is one of the session, or none of its business.
LEMMA SessionStep ==
    ASSUME TypeOK, Claimed, Received, Mapped, CapExact, [Next]_vars
    PROVE  [Session!SessionNext]_(Session!svars)
<1> USE RelayAssumption DEF TypeOK, Sides, RunSteps, registry, pairing
<1> DEFINE same(u) == Phase(u)' = Phase(u) /\ Pair(u)' = Pair(u)
<1>1. ASSUME NEW t \in Tickets, NEW w \in Workspaces, Create(t, w)
      PROVE Session!Mint(t, w)
  <2>1. Phase(t) = "unborn" /\ Phase(t)' = "open"
    BY <1>1 DEF Create, Phase
  <2>2. \A u \in Tickets : u # t => Phase(u)' = Phase(u)
    BY <1>1 DEF Create, Phase
  <2>3. \A u \in Tickets : Pair(u)' = Pair(u)
    BY <1>1 DEF Create, Pair
  <2>4. Session!Cardinality(Session!Outstanding(w)) < MaxPerWorkspace
    BY <1>1, OutstandingInMap, SameCardinality DEF Create, CapExact
  <2>5. owner' = [owner EXCEPT ![t] = w]
    BY <1>1 DEF Create
  <2>6. [u \in Tickets |-> Phase(u)]' =
            [[u \in Tickets |-> Phase(u)] EXCEPT ![t] = "open"]
    BY <2>1, <2>2
  <2> QED BY <2>1, <2>3, <2>4, <2>5, <2>6 DEF Session!Mint
<1>2. ASSUME NEW h \in Handlers, NEW t \in Tickets, req[h].side \in Sides,
             HandOver(h), t = req[h].ticket, run'[t] = "copying"
      PROVE \E p, g \in Handlers : Session!Meet(t, p, g)
  <2>1. /\ run[t] = "pairing"
        /\ held'[t]["PUT"] \in Handlers /\ held'[t]["GET"] \in Handlers
    BY <1>2 DEF HandOver
  <2>2. PICK p \in Handlers, g \in Handlers :
           p = held'[t]["PUT"] /\ g = held'[t]["GET"]
    BY <2>1
  <2>3. p # g
    BY <1>2, <2>2 DEF HandOver, Received, Waits
  <2>4. \A u \in Tickets : u # t => same(u)
    BY <1>2 DEF HandOver, Phase, Pair
  <2>5. UNCHANGED owner
    BY <1>2 DEF HandOver
  <2>6. Phase(t) = "open" /\ Phase(t)' = "paired"
    BY <1>2, <2>1 DEF Phase
  <2>7. Pair(t)' = <<p, g>>
    BY <2>2 DEF Pair
  <2>8. /\ [u \in Tickets |-> Phase(u)]' =
              [[u \in Tickets |-> Phase(u)] EXCEPT ![t] = "paired"]
        /\ [u \in Tickets |-> Pair(u)]' =
              [[u \in Tickets |-> Pair(u)] EXCEPT ![t] = <<p, g>>]
    BY <2>4, <2>6, <2>7
  <2> QED BY <2>3, <2>5, <2>6, <2>8 DEF Session!Meet
<1>3. ASSUME NEW h \in Handlers, HandOver(h),
             req[h].ticket \in Tickets, req[h].side \in Sides,
             run'[req[h].ticket] # "copying"
      PROVE UNCHANGED Session!svars
  <2>1. \A u \in Tickets : Phase(u)' = Phase(u)
    BY <1>3 DEF HandOver, Phase
  <2>2. \A u \in Tickets : Pair(u)' = Pair(u)
    BY <1>3 DEF HandOver, Pair
  <2>3. UNCHANGED owner
    BY <1>3 DEF HandOver
  <2> QED BY <2>1, <2>2, <2>3, SessionStutters
<1>4. ASSUME NEW t \in Tickets, Cleanup(t) PROVE Session!End(t)
  <2>1. Phase(t) \in {"open", "paired"} /\ Phase(t)' = "over"
    BY <1>4 DEF Cleanup, Phase
  <2>2. \A u \in Tickets : u # t => Phase(u)' = Phase(u)
    BY <1>4 DEF Cleanup, Phase
  <2>3. \A u \in Tickets : Pair(u)' = Pair(u)
    BY <1>4 DEF Cleanup, Pair
  <2>4. UNCHANGED owner
    BY <1>4 DEF Cleanup
  <2> QED BY <2>1, <2>2, <2>3, <2>4 DEF Session!End
<1>5. ASSUME NEW t \in Tickets,
             Expire(t) \/ AnswerGet(t) \/ AnswerPut(t) \/ CloseDone(t)
      PROVE UNCHANGED Session!svars
  <2>1. \A u \in Tickets : Phase(u)' = Phase(u)
    BY <1>5 DEF Expire, AnswerGet, AnswerPut, CloseDone, Phase, Mapped
  <2>2. \A u \in Tickets : Pair(u)' = Pair(u)
    BY <1>5 DEF Expire, AnswerGet, AnswerPut, CloseDone, Pair
  <2>3. UNCHANGED owner
    BY <1>5 DEF Expire, AnswerGet, AnswerPut, CloseDone
  <2> QED BY <2>1, <2>2, <2>3, SessionStutters
<1>6. ASSUME UNCHANGED <<run, owner, held, err>> PROVE UNCHANGED Session!svars
  <2>1. \A u \in Tickets : same(u)
    BY <1>6 DEF Phase, Pair
  <2> QED BY <1>6, <2>1, SessionStutters
<1>7. \A h \in Handlers :
         HandOver(h) => req[h].ticket \in Tickets /\ req[h].side \in Sides
  BY DEF HandOver, Claimed, Requests
<1>8. (\E h \in Handlers, s \in Sides, t \in Tickets : Lookup(h, s, t))
         \/ (\E h \in Handlers : Claim(h) \/ CheckDone(h) \/ OfferGone(h))
         \/ UNCHANGED vars
      => UNCHANGED <<run, owner, held, err>>
  BY DEF Lookup, Claim, CheckDone, OfferGone, vars
<1>9. (\E t \in Tickets, w \in Workspaces : Create(t, w)) => Session!SessionNext
  BY <1>1 DEF Session!SessionNext
<1>10. (\E t \in Tickets : Cleanup(t)) => Session!SessionNext
  BY <1>4 DEF Session!SessionNext
<1>11. (\E h \in Handlers : HandOver(h)) =>
          Session!SessionNext \/ UNCHANGED Session!svars
  BY <1>2, <1>3, <1>7 DEF Session!SessionNext
<1> QED
  BY <1>5, <1>6, <1>8, <1>9, <1>10, <1>11 DEF Next, Accept, Run

-----------------------------------------------------------------------------
(* Theorems *)

\* Without tickets and requests there is nothing to go wrong.
LEMMA InitIInv == Init => IInv
<1> SUFFICES ASSUME Init PROVE IInv
  OBVIOUS
<1> USE RelayAssumption DEF Init, Sides
<1>1. TypeOK
  BY DEF TypeOK, RunSteps, HandlerSteps, Answers, NewRequest, Requests
<1>2. Claimed
  BY DEF Claimed, NewRequest, Entered
<1>3. Received /\ Mapped
  BY DEF Received, Mapped
<1>4. WaitingIsHeld
  BY DEF WaitingIsHeld, NewRequest
<1>5. CapExact
  <2>1. \A w \in Workspaces : Minted(w) = {}
    BY DEF Minted
  <2> QED BY <2>1, FS_EmptySet DEF CapExact
<1> QED BY <1>1, <1>2, <1>3, <1>4, <1>5 DEF IInv

\* IInv is an invariant.
THEOREM Invariance == Spec => []IInv
<1>1. IInv /\ [Next]_vars => IInv'
  BY TypeStep, ClaimedStep, ReceivedStep, MappedStep, WaitingStep, CapStep
     DEF IInv
<1> QED BY InitIInv, <1>1, PTL DEF Spec

\* The types are right in every reachable state.
THEOREM TypeCorrect == Spec => []TypeOK
<1>1. IInv => TypeOK BY DEF IInv
<1> QED BY Invariance, <1>1, PTL

\* No request waits for a run that has given up on it.
THEOREM NobodyForgotten == Spec => []WaitingIsHeld
<1>1. IInv => WaitingIsHeld BY DEF IInv
<1> QED BY Invariance, <1>1, PTL

\* No slot of a workspace's cap is lost or gained.
THEOREM CapIsExact == Spec => []CapExact
<1>1. IInv => CapExact BY DEF IInv
<1> QED BY Invariance, <1>1, PTL

\* The relay implements its session.
THEOREM Refinement == Spec => ImplementsSession
<1>1. Init => Session!SessionInit
  BY SessionInitially
<1>2. IInv /\ [Next]_vars => [Session!SessionNext]_(Session!svars)
  BY SessionStep DEF IInv
<1> QED
  BY Invariance, <1>1, <1>2, PTL
  DEF Spec, ImplementsSession, Session!SessionSpec
=============================================================================
