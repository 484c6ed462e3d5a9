------------------------- MODULE RefineAttemptProofs -------------------------
(***************************************************************************)
(* What a refactor call costs and hands on, for any agent, providers,      *)
(* token counts and number of calls: the rungs of the chain one by one.    *)
(***************************************************************************)
EXTENDS RefineAttempt, ListLemmas, FiniteSetTheorems, TLAPS

-----------------------------------------------------------------------------
(* The inductive invariant. *)

Fields == {"diff", "infra", "cost", "cards", "by"}

Shape ==
    /\ kind \in Kinds /\ IsList(ran) /\ DOMAIN got = Fields
    /\ \A k \in DOMAIN ran : ran[k].cost \in Nat \cup {None}

(* What the rungs have cost: None only where no rung says. *)
Total(rungs) == IF \A k \in DOMAIN rungs : rungs[k].cost = None THEN None ELSE Cardinality(Tokens(rungs))
CostOK ==
    /\ IsFiniteSet(Tokens(ran))
    /\ stage \in {"rung", "returned"} => got.cost = Total(ran)

(* The chain has come to its rung by infra failures, and ends on one only at its end. *)
ChainOK ==
    /\ stage = "rung" => rung = Len(ran) + 1 /\ rung <= Len(Chain) /\ \A k \in DOMAIN ran : ran[k].infra
    /\ stage = "returned" =>
          /\ \A k \in DOMAIN ran : k < Len(ran) => ran[k].infra
          /\ got.infra => Len(ran) = Len(Chain)

Inv == Shape /\ CostOK /\ ChainOK /\ NothingLeaks

-----------------------------------------------------------------------------
(* The tokens. *)

(* A rung more costs what it says, on top of what the others did. *)
LEMMA TokensAppend ==
    ASSUME NEW rungs, IsList(rungs), IsFiniteSet(Tokens(rungs)), NEW r, r.cost \in Nat \cup {None}
    PROVE  /\ IsFiniteSet(Tokens(Append(rungs, r)))
           /\ Cardinality(Tokens(rungs)) \in Nat
           /\ Cardinality(Tokens(Append(rungs, r)))
                = Cardinality(Tokens(rungs)) + IF r.cost = None THEN 0 ELSE r.cost
<1> DEFINE more == Append(rungs, r)
           next == Len(rungs) + 1
           new  == {next} \X (1..r.cost)
<1>1. /\ Len(rungs) \in Nat /\ DOMAIN rungs = 1..Len(rungs) /\ DOMAIN more = 1..next
      /\ \A k \in DOMAIN rungs : more[k] = rungs[k]
      /\ more[next] = r
  BY Appended
<1>2. Cardinality(Tokens(rungs)) \in Nat
  BY FS_CardinalityType
<1>3. CASE r.cost = None
  <2>1. {j \in DOMAIN more : more[j].cost # None} = {j \in DOMAIN rungs : rungs[j].cost # None}
    <3> HIDE DEF more
    <3> QED BY <1>1, <1>3
  <2>2. Tokens(more) = Tokens(rungs)
    <3> HIDE DEF more
    <3> QED BY <1>1, <2>1 DEF Tokens
  <2> QED BY <1>2, <1>3, <2>2
<1>4. CASE r.cost # None
  <2>1. r.cost \in Nat
    BY <1>4
  <2>2. {j \in DOMAIN more : more[j].cost # None} = {j \in DOMAIN rungs : rungs[j].cost # None} \cup {next}
    <3> HIDE DEF more
    <3> QED BY <1>1, <1>4
  <2>3. Tokens(more) = Tokens(rungs) \cup new
    <3> HIDE DEF more, next
    <3> QED BY <1>1, <2>2 DEF Tokens
  <2>4. Tokens(rungs) \cap new = {}
    <3>1. next \notin DOMAIN rungs
      BY <1>1
    <3> HIDE DEF next
    <3> QED BY <3>1 DEF Tokens
  <2>5. IsFiniteSet(new) /\ Cardinality(new) = r.cost
    <3>1. IsFiniteSet(1..r.cost) /\ Cardinality(1..r.cost) = r.cost
      BY <2>1, FS_Interval
    <3>2. IsFiniteSet({next}) /\ Cardinality({next}) = 1
      BY FS_Singleton
    <3> DEFINE here   == {next}
               counts == 1..r.cost
    <3>3. IsFiniteSet(here \X counts)
          /\ Cardinality(here \X counts) = Cardinality(here) * Cardinality(counts)
      <4>1. IsFiniteSet(here) /\ IsFiniteSet(counts)
        BY <3>1, <3>2
      <4> HIDE DEF here, counts
      <4> QED BY <4>1, FS_Product
    <3> QED BY <2>1, <3>1, <3>2, <3>3
  <2> HIDE DEF new, more
  <2>6. /\ IsFiniteSet(Tokens(rungs) \cup new)
        /\ Cardinality(Tokens(rungs) \cup new)
             = Cardinality(Tokens(rungs)) + Cardinality(new) - Cardinality({})
    BY <2>4, <2>5, FS_Union
  <2>7. Cardinality({}) = 0
    BY FS_EmptySet
  <2>8. Cardinality(Tokens(more)) = Cardinality(Tokens(rungs)) + r.cost
    BY <1>2, <2>1, <2>3, <2>5, <2>6, <2>7
  <2> QED BY <1>2, <1>4, <2>3, <2>6, <2>8 DEF more
<1> QED BY <1>3, <1>4

(* Nothing has been spent before the first rung. *)
LEMMA NoTokens == IsFiniteSet(Tokens(<<>>)) /\ Total(<<>>) = None
<1>1. Tokens(<<>>) = {}
  BY DEF Tokens
<1> QED BY <1>1, FS_EmptySet DEF Total

(* The account of a call that another rung has been added to. *)
LEMMA TotalAppend ==
    ASSUME NEW rungs, IsList(rungs), IsFiniteSet(Tokens(rungs)), NEW r, r.cost \in Nat \cup {None}
    PROVE  Total(Append(rungs, r)) = Account(Total(rungs), r.cost)
<1> DEFINE more == Append(rungs, r)
<1>1. /\ Len(rungs) \in Nat /\ DOMAIN rungs = 1..Len(rungs) /\ DOMAIN more = 1..(Len(rungs) + 1)
      /\ \A k \in DOMAIN rungs : more[k] = rungs[k]
      /\ more[Len(rungs) + 1] = r
  BY Appended
<1>2. /\ Cardinality(Tokens(rungs)) \in Nat
      /\ Cardinality(Tokens(more)) = Cardinality(Tokens(rungs)) + IF r.cost = None THEN 0 ELSE r.cost
  BY TokensAppend
<1> HIDE DEF more
<1>3. (\A k \in DOMAIN more : more[k].cost = None)
        <=> r.cost = None /\ \A k \in DOMAIN rungs : rungs[k].cost = None
  BY <1>1
<1>4. (\A k \in DOMAIN rungs : rungs[k].cost = None) => Cardinality(Tokens(rungs)) = 0
  <2> SUFFICES ASSUME \A k \in DOMAIN rungs : rungs[k].cost = None PROVE Tokens(rungs) = {}
    BY FS_EmptySet
  <2> QED BY DEF Tokens
<1>5. None \notin Nat
  BY UsagesAssumption
<1> QED BY <1>2, <1>3, <1>4, <1>5 DEF Total, Account, more
-----------------------------------------------------------------------------
(* The invariant is inductive. *)

(* What every rung comes to. *)
Outcome(by, wrote, r) ==
    /\ DOMAIN r = Fields /\ r.cost \in Nat \cup {None} /\ wrote \subseteq Paths
    /\ r.infra => r.diff = None
    /\ r.cards # <<>> => ~r.infra /\ by = "claude"
    /\ r.diff # None => dirty \cup wrote # {}

LEMMA RungStep ==
    ASSUME Inv, stage = "rung", NEW by, NEW wrote, NEW r, Outcome(by, wrote, r), Rung(by, wrote, r)
    PROVE  Inv'
<1>1. /\ dirty' = dirty \cup wrote /\ outside' = {}
      /\ ran' = Append(ran, r) /\ got' = ReadOff(got, r, by) /\ kind' = kind
      /\ \/ /\ r.diff = None /\ r.infra /\ rung < Len(Chain) /\ rung' = rung + 1 /\ stage' = "rung"
         \/ /\ ~(r.diff = None /\ r.infra /\ rung < Len(Chain))
            /\ stage' = "returned" /\ rung' = rung
  <2>1. wrote \cap Paths = wrote /\ wrote \ Paths = {} /\ outside = {}
    BY DEF Outcome, Inv, NothingLeaks
  <2> QED BY <2>1 DEF Rung
<1>2. /\ IsList(ran') /\ Len(ran) \in Nat /\ DOMAIN ran = 1..Len(ran)
      /\ Len(ran') = Len(ran) + 1 /\ DOMAIN ran' = 1..(Len(ran) + 1)
      /\ \A k \in DOMAIN ran : ran'[k] = ran[k]
      /\ ran'[Len(ran) + 1] = r
  BY <1>1, Appended DEF Inv, Shape
<1>3. /\ DOMAIN got' = Fields /\ got'.cost = Account(got.cost, r.cost) /\ got'.by = by
      /\ got'.diff = r.diff /\ got'.infra = r.infra /\ got'.cards = r.cards
  BY <1>1 DEF ReadOff, Outcome, Fields
<1>4. Shape'
  BY <1>1, <1>2, <1>3 DEF Inv, Shape, Outcome
<1>5. CostOK'
  <2>1. got.cost = Total(ran) /\ IsFiniteSet(Tokens(ran)) /\ IsList(ran)
    BY DEF Inv, CostOK, Shape
  <2>2. Total(ran') = Account(Total(ran), r.cost)
    BY <1>1, <2>1, TotalAppend DEF Outcome
  <2>3. IsFiniteSet(Tokens(ran'))
    BY <1>1, <2>1, TokensAppend DEF Outcome
  <2> QED BY <1>3, <2>1, <2>2, <2>3 DEF CostOK
<1>6. Len(Chain) \in Nat /\ Chain' = Chain
  BY <1>1 DEF Inv, Shape, Kinds, Chain, BuildLoopDeps
<1>7. rung = Len(ran) + 1 /\ rung <= Len(Chain) /\ \A k \in DOMAIN ran : ran[k].infra
  BY DEF Inv, ChainOK
<1>8. ChainOK'
  <2>1. CASE r.diff = None /\ r.infra /\ rung < Len(Chain) /\ rung' = rung + 1 /\ stage' = "rung"
    <3>1. \A k \in DOMAIN ran' : ran'[k].infra
      BY <1>2, <1>7, <2>1
    <3> QED BY <1>2, <1>6, <1>7, <2>1, <3>1 DEF ChainOK
  <2>2. CASE ~(r.diff = None /\ r.infra /\ rung < Len(Chain)) /\ stage' = "returned"
    <3>1. \A k \in DOMAIN ran' : k < Len(ran') => ran'[k].infra
      BY <1>2, <1>7
    <3>2. got'.infra => Len(ran') = Len(Chain)
      BY <1>2, <1>3, <1>6, <1>7, <2>2 DEF Outcome
    <3> QED BY <1>6, <2>2, <3>1, <3>2 DEF ChainOK
  <2> QED BY <1>1, <2>1, <2>2
<1>9. NothingLeaks'
  <2>1. Last(ran') = r
    BY <1>2 DEF Last
  <2> QED BY <1>1, <1>3, <2>1 DEF NothingLeaks, Outcome
<1> QED BY <1>4, <1>5, <1>8, <1>9 DEF Inv

(* The agent and the providers, whatever they do, come to an Outcome. *)
LEMMA Outcomes ==
    ASSUME Inv, RunClaude \/ NoContent \/ RunLLM \/ RunSpec
    PROVE  Inv'
<1>1. CASE RunClaude
  <2>1. PICK end \in {"ok", "failed", "missing"}, wrote \in SUBSET Paths, usage \in Usages, emitted \in Emissions :
           Rung("claude", wrote,
                [diff  |-> IF end = "ok" /\ Shows(wrote) THEN "diff" ELSE None,
                 infra |-> end # "ok", cost |-> usage, by |-> None,
                 cards |-> IF end = "ok" THEN ForkCardsFrom(emitted) ELSE <<>>])
    BY <1>1 DEF RunClaude
  <2> DEFINE r == [diff  |-> IF end = "ok" /\ Shows(wrote) THEN "diff" ELSE None,
                   infra |-> end # "ok", cost |-> usage, by |-> None,
                   cards |-> IF end = "ok" THEN ForkCardsFrom(emitted) ELSE <<>>]
  <2>2. Outcome("claude", wrote, r)
    <3>1. usage \in Nat \cup {None}
      BY UsagesAssumption
    <3>2. Shows(wrote) => dirty \cup wrote # {}
      BY DEF Shows
    <3> QED BY <3>1, <3>2 DEF Outcome, Fields
  <2>3. stage = "rung"
    BY <1>1 DEF RunClaude
  <2> HIDE DEF r
  <2>4. Rung("claude", wrote, r)
    BY <2>1 DEF r
  <2> QED BY <2>2, <2>3, <2>4, RungStep
<1>2. CASE NoContent
  <2> DEFINE r == [Nothing EXCEPT !.infra = TRUE]
  <2>1. PICK by : Rung(by, {}, r)
    BY <1>2 DEF NoContent
  <2>2. Outcome(by, {}, r)
    BY DEF Outcome, Fields, Nothing
  <2>3. stage = "rung"
    BY <1>2 DEF NoContent
  <2> HIDE DEF r
  <2> QED BY <2>1, <2>2, <2>3, RungStep
<1>3. CASE RunLLM
  <2> DEFINE R(edits) == [Nothing EXCEPT !.diff = IF Applied(edits) = {} THEN None
                                                  ELSE IF Shows(Applied(edits)) THEN "diff" ELSE "applied"]
  <2>1. PICK provider \in Range(DefaultChain), edits \in SUBSET Targets :
           Rung(LLMName(provider), Applied(edits), R(edits))
    BY <1>3 DEF RunLLM
  <2>2. Outcome(LLMName(provider), Applied(edits), R(edits))
    <3>1. Applied(edits) \subseteq Paths
      BY DEF Applied
    <3>2. R(edits).diff # None => Applied(edits) # {}
      BY DEF Nothing
    <3> QED BY <3>1, <3>2 DEF Outcome, Fields, Nothing
  <2>3. stage = "rung"
    BY <1>3 DEF RunLLM
  <2> HIDE DEF R
  <2> QED BY <2>1, <2>2, <2>3, RungStep
<1>4. CASE RunSpec
  <2> DEFINE R(end, wrote) ==
               [Nothing EXCEPT !.infra = end # "ok",
                               !.diff = IF end = "ok" /\ wrote # {} THEN "spec-edited" ELSE None]
  <2>1. PICK end \in {"ok", "failed", "unwired"}, wrote \in SUBSET {"src"} :
           Rung("spec-refiner", wrote, R(end, wrote))
    BY <1>4 DEF RunSpec
  <2>2. Outcome("spec-refiner", wrote, R(end, wrote))
    <3>1. wrote \subseteq Paths
      BY DEF Paths
    <3> QED BY <3>1 DEF Outcome, Fields, Nothing
  <2>3. stage = "rung"
    BY <1>4 DEF RunSpec
  <2> HIDE DEF R
  <2> QED BY <2>1, <2>2, <2>3, RungStep
<1> QED BY <1>1, <1>2, <1>3, <1>4

(* A call opens with nothing run and nothing spent. *)
LEMMA Opened ==
    ASSUME Inv, stage' = "rung", rung' = 1, ran' = <<>>, got' = [got EXCEPT !.cost = None],
           UNCHANGED <<kind, outside>>
    PROVE  Inv'
<1>1. DOMAIN got' = Fields /\ got'.cost = None
  BY DEF Inv, Shape, Fields
<1>2. IsList(<<>>) /\ Len(<<>>) = 0 /\ DOMAIN <<>> = {}
  BY DEF IsList
<1>3. Shape'
  BY <1>1, <1>2 DEF Inv, Shape, IsList
<1>4. CostOK'
  BY <1>1, NoTokens DEF CostOK
<1>5. 1 <= Len(Chain')
  BY DEF Inv, Shape, Kinds, Chain, BuildLoopDeps
<1>6. ChainOK'
  BY <1>2, <1>5 DEF ChainOK
<1>7. NothingLeaks'
  BY DEF Inv, NothingLeaks
<1> QED BY <1>3, <1>4, <1>6, <1>7 DEF Inv

(* Outside a call what the refiner said stands. *)
LEMMA Stands ==
    ASSUME Inv, UNCHANGED <<kind, rung, got, ran, outside>>, stage' \notin {"rung", "returned"}
    PROVE  Inv'
<1>1. Shape'
  BY DEF Inv, Shape, IsList
<1>2. CostOK'
  BY DEF Inv, CostOK, Tokens
<1>3. ChainOK' /\ NothingLeaks'
  BY DEF Inv, ChainOK, NothingLeaks
<1> QED BY <1>1, <1>2, <1>3 DEF Inv

LEMMA InvInit == Init => Inv
<1> SUFFICES ASSUME Init PROVE Inv
  OBVIOUS
<1>1. IsList(<<>>)
  BY DEF IsList
<1>2. Shape
  BY <1>1 DEF Init, Shape, Nothing, Fields
<1>3. CostOK
  BY NoTokens DEF Init, CostOK
<1> QED BY <1>2, <1>3 DEF Init, Inv, ChainOK, NothingLeaks

LEMMA InvNext ==
    ASSUME Inv, Next
    PROVE  Inv'
<1>1. CASE NewRun
  <2>1. IsList(<<>>)
    BY DEF IsList
  <2>2. Shape'
    BY <1>1, <2>1 DEF NewRun, Shape, IsList, Nothing, Fields
  <2>3. CostOK'
    BY <1>1, NoTokens DEF NewRun, CostOK
  <2>4. ChainOK' /\ NothingLeaks'
    BY <1>1 DEF NewRun, tool, Inv, ChainOK, NothingLeaks
  <2> QED BY <2>2, <2>3, <2>4 DEF Inv
<1>2. CASE Begin \/ Retry
  BY <1>2, Opened DEF Begin, Retry, tool
<1>3. CASE RaiseFromLLM
  BY <1>3, Stands DEF RaiseFromLLM, refiner
<1>4. CASE Judge \/ JudgeDocument
  BY <1>4, Stands DEF Judge, JudgeDocument, refiner, tool
<1>5. CASE Keep \/ HaltAtBaseline
  BY <1>5, Stands DEF Keep, HaltAtBaseline, refiner, tool
<1>6. CASE Undo
  BY <1>6, Stands DEF Undo, refiner
<1> QED BY <1>1, <1>2, <1>3, <1>4, <1>5, <1>6, Outcomes DEF Next

LEMMA InvStutter ==
    ASSUME Inv, UNCHANGED vars
    PROVE  Inv'
<1>1. UNCHANGED <<kind, stage, rung, got, ran, dirty, outside>>
  BY DEF vars, refiner, tool
<1>2. Shape'
  BY <1>1 DEF Inv, Shape, IsList
<1>3. CostOK'
  BY <1>1 DEF Inv, CostOK
<1>4. ChainOK' /\ NothingLeaks'
  BY <1>1 DEF Inv, ChainOK, NothingLeaks, Chain
<1> QED BY <1>2, <1>3, <1>4 DEF Inv

LEMMA AlwaysInv == Spec => []Inv
<1>1. Inv /\ [Next]_vars => Inv'
  BY InvNext, InvStutter
<1> QED BY <1>1, InvInit, PTL DEF Spec

-----------------------------------------------------------------------------
(* The theorems. *)

(* The token gate sees what a call cost, its failed rungs included, and a call
   that reports an infra failure has tried every rung (ChainedRefiner.refactor),
   whatever the agent's envelopes say. *)
THEOREM AccountTheorem == Spec => []CallIsAccounted
<1>1. Inv => CallIsAccounted
  BY DEF Inv, CostOK, ChainOK, Total, Spent, CallIsAccounted
<1> QED BY <1>1, AlwaysInv, PTL

(* What reaches the controller is of the rung that gave the result, and nothing
   is ever written outside the tool, whatever is asked to be. *)
THEOREM LeakTheorem == Spec => []NothingLeaks
<1>1. Inv => NothingLeaks
  BY DEF Inv
<1> QED BY <1>1, AlwaysInv, PTL
=============================================================================
