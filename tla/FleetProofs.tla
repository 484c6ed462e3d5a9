----------------------------- MODULE FleetProofs -----------------------------
(***************************************************************************)
(* Theorems about the fleet, for every set of items, every set of graphs,  *)
(* any number of humans and of calls of run_fleet.                         *)
(***************************************************************************)
EXTENDS FleetRefinement, FiniteSetTheorems, WellFoundedInduction, TLAPS

(* A loop over a set of rows starts with one of them: ids are naturals. *)
LEMMA LeastIsIn ==
    ASSUME NEW S, S \subseteq Items, S # {}
    PROVE  Least(S) \in S
<1>1. S \subseteq Nat
  BY ItemsAssumption
<1>2. \E x \in S : \A y \in S : ~ (<<y, x>> \in OpToRel(<, Nat))
  BY <1>1, WFMin, NatLessThanWellFounded
<1>3. \A x, y \in S : <<y, x>> \in OpToRel(<, Nat) <=> y < x
  BY <1>1 DEF OpToRel
<1>4. \E x \in S : \A y \in S : ~ (y < x)
  BY <1>2, <1>3, Zenon
<1>5. \E x \in S : \A y \in S : x <= y
  BY <1>1, <1>4
<1> QED BY <1>5 DEF Least

(* The guard of the store lets a row go from a status to a status, never to
   pending nor away from converged, and changes one row only. *)
LEMMA GuardedStep ==
    ASSUME NEW i \in Items, NEW dst, status \in [Items -> Statuses], SetStatus(i, dst)
    PROVE  /\ status' \in [Items -> Statuses] /\ status'[i] = dst
           /\ dst \in Statuses /\ dst \in Targets(status[i]) /\ dst # "pending" /\ status[i] # "converged"
           /\ dst = "running" => status[i] \in {"pending", "escalated"}
           /\ dst \in {"converged", "stopped", "blocked", "escalated"}
                 => status[i] \in {"running", "stopped", "blocked"}
           /\ dst = "converged" => status[i] = "running"
           /\ dst = "blocked_on_dep" => status[i] = "pending"
           /\ \A j \in Items \ {i} : status'[j] = status[j]
<1>1. status[i] \in Statuses /\ dst \in Targets(status[i])
  BY DEF SetStatus, Legal
<1> QED BY <1>1 DEF SetStatus, Legal, Targets, Statuses

(* The graph is known to be sound, or nobody has begun. *)
GraphOK ==
    \/ \A i \in Items : deps[i] \subseteq Items
    \/ (\A a \in Actors : pc[a] = "idle") /\ (\A i \in Items : status[i] = "pending")

(* Who applies results has one for every item it has still to go through. *)
ResultsOK ==
    \A a \in Actors : pc[a] = "apply" => \A i \in todo[a] : result[a][i] \in Results

(* The initial rows and locals are well typed. *)
LEMMA InitType == Init => TypeOK /\ GraphOK /\ ResultsOK
<1> SUFFICES ASSUME Init PROVE TypeOK /\ GraphOK /\ ResultsOK
  OBVIOUS
<1>1. /\ NoRows \in [status : [Items -> Statuses], outcome : [Items -> Results \cup {None}]]
      /\ NoResults \in [Items -> Results \cup {None}]
  BY DEF NoRows, NoResults, Statuses
<1>2. TypeOK
  <2>1. /\ status \in [Items -> Statuses] /\ outcome \in [Items -> Results \cup {None}]
        /\ starts \in 0..MaxStarts
    BY <1>1, FlagsAssumption DEF Init
  <2>2. /\ wave \in [Actors -> SUBSET Items] /\ todo \in [Actors -> SUBSET Items]
        /\ handed \in [Items -> SUBSET (Items \X Results)]
    BY DEF Init
  <2> QED BY <1>1, <2>1, <2>2 DEF Init, TypeOK
<1>3. GraphOK
  BY DEF Init, GraphOK, NoRows
<1> QED BY <1>2, <1>3 DEF Init, ResultsOK

(* The type of what a call leaves behind when it unwinds. *)
LEMMA UnwindType ==
    ASSUME TypeOK, NEW a \in Actors, Unwind(a)
    PROVE  TypeOK'
BY DEF TypeOK, Unwind, Goto, Take, Forget, NoRows, NoResults, Statuses, storeVars

(* Every step of an actor that works on items keeps the types. *)
LEMMA WorkType ==
    ASSUME TypeOK, GraphOK, NEW a \in Actors, Work(a)
    PROVE  TypeOK'
<1> USE DEF storeVars, actorVars
<1>1. /\ status \in [Items -> Statuses] /\ todo[a] \subseteq Items /\ wave[a] \subseteq Items
      /\ pc[a] # "idle" /\ \A i \in Items : deps[i] \subseteq Items
  <2>1. pc[a] # "idle"
    BY DEF Work, Launch, LaunchRefused, RunParallel, ApplyFirst, ApplySecond, WaveOver
  <2> QED BY <2>1 DEF TypeOK, GraphOK
<1>2. CASE Launch(a)
  <2>1. todo[a] # {} /\ Least(todo[a]) \in Items
    BY <1>1, <1>2, LeastIsIn DEF Launch
  <2>2. status' \in [Items -> Statuses]
    BY <1>1, <1>2, <2>1, GuardedStep DEF Launch
  <2> QED BY <1>2, <2>2 DEF TypeOK, Launch, Drop
<1>3. CASE LaunchRefused(a)
  BY <1>3, UnwindType DEF LaunchRefused
<1>4. CASE RunParallel(a)
  <2>1. PICK res \in [wave[a] -> Results] :
          result' = [result EXCEPT ![a] = [i \in Items |-> IF i \in wave[a] THEN res[i] ELSE None]]
    BY <1>4 DEF RunParallel
  <2>2. result' \in [Actors -> [Items -> Results \cup {None}]]
    BY <1>1, <2>1 DEF TypeOK
  <2>3. ASSUME NEW i \in Items PROVE Upstream(a, i) \in SUBSET (Items \X Results)
    <3> DEFINE of == IF a = Coordinator THEN seen[a].outcome ELSE outcome
    <3>1. of \in [Items -> Results \cup {None}]
      BY DEF TypeOK
    <3>2. \A d \in deps[i] : d \in Items /\ (of[d] # None => of[d] \in Results)
      BY <1>1, <3>1
    <3> QED BY <3>2 DEF Upstream
  <2>4. handed' \in [Items -> SUBSET (Items \X Results)]
    BY <1>4, <2>3 DEF RunParallel, TypeOK
  <2>5. todo' \in [Actors -> SUBSET Items] /\ pc' \in [Actors -> {"idle", "snapshot", "mark", "launch", "apply", "finalize", "close"}]
    BY <1>4 DEF RunParallel, TypeOK, Goto
  <2> QED BY <1>4, <2>2, <2>4, <2>5 DEF RunParallel, TypeOK
<1>5. CASE ApplyFirst(a) \/ ApplySecond(a)
  <2> DEFINE i == Least(todo[a])
  <2>1. i \in Items
    BY <1>1, <1>5, LeastIsIn DEF ApplyFirst, ApplySecond
  <2>2. result[a][i] \in Results \cup {None}
    BY <2>1 DEF TypeOK
  <2>3. \/ SetStatus(i, Classify(a, result[a][i])) /\ outcome' = outcome
        \/ outcome' = [outcome EXCEPT ![i] = result[a][i]] /\ status' = status
    BY <1>5 DEF ApplyFirst, ApplySecond
  <2>4. status' \in [Items -> Statuses] /\ outcome' \in [Items -> Results \cup {None}]
    BY <1>1, <2>1, <2>2, <2>3, GuardedStep DEF TypeOK
  <2>5. half' = [half EXCEPT ![a] = TRUE] \/ half' = [half EXCEPT ![a] = FALSE]
    BY <1>5 DEF ApplyFirst, ApplySecond
  <2>6. half' \in [Actors -> BOOLEAN]
    BY <2>5 DEF TypeOK
  <2>7. todo' = todo \/ todo' = [todo EXCEPT ![a] = @ \ {i}]
    BY <1>5 DEF ApplyFirst, ApplySecond, Drop
  <2>8. todo' \in [Actors -> SUBSET Items]
    BY <2>7 DEF TypeOK
  <2> QED BY <1>5, <2>4, <2>6, <2>8 DEF ApplyFirst, ApplySecond, TypeOK
<1>6. CASE WaveOver(a)
  BY <1>6 DEF TypeOK, WaveOver, Take, Goto, NoResults
<1> QED BY <1>2, <1>3, <1>4, <1>5, <1>6 DEF Work

(* So does every step of the coordinator, and of a human who begins. *)
LEMMA CoordinateType ==
    ASSUME TypeOK, Start \/ Refuse \/ Coordinate \/ \E h \in Humans : Rebrief(h)
    PROVE  TypeOK'
<1> USE DEF storeVars, actorVars
<1>0. /\ Coordinator \in Actors /\ Humans \subseteq Actors /\ MaxStarts \in Nat
      /\ Rows \in [status : [Items -> Statuses], outcome : [Items -> Results \cup {None}]]
      /\ NoRows \in [status : [Items -> Statuses], outcome : [Items -> Results \cup {None}]]
  BY FlagsAssumption DEF Actors, TypeOK, Rows, NoRows, Statuses
<1>1. CASE Start \/ Refuse
  <2>1. starts' \in 0..MaxStarts
    BY <1>0, <1>1 DEF TypeOK, Start, Refuse
  <2>2. pc' = pc \/ pc' = [pc EXCEPT ![Coordinator] = "snapshot"]
    BY <1>1 DEF Start, Refuse, Goto
  <2> QED BY <1>0, <1>1, <2>1, <2>2 DEF TypeOK, Start, Refuse
<1>2. CASE Snapshot
  BY <1>0, <1>2 DEF TypeOK, Snapshot, Read, Goto
<1>3. CASE MarkBlocked
  <2>1. Least(todo[Coordinator]) \in Items
    BY <1>0, <1>3, LeastIsIn DEF MarkBlocked, TypeOK
  <2>2. status' \in [Items -> Statuses]
    BY <1>3, <2>1, GuardedStep DEF MarkBlocked, TypeOK
  <2> QED BY <1>0, <1>3, <2>2 DEF TypeOK, MarkBlocked, Drop
<1>4. CASE Dispatch
  <2>1. Ready \subseteq Items
    BY DEF Ready
  <2> QED BY <1>0, <1>4, <2>1 DEF TypeOK, Dispatch, Take, Goto
<1>5. CASE NoneReady
  BY <1>0, <1>5 DEF TypeOK, NoneReady, Goto
<1>8. CASE ReadFinal
  BY <1>0, <1>8 DEF TypeOK, ReadFinal, Read, Goto
<1>6. CASE Close
  BY <1>0, <1>6 DEF TypeOK, Close, FinalStatus, Goto, Forget
<1>7. CASE \E h \in Humans : Rebrief(h)
  <2>1. PICK h \in Humans : Rebrief(h)
    BY <1>7
  <2>2. PICK i \in Items : Take(h, {i})
    BY <2>1 DEF Rebrief
  <2> QED BY <1>0, <2>1, <2>2 DEF TypeOK, Rebrief, Take, Goto
<1> QED BY <1>1, <1>2, <1>3, <1>4, <1>5, <1>6, <1>7, <1>8 DEF Coordinate

-----------------------------------------------------------------------------
(* The graph and the results in hand stay as they have to be.              *)

(* A result is classified as an end of the item, never as running. *)
LEMMA ClassifyType ==
    ASSUME NEW a \in Actors, NEW r \in Results
    PROVE  Classify(a, r) \in {"converged", "stopped", "blocked", "escalated"}
<1>1. r \in {"shippable", "gated", "blocked", "stopped", "crash"}
  BY ResultsAssumption
<1> QED BY <1>1 DEF Classify

(* No step changes the graph, and none but a legal change of one row changes
   a status; a row is set to running by an actor that had it to launch. *)
LEMMA RowStep ==
    ASSUME TypeOK, ResultsOK, [Next]_vars
    PROVE  /\ deps' = deps
           /\ \/ status' = status
              \/ \E i \in Items : \E dst \in Statuses :
                    /\ SetStatus(i, dst)
                    /\ dst = "running" => \E a \in Actors : pc[a] = "launch" /\ i \in todo[a]
<1> USE DEF storeVars, actorVars
<1>0. Coordinator \in Actors /\ Humans \subseteq Actors /\ status \in [Items -> Statuses]
  BY DEF Actors, TypeOK
<1>1. CASE Start \/ Refuse \/ Snapshot \/ Dispatch \/ NoneReady \/ ReadFinal \/ Close
  BY <1>1 DEF Start, Refuse, Snapshot, Dispatch, NoneReady, ReadFinal, Close
<1>2. CASE MarkBlocked
  <2>1. Least(todo[Coordinator]) \in Items
    BY <1>0, <1>2, LeastIsIn DEF MarkBlocked, TypeOK
  <2> QED BY <1>2, <2>1 DEF MarkBlocked, Statuses
<1>3. CASE \E h \in Humans : Rebrief(h)
  BY <1>3 DEF Rebrief
<1>4. ASSUME NEW a \in Actors, Launch(a)
      PROVE  /\ deps' = deps /\ Least(todo[a]) \in Items
             /\ SetStatus(Least(todo[a]), "running") /\ pc[a] = "launch"
             /\ Least(todo[a]) \in todo[a]
  BY <1>4, LeastIsIn DEF Launch, TypeOK
<1>5. ASSUME NEW a \in Actors, ApplyFirst(a) \/ ApplySecond(a)
      PROVE  /\ deps' = deps
             /\ \/ status' = status
                \/ \E i \in Items : \E dst \in Statuses \ {"running"} : SetStatus(i, dst)
  <2> DEFINE i == Least(todo[a])
             dst == Classify(a, result[a][i])
  <2>1. i \in todo[a] /\ i \in Items /\ pc[a] = "apply"
    BY <1>5, LeastIsIn DEF ApplyFirst, ApplySecond, TypeOK
  <2>2. dst \in Statuses \ {"running"}
    BY <2>1, ClassifyType DEF ResultsOK, Statuses
  <2>3. status' = status \/ SetStatus(i, dst)
    BY <1>5 DEF ApplyFirst, ApplySecond
  <2>4. deps' = deps
    BY <1>5 DEF ApplyFirst, ApplySecond
  <2> QED BY <2>1, <2>2, <2>3, <2>4
<1>6. ASSUME NEW a \in Actors, LaunchRefused(a) \/ RunParallel(a) \/ WaveOver(a) \/ Abort(a)
      PROVE  deps' = deps /\ status' = status
  BY <1>6 DEF LaunchRefused, RunParallel, WaveOver, Abort, Unwind
<1>7. CASE UNCHANGED vars
  BY <1>7 DEF vars
<1>8. "running" \in Statuses
  BY DEF Statuses
<1> QED BY <1>1, <1>2, <1>3, <1>4, <1>5, <1>6, <1>7, <1>8 DEF Next, Coordinate, Work

(* What has converged stays so. *)
LEMMA ConvergedGrows ==
    ASSUME TypeOK, ResultsOK, [Next]_vars
    PROVE  \A i \in Items : status[i] = "converged" => status'[i] = "converged"
<1>1. CASE status' = status
  BY <1>1
<1>2. ASSUME NEW i \in Items, NEW dst \in Statuses, SetStatus(i, dst)
      PROVE  \A j \in Items : status[j] = "converged" => status'[j] = "converged"
  BY <1>2, GuardedStep DEF TypeOK
<1> QED BY <1>1, <1>2, RowStep

(* Nobody begins on a graph with unknown keys or cycles. *)
LEMMA GraphStep ==
    ASSUME TypeOK, GraphOK, ResultsOK, [Next]_vars
    PROVE  GraphOK'
<1> USE DEF storeVars, actorVars
<1>0. deps' = deps /\ Coordinator \in Actors /\ Humans \subseteq Actors
  BY RowStep DEF Actors
<1>1. CASE \A i \in Items : deps[i] \subseteq Items
  BY <1>0, <1>1 DEF GraphOK
<1>2. CASE /\ ~ \A i \in Items : deps[i] \subseteq Items
           /\ \A a \in Actors : pc[a] = "idle"
           /\ \A i \in Items : status[i] = "pending"
  <2>1. ~Start /\ ~Coordinate
    BY <1>0, <1>2 DEF Start, WellFormed, Coordinate, Snapshot, MarkBlocked, Dispatch, NoneReady,
                      ReadFinal, Close
  <2>2. ASSUME NEW a \in Actors PROVE ~Work(a) /\ ~Abort(a)
    BY <1>2 DEF Work, Abort, Launch, LaunchRefused, RunParallel, ApplyFirst, ApplySecond, WaveOver
  <2>3. ASSUME NEW h \in Humans PROVE ~Rebrief(h)
    BY <1>2 DEF Rebrief
  <2>4. Refuse \/ UNCHANGED vars
    BY <2>1, <2>2, <2>3 DEF Next
  <2>5. pc' = pc /\ status' = status
    BY <2>4 DEF Refuse, vars
  <2> QED BY <1>2, <2>5 DEF GraphOK
<1> QED BY <1>1, <1>2 DEF GraphOK

(* Whoever goes on to apply results has run every worker of its wave. *)
LEMMA ResultsStep ==
    ASSUME TypeOK, ResultsOK, [Next]_vars
    PROVE  ResultsOK'
<1> USE DEF storeVars, actorVars
<1> SUFFICES ASSUME NEW b \in Actors, pc'[b] = "apply", NEW j \in todo'[b]
             PROVE  result'[b][j] \in Results
  BY DEF ResultsOK
<1>0. /\ Coordinator \in Actors /\ Humans \subseteq Actors
      /\ pc \in [Actors -> {"idle", "snapshot", "mark", "launch", "apply", "finalize", "close"}]
      /\ todo \in [Actors -> SUBSET Items]
      /\ result \in [Actors -> [Items -> Results \cup {None}]]
      /\ wave \in [Actors -> SUBSET Items]
  BY DEF TypeOK, Actors
<1>1. CASE pc'[b] = pc[b] /\ result'[b] = result[b] /\ todo'[b] \subseteq todo[b]
  BY <1>1 DEF ResultsOK
<1>2. CASE Start \/ Refuse \/ MarkBlocked \/ UNCHANGED vars
  <2>1. result' = result /\ todo'[b] \subseteq todo[b] /\ (pc' = pc \/ pc' = [pc EXCEPT ![Coordinator] = "snapshot"])
    BY <1>0, <1>2 DEF Start, Refuse, MarkBlocked, Goto, Drop, vars
  <2> QED BY <1>0, <1>1, <2>1
<1>3. CASE Snapshot \/ Dispatch \/ NoneReady \/ ReadFinal \/ Close
  <2>1. result' = result /\ pc'[Coordinator] # "apply"
    BY <1>0, <1>3 DEF Snapshot, Dispatch, NoneReady, ReadFinal, Close, Goto
  <2>2. b # Coordinator => pc'[b] = pc[b] /\ todo'[b] = todo[b]
    BY <1>0, <1>3 DEF Snapshot, Dispatch, NoneReady, ReadFinal, Close, Goto, Take
  <2> QED BY <1>1, <2>1, <2>2
<1>4. ASSUME NEW h \in Humans, Rebrief(h) PROVE result'[b][j] \in Results
  <2>1. result' = result /\ pc'[h] # "apply" /\ (b # h => pc'[b] = pc[b] /\ todo'[b] = todo[b])
    BY <1>0, <1>4 DEF Rebrief, Goto, Take
  <2> QED BY <1>1, <2>1
<1>5. ASSUME NEW a \in Actors, Launch(a) \/ ApplyFirst(a) \/ ApplySecond(a)
      PROVE  result'[b][j] \in Results
  <2>1. result' = result /\ pc' = pc /\ todo'[b] \subseteq todo[b]
    BY <1>0, <1>5 DEF Launch, ApplyFirst, ApplySecond, Drop
  <2> QED BY <1>1, <2>1
<1>6. ASSUME NEW a \in Actors, RunParallel(a) PROVE result'[b][j] \in Results
  <2>1. CASE b # a
    BY <1>0, <1>1, <1>6, <2>1 DEF RunParallel, Goto
  <2>2. CASE b = a
    <3>1. todo'[a] = wave[a]
      BY <1>0, <1>6 DEF RunParallel
    <3>2. PICK res \in [wave[a] -> Results] :
            result' = [result EXCEPT ![a] = [i \in Items |-> IF i \in wave[a] THEN res[i] ELSE None]]
      BY <1>6 DEF RunParallel
    <3> QED BY <1>0, <2>2, <3>1, <3>2
  <2> QED BY <2>1, <2>2
<1>7. ASSUME NEW a \in Actors, LaunchRefused(a) \/ WaveOver(a) \/ Abort(a)
      PROVE  result'[b][j] \in Results
  <2>1. /\ pc'[a] # "apply"
        /\ b # a => pc'[b] = pc[b] /\ todo'[b] = todo[b] /\ result'[b] = result[b]
    BY <1>0, <1>7 DEF LaunchRefused, WaveOver, Abort, Unwind, Goto, Take
  <2> QED BY <1>1, <2>1
<1> QED BY <1>2, <1>3, <1>4, <1>5, <1>6, <1>7 DEF Next, Coordinate, Work

-----------------------------------------------------------------------------
(* Items are worked on in the order of the graph.                          *)

(* An item that was ever begun has all of its dependencies converged. *)
OrderOK ==
    \A i \in Items : status[i] \notin {"pending", "blocked_on_dep"} => deps[i] \subseteq Converged

(* So has one that an actor is about to launch. *)
LaunchOK ==
    \A a \in Actors : pc[a] = "launch" => \A i \in todo[a] : deps[i] \subseteq Converged

(* What the coordinator saw converged still is. *)
SnapshotOK ==
    pc[Coordinator] \in {"mark", "close"} =>
        \A i \in Items : seen[Coordinator].status[i] = "converged" => status[i] = "converged"

FleetInv == TypeOK /\ GraphOK /\ ResultsOK /\ OrderOK /\ LaunchOK /\ SnapshotOK

(* A step keeps the order: only what was to be launched is begun. *)
LEMMA OrderStep ==
    ASSUME FleetInv, [Next]_vars
    PROVE  OrderOK'
<1> SUFFICES ASSUME NEW j \in Items, status'[j] \notin {"pending", "blocked_on_dep"}
             PROVE  (deps[j] \subseteq Converged)'
  BY DEF OrderOK
<1>1. deps' = deps /\ Converged \subseteq Converged'
  BY RowStep, ConvergedGrows DEF FleetInv, Converged
<1>2. CASE status'[j] = status[j]
  BY <1>1, <1>2 DEF FleetInv, OrderOK
<1>3. CASE status'[j] # status[j]
  <2>1. PICK i \in Items : \E dst \in Statuses :
           /\ SetStatus(i, dst)
           /\ dst = "running" => \E a \in Actors : pc[a] = "launch" /\ i \in todo[a]
    BY <1>3, RowStep DEF FleetInv
  <2>2. PICK dst \in Statuses :
           /\ SetStatus(i, dst)
           /\ dst = "running" => \E a \in Actors : pc[a] = "launch" /\ i \in todo[a]
    BY <2>1
  <2>3. i = j /\ dst = status'[j] /\ dst \in Targets(status[i])
    BY <1>3, <2>2, GuardedStep DEF FleetInv, TypeOK
  <2>4. CASE dst = "running"
    BY <1>1, <2>2, <2>3, <2>4 DEF FleetInv, LaunchOK
  <2>5. CASE dst # "running"
    <3>1. status[j] \in {"running", "stopped", "blocked"}
      BY <2>2, <2>3, <2>5, GuardedStep DEF FleetInv, TypeOK, Statuses
    <3> QED BY <1>1, <3>1 DEF FleetInv, OrderOK
  <2> QED BY <2>4, <2>5
<1> QED BY <1>2, <1>3

(* The coordinator's snapshot only gets older: convergence is final. *)
LEMMA SnapshotStep ==
    ASSUME FleetInv, [Next]_vars
    PROVE  SnapshotOK'
<1> USE DEF storeVars, actorVars
<1> SUFFICES ASSUME pc'[Coordinator] \in {"mark", "close"}, NEW i \in Items,
                    seen'[Coordinator].status[i] = "converged"
             PROVE  status'[i] = "converged"
  BY DEF SnapshotOK
<1>0. /\ Coordinator \in Actors /\ Humans \subseteq Actors /\ Coordinator \notin Humans
      /\ pc \in [Actors -> {"idle", "snapshot", "mark", "launch", "apply", "finalize", "close"}]
      /\ DOMAIN seen = Actors
  BY ActorsAssumption DEF FleetInv, TypeOK, Actors
<1>1. CASE pc'[Coordinator] = pc[Coordinator] /\ seen'[Coordinator] = seen[Coordinator]
  BY <1>1, ConvergedGrows DEF FleetInv, SnapshotOK
<1>2. CASE Snapshot \/ ReadFinal
  <2>1. seen'[Coordinator].status = status /\ status' = status
    BY <1>0, <1>2 DEF Snapshot, ReadFinal, Read, Rows
  <2> QED BY <2>1
<1>3. CASE Start \/ Dispatch \/ NoneReady \/ Close
  BY <1>0, <1>3 DEF Start, Dispatch, NoneReady, Close, Goto
<1>4. CASE Refuse \/ MarkBlocked \/ UNCHANGED vars
  BY <1>1, <1>4 DEF Refuse, MarkBlocked, vars
<1>5. ASSUME NEW h \in Humans, Rebrief(h) PROVE status'[i] = "converged"
  BY <1>0, <1>1, <1>5 DEF Rebrief, Goto
<1>6. ASSUME NEW a \in Actors, Work(a) \/ Abort(a) PROVE status'[i] = "converged"
  <2>1. CASE Launch(a) \/ ApplyFirst(a) \/ ApplySecond(a)
    BY <1>1, <2>1 DEF Launch, ApplyFirst, ApplySecond
  <2>2. CASE RunParallel(a) \/ WaveOver(a)
    BY <1>0, <1>1, <2>2 DEF RunParallel, WaveOver, Goto
  <2>3. CASE LaunchRefused(a) \/ Abort(a)
    BY <1>0, <1>1, <2>3 DEF LaunchRefused, Abort, Unwind, Goto, Forget
  <2> QED BY <1>6, <2>1, <2>2, <2>3 DEF Work
<1> QED BY <1>2, <1>3, <1>4, <1>5, <1>6 DEF Next, Coordinate

(* A wave, and a re-brief, is made of items with converged dependencies. *)
LEMMA LaunchStep ==
    ASSUME FleetInv, [Next]_vars
    PROVE  LaunchOK'
<1> USE DEF storeVars, actorVars
<1> SUFFICES ASSUME NEW b \in Actors, pc'[b] = "launch", NEW j \in todo'[b]
             PROVE  (deps[j] \subseteq Converged)'
  BY DEF LaunchOK
<1>0. /\ Coordinator \in Actors /\ Humans \subseteq Actors
      /\ pc \in [Actors -> {"idle", "snapshot", "mark", "launch", "apply", "finalize", "close"}]
      /\ todo \in [Actors -> SUBSET Items]
      /\ DOMAIN wave = Actors
  BY DEF FleetInv, TypeOK, Actors
<1>1. deps' = deps /\ Converged \subseteq Converged'
  BY RowStep, ConvergedGrows DEF FleetInv, Converged
<1>2. CASE pc'[b] = pc[b] /\ todo'[b] \subseteq todo[b]
  BY <1>1, <1>2 DEF FleetInv, LaunchOK
<1>3. CASE Dispatch
  <2>1. CASE b = Coordinator
    <3>1. j \in Ready /\ pc[Coordinator] = "mark"
      BY <1>0, <1>3, <2>1 DEF Dispatch, Take
    <3>2. \A d \in deps[j] : seen[Coordinator].status[d] = "converged"
      BY <3>1 DEF Ready
    <3>3. j \in Items /\ deps[j] \subseteq Items
      BY <1>0, <3>1 DEF FleetInv, GraphOK, Ready
    <3>4. deps[j] \subseteq Converged
      BY <3>1, <3>2, <3>3 DEF FleetInv, SnapshotOK, Converged
    <3> QED BY <1>1, <3>4
  <2>2. CASE b # Coordinator
    BY <1>0, <1>2, <1>3, <2>2 DEF Dispatch, Take, Goto
  <2> QED BY <2>1, <2>2
<1>4. ASSUME NEW h \in Humans, Rebrief(h) PROVE (deps[j] \subseteq Converged)'
  <2>1. CASE b = h
    <3>1. PICK i \in Items : status[i] = "escalated" /\ Take(h, {i})
      BY <1>4 DEF Rebrief
    <3>2. j = i
      BY <1>0, <2>1, <3>1 DEF Take
    <3> QED BY <1>1, <3>1, <3>2 DEF FleetInv, OrderOK
  <2>2. CASE b # h
    <3>1. PICK i \in Items : Take(h, {i})
      BY <1>4 DEF Rebrief
    <3> QED BY <1>0, <1>2, <1>4, <2>2, <3>1 DEF Rebrief, Take, Goto
  <2> QED BY <2>1, <2>2
<1>5. CASE Start \/ Snapshot \/ NoneReady \/ ReadFinal \/ Close
  <2>1. pc'[Coordinator] # "launch"
    BY <1>0, <1>5 DEF Start, Snapshot, NoneReady, ReadFinal, Close, Goto
  <2>2. b # Coordinator => pc'[b] = pc[b] /\ todo'[b] = todo[b]
    BY <1>0, <1>5 DEF Start, Snapshot, NoneReady, ReadFinal, Close, Goto
  <2> QED BY <1>2, <2>1, <2>2
<1>6. CASE Refuse \/ MarkBlocked \/ UNCHANGED vars
  <2>1. pc' = pc /\ todo'[b] \subseteq todo[b]
    BY <1>0, <1>6 DEF Refuse, MarkBlocked, Drop, vars
  <2> QED BY <1>2, <2>1
<1>7. ASSUME NEW a \in Actors, Launch(a) \/ ApplyFirst(a) \/ ApplySecond(a)
      PROVE  (deps[j] \subseteq Converged)'
  <2>1. pc' = pc /\ todo'[b] \subseteq todo[b]
    BY <1>0, <1>7 DEF Launch, ApplyFirst, ApplySecond, Drop
  <2> QED BY <1>2, <2>1
<1>8. ASSUME NEW a \in Actors, LaunchRefused(a) \/ RunParallel(a) \/ WaveOver(a) \/ Abort(a)
      PROVE  (deps[j] \subseteq Converged)'
  <2>1. /\ pc'[a] # "launch"
        /\ b # a => pc'[b] = pc[b] /\ todo'[b] = todo[b]
    BY <1>0, <1>8 DEF LaunchRefused, RunParallel, WaveOver, Abort, Unwind, Goto, Take
  <2> QED BY <1>2, <2>1
<1> QED BY <1>3, <1>4, <1>5, <1>6, <1>7, <1>8 DEF Next, Coordinate, Work

(* The invariant holds of a new fleet. *)
LEMMA InitFleetInv == Init => FleetInv
<1> SUFFICES ASSUME Init PROVE FleetInv
  OBVIOUS
<1>1. TypeOK /\ GraphOK /\ ResultsOK
  BY InitType
<1>2. OrderOK /\ LaunchOK /\ SnapshotOK
  BY DEF Init, OrderOK, LaunchOK, SnapshotOK, NoRows, Actors
<1> QED BY <1>1, <1>2 DEF FleetInv

(* And every step keeps it. *)
LEMMA FleetInvStep == FleetInv /\ [Next]_vars => FleetInv'
<1> SUFFICES ASSUME FleetInv, [Next]_vars PROVE FleetInv'
  OBVIOUS
<1>1. TypeOK'
  <2>1. CASE Start \/ Refuse \/ Coordinate \/ \E h \in Humans : Rebrief(h)
    BY <2>1, CoordinateType DEF FleetInv
  <2>2. ASSUME NEW a \in Actors, Work(a) PROVE TypeOK'
    BY <2>2, WorkType DEF FleetInv
  <2>3. ASSUME NEW a \in Actors, Abort(a) PROVE TypeOK'
    BY <2>3, UnwindType DEF FleetInv, Abort
  <2>4. CASE UNCHANGED vars
    BY <2>4 DEF FleetInv, TypeOK, vars, storeVars, actorVars
  <2> QED BY <2>1, <2>2, <2>3, <2>4 DEF Next
<1>2. GraphOK' /\ ResultsOK'
  BY GraphStep, ResultsStep DEF FleetInv
<1> QED BY <1>1, <1>2, OrderStep, LaunchStep, SnapshotStep DEF FleetInv

(* Every variable of the fleet always has its type. *)
THEOREM FleetTypeCorrect == Spec => []TypeOK
<1>1. FleetInv => TypeOK
  BY DEF FleetInv
<1> QED BY <1>1, InitFleetInv, FleetInvStep, PTL DEF Spec

(* No item is ever begun before all it depends on has converged, whatever the
   coordinator, the humans and the crashes do: in particular an item that
   runs, or that has ended, has only converged dependencies. *)
THEOREM OrderKept == Spec => []OrderOK
<1>1. FleetInv => OrderOK
  BY DEF FleetInv
<1> QED BY <1>1, InitFleetInv, FleetInvStep, PTL DEF Spec

(* The fleet starts as the workflow does: with nothing in work or done. *)
LEMMA InitRefines == Init => W!Init
BY DEF Init, W!Init, Running, Converged, NoRows

(* A step of the fleet is a step of the workflow on the one row it changes,
   or none at all. *)
LEMMA StepRefines ==
    ASSUME FleetInv, [Next]_vars
    PROVE  [W!Next]_<<deps, Running, Converged>>
<1>1. deps' = deps
  BY RowStep DEF FleetInv
<1>2. CASE status' = status
  BY <1>1, <1>2 DEF Running, Converged
<1>3. ASSUME NEW i \in Items, NEW dst \in Statuses, SetStatus(i, dst),
             dst = "running" => \E a \in Actors : pc[a] = "launch" /\ i \in todo[a]
      PROVE  W!Next \/ UNCHANGED <<deps, Running, Converged>>
  <2>1. /\ status'[i] = dst /\ dst # "pending" /\ status[i] # "converged"
        /\ dst \in Targets(status[i])
        /\ \A j \in Items \ {i} : status'[j] = status[j]
    BY <1>3, GuardedStep DEF FleetInv, TypeOK
  <2>2. CASE dst = "running"
    <3>1. status[i] # "running"
      BY <1>3, <2>2, GuardedStep DEF FleetInv, TypeOK
    <3>2. deps[i] \subseteq Converged
      BY <1>3, <2>2 DEF FleetInv, LaunchOK
    <3>3. Running' = Running \cup {i} /\ Converged' = Converged
      BY <2>1, <2>2 DEF Running, Converged
    <3>4. W!Begin(i)
      BY <1>1, <2>1, <3>1, <3>2, <3>3 DEF W!Begin, Running, Converged
    <3> QED BY <3>4 DEF W!Next
  <2>3. CASE dst = "converged"
    <3>1. status[i] = "running"
      BY <1>3, <2>3, GuardedStep DEF FleetInv, TypeOK
    <3>2. Running' = Running \ {i} /\ Converged' = Converged \cup {i}
      BY <2>1, <2>3 DEF Running, Converged
    <3>3. W!Succeed(i)
      BY <1>1, <3>1, <3>2 DEF W!Succeed, Running
    <3> QED BY <3>3 DEF W!Next
  <2>4. CASE dst \notin {"running", "converged"} /\ status[i] = "running"
    <3>1. Running' = Running \ {i} /\ Converged' = Converged
      BY <2>1, <2>4 DEF Running, Converged
    <3>2. W!Fail(i)
      BY <1>1, <2>4, <3>1 DEF W!Fail, Running
    <3> QED BY <3>2 DEF W!Next
  <2>5. CASE dst \notin {"running", "converged"} /\ status[i] # "running"
    BY <1>1, <2>1, <2>5 DEF Running, Converged
  <2> QED BY <2>2, <2>3, <2>4, <2>5
<1> QED BY <1>2, <1>3, RowStep DEF FleetInv

(* The fleet implements the workflow: items are worked on in the order of the
   graph, by one worker at a time as far as the rows tell, and what has
   converged stays so. *)
THEOREM Refines == Spec => ImplementsWorkflow
<1> QED BY InitRefines, StepRefines, InitFleetInv, FleetInvStep, PTL
        DEF Spec, ImplementsWorkflow, W!WorkflowSpec

-----------------------------------------------------------------------------
(* Ownership.                                                              *)

(* The items an actor answers for: those it has launched and whose status it
   has still to set.  Where a crash is half recorded the status is set. *)
Held(a) ==
    CASE pc[a] = "launch" -> wave[a] \ todo[a]
      [] pc[a] = "apply"  ->
            IF half[a] /\ result[a][Least(todo[a])] = "crash" THEN todo[a] \ {Least(todo[a])}
            ELSE todo[a]
      [] OTHER -> {}

OwnersOK ==
    /\ \A a \in Actors : \A i \in Held(a) : i \in Items /\ status[i] = "running"
    /\ \A a, b \in Actors : a # b => Held(a) \cap Held(b) = {}

(* A result is half recorded only where there is one to record. *)
HalfOK == \A a \in Actors : half[a] => pc[a] = "apply" /\ todo[a] # {}

(* An actor that answers for no more than it did, while no row it or another
   answers for changes, leaves the ownership as it was. *)
LEMMA OwnersKept ==
    ASSUME OwnersOK, \A b \in Actors : Held(b)' \subseteq Held(b),
           \A b \in Actors : \A i \in Held(b)' : status'[i] = status[i]
    PROVE  OwnersOK'
BY DEF OwnersOK

(* Actors do not touch each other's locals. *)
LEMMA OthersLocals ==
    ASSUME TypeOK, NEW a \in Actors, NEW b \in Actors, a # b,
           \/ Work(a) \/ Abort(a) \/ (a \in Humans /\ Rebrief(a))
           \/ (a = Coordinator /\ (Start \/ Coordinate))
    PROVE  /\ pc'[b] = pc[b] /\ wave'[b] = wave[b] /\ todo'[b] = todo[b]
           /\ half'[b] = half[b] /\ result'[b] = result[b] /\ seen'[b] = seen[b]
           /\ Held(b)' = Held(b)
<1> USE DEF storeVars, actorVars
<1>0. /\ pc \in [Actors -> {"idle", "snapshot", "mark", "launch", "apply", "finalize", "close"}]
      /\ DOMAIN seen = Actors /\ DOMAIN wave = Actors /\ DOMAIN todo = Actors
      /\ DOMAIN result = Actors /\ DOMAIN half = Actors
  BY DEF TypeOK
<1>1. /\ pc'[b] = pc[b] /\ wave'[b] = wave[b] /\ todo'[b] = todo[b]
      /\ half'[b] = half[b] /\ result'[b] = result[b] /\ seen'[b] = seen[b]
  <2>1. CASE Launch(a) \/ ApplyFirst(a) \/ ApplySecond(a)
    BY <1>0, <2>1 DEF Launch, ApplyFirst, ApplySecond, Drop
  <2>2. CASE RunParallel(a) \/ WaveOver(a)
    BY <1>0, <2>2 DEF RunParallel, WaveOver, Take, Goto
  <2>3. CASE LaunchRefused(a) \/ Abort(a)
    BY <1>0, <2>3 DEF LaunchRefused, Abort, Unwind, Take, Goto, Forget
  <2>4. CASE a \in Humans /\ Rebrief(a)
    <3>1. PICK i \in Items : Take(a, {i})
      BY <2>4 DEF Rebrief
    <3> QED BY <1>0, <2>4, <3>1 DEF Rebrief, Take, Goto
  <2>5. CASE a = Coordinator /\ (Start \/ Coordinate)
    BY <1>0, <2>5 DEF Start, Coordinate, Snapshot, MarkBlocked, Dispatch, NoneReady, ReadFinal,
                      Close, Take, Goto, Read, Forget, Drop
  <2> QED BY <2>1, <2>2, <2>3, <2>4, <2>5 DEF Work
<1> QED BY <1>1 DEF Held, Least

(* Every step keeps the ownership: a launch takes a row that is not running,
   and only the owner of a row ends it. *)
LEMMA OwnersStep ==
    ASSUME FleetInv, OwnersOK, HalfOK, [Next]_vars
    PROVE  OwnersOK'
<1> USE DEF storeVars, actorVars
<1>0. /\ Coordinator \in Actors /\ Humans \subseteq Actors /\ TypeOK
      /\ pc \in [Actors -> {"idle", "snapshot", "mark", "launch", "apply", "finalize", "close"}]
      /\ todo \in [Actors -> SUBSET Items] /\ wave \in [Actors -> SUBSET Items]
      /\ status \in [Items -> Statuses] /\ half \in [Actors -> BOOLEAN]
  BY DEF FleetInv, TypeOK, Actors
<1>1. ASSUME NEW a \in Actors, status' = status, Held(a)' \subseteq Held(a),
             \A b \in Actors \ {a} : Held(b)' = Held(b)
      PROVE  OwnersOK'
  <2>1. \A b \in Actors : Held(b)' \subseteq Held(b)
    BY <1>1
  <2> QED BY <1>1, <2>1, OwnersKept
<1>2. CASE Refuse \/ UNCHANGED vars
  <2>1. status' = status /\ \A b \in Actors : Held(b)' = Held(b)
    BY <1>2 DEF Refuse, vars, Held, Least
  <2> QED BY <1>0, <1>1, <2>1
<1>3. CASE Start \/ Snapshot \/ Dispatch \/ NoneReady \/ ReadFinal \/ Close
  <2>1. status' = status
    BY <1>3 DEF Start, Snapshot, Dispatch, NoneReady, ReadFinal, Close
  <2>2. /\ pc'[Coordinator] \notin {"launch", "apply"}
           \/ (pc'[Coordinator] = "launch" /\ wave'[Coordinator] = todo'[Coordinator])
    BY <1>0, <1>3 DEF Start, Snapshot, Dispatch, NoneReady, ReadFinal, Close, Goto, Take
  <2>3. Held(Coordinator)' = {}
    BY <2>2 DEF Held
  <2> QED BY <1>0, <1>1, <1>3, <2>1, <2>3, OthersLocals DEF Coordinate
<1>4. CASE MarkBlocked
  <2> DEFINE i == Least(todo[Coordinator])
  <2>1. i \in Items /\ SetStatus(i, "blocked_on_dep")
    BY <1>0, <1>4, LeastIsIn DEF MarkBlocked
  <2>2. status[i] = "pending" /\ \A j \in Items \ {i} : status'[j] = status[j]
    BY <1>0, <2>1, GuardedStep
  <2>3. pc'[Coordinator] = "mark"
    BY <1>4 DEF MarkBlocked
  <2>4. \A b \in Actors : Held(b)' \subseteq Held(b)
    <3>1. Held(Coordinator)' = {}
      BY <2>3 DEF Held
    <3> QED BY <1>0, <1>4, <3>1, OthersLocals DEF Coordinate
  <2>5. \A b \in Actors : \A j \in Held(b)' : status'[j] = status[j]
    BY <2>2, <2>4 DEF OwnersOK
  <2> QED BY <2>4, <2>5, OwnersKept
<1>5. ASSUME NEW h \in Humans, Rebrief(h) PROVE OwnersOK'
  <2>1. PICK i \in Items : Take(h, {i})
    BY <1>5 DEF Rebrief
  <2>2. status' = status /\ pc'[h] = "launch" /\ wave'[h] = todo'[h]
    BY <1>0, <1>5, <2>1 DEF Rebrief, Take, Goto
  <2>3. Held(h)' = {}
    BY <2>2 DEF Held
  <2> QED BY <1>0, <1>1, <1>5, <2>2, <2>3, OthersLocals
<1>6. ASSUME NEW a \in Actors, Launch(a) PROVE OwnersOK'
  <2> DEFINE i == Least(todo[a])
  <2>1. i \in Items /\ i \in todo[a] /\ SetStatus(i, "running")
    BY <1>0, <1>6, LeastIsIn DEF Launch
  <2>2. status[i] # "running" /\ status'[i] = "running" /\ \A j \in Items \ {i} : status'[j] = status[j]
    BY <1>0, <2>1, GuardedStep
  <2>3. pc[a] = "launch" /\ pc'[a] = "launch" /\ wave' = wave /\ todo'[a] = todo[a] \ {i}
    BY <1>0, <1>6 DEF Launch, Drop
  <2>4. Held(a)' \subseteq Held(a) \cup {i}
    BY <2>3 DEF Held
  <2>5. \A b \in Actors \ {a} : Held(b)' = Held(b)
    BY <1>0, <1>6, OthersLocals DEF Work
  <2> QED BY <2>1, <2>2, <2>4, <2>5 DEF OwnersOK
<1>7. ASSUME NEW a \in Actors, RunParallel(a) PROVE OwnersOK'
  <2>1. /\ status' = status /\ pc[a] = "launch" /\ todo[a] = {} /\ pc'[a] = "apply"
        /\ todo'[a] = wave[a]
    BY <1>0, <1>7 DEF RunParallel, Goto
  <2>2. Held(a)' \subseteq Held(a)
    BY <2>1 DEF Held
  <2> QED BY <1>0, <1>1, <1>7, <2>1, <2>2, OthersLocals DEF Work
<1>8. ASSUME NEW a \in Actors, ApplyFirst(a) \/ ApplySecond(a) PROVE OwnersOK'
  <2> DEFINE i == Least(todo[a])
             crash == result[a][i] = "crash"
  <2>1. i \in Items /\ i \in todo[a] /\ pc[a] = "apply" /\ pc'[a] = "apply" /\ result' = result
    BY <1>0, <1>8, LeastIsIn DEF ApplyFirst, ApplySecond
  <2>2. \A b \in Actors \ {a} : Held(b)' = Held(b)
    BY <1>0, <1>8, OthersLocals DEF Work
  <2>3. CASE status' = status /\ Held(a)' \subseteq Held(a)
    BY <1>1, <2>2, <2>3
  <2>4. CASE /\ SetStatus(i, Classify(a, result[a][i])) /\ i \in Held(a)
             /\ Held(a)' \subseteq Held(a) \ {i}
    <3>1. \A j \in Items \ {i} : status'[j] = status[j]
      BY <1>0, <2>1, <2>4, GuardedStep
    <3>2. \A b \in Actors \ {a} : i \notin Held(b)'
      BY <2>2, <2>4 DEF OwnersOK
    <3>3. \A b \in Actors : Held(b)' \subseteq Held(b)
      BY <2>2, <2>4
    <3>4. \A b \in Actors : \A j \in Held(b)' : status'[j] = status[j]
      BY <2>4, <3>1, <3>2, <3>3 DEF OwnersOK
    <3> QED BY <3>3, <3>4, OwnersKept
  <2>5. CASE ApplyFirst(a)
    <3>1. half[a] = FALSE /\ half'[a] = TRUE /\ todo' = todo
      BY <1>0, <2>5 DEF ApplyFirst
    <3>2. Held(a) = todo[a] /\ Held(a)' = IF crash THEN todo[a] \ {i} ELSE todo[a]
      BY <2>1, <3>1 DEF Held, Least
    <3> QED BY <2>1, <2>3, <2>4, <2>5, <3>2 DEF ApplyFirst
  <2>6. CASE ApplySecond(a)
    <3>1. half[a] = TRUE /\ half'[a] = FALSE /\ todo'[a] = todo[a] \ {i}
      BY <1>0, <2>6 DEF ApplySecond, Drop
    <3>2. Held(a)' = todo[a] \ {i} /\ Held(a) = IF crash THEN todo[a] \ {i} ELSE todo[a]
      BY <2>1, <3>1 DEF Held
    <3> QED BY <2>1, <2>3, <2>4, <2>6, <3>2 DEF ApplySecond
  <2> QED BY <1>8, <2>5, <2>6
<1>9. ASSUME NEW a \in Actors, LaunchRefused(a) \/ WaveOver(a) \/ Abort(a) PROVE OwnersOK'
  <2>1. status' = status /\ pc'[a] \in {"idle", "snapshot"}
    BY <1>0, <1>9 DEF LaunchRefused, WaveOver, Abort, Unwind, Goto
  <2>2. Held(a)' = {}
    BY <2>1 DEF Held
  <2> QED BY <1>0, <1>1, <1>9, <2>1, <2>2, OthersLocals DEF Work
<1> QED BY <1>2, <1>3, <1>4, <1>5, <1>6, <1>7, <1>8, <1>9 DEF Next, Coordinate, Work

(* A first write is followed by the second, or forgotten with all the rest. *)
LEMMA HalfStep ==
    ASSUME FleetInv, HalfOK, [Next]_vars
    PROVE  HalfOK'
<1> USE DEF storeVars, actorVars
<1> SUFFICES ASSUME NEW b \in Actors, half'[b] PROVE pc'[b] = "apply" /\ todo'[b] # {}
  BY DEF HalfOK
<1>0. /\ Coordinator \in Actors /\ Humans \subseteq Actors /\ TypeOK
      /\ pc \in [Actors -> {"idle", "snapshot", "mark", "launch", "apply", "finalize", "close"}]
      /\ half \in [Actors -> BOOLEAN] /\ DOMAIN todo = Actors
  BY DEF FleetInv, TypeOK, Actors
<1>1. CASE half[b] /\ pc'[b] = pc[b] /\ todo'[b] = todo[b]
  BY <1>1 DEF HalfOK
<1>2. CASE Refuse \/ UNCHANGED vars
  BY <1>1, <1>2 DEF Refuse, vars
<1>3. ASSUME NEW a \in Actors, a # b,
             \/ Work(a) \/ Abort(a) \/ (a \in Humans /\ Rebrief(a))
             \/ (a = Coordinator /\ (Start \/ Coordinate))
      PROVE  pc'[b] = "apply" /\ todo'[b] # {}
  BY <1>0, <1>1, <1>3, OthersLocals
<1>4. CASE b = Coordinator /\ (Start \/ Coordinate)
  <2>1. half' = half /\ pc[b] # "apply"
    BY <1>4 DEF Start, Coordinate, Snapshot, MarkBlocked, Dispatch, NoneReady, ReadFinal, Close
  <2> QED BY <2>1 DEF HalfOK
<1>5. CASE b \in Humans /\ Rebrief(b)
  <2>1. half' = half /\ pc[b] = "idle"
    BY <1>5 DEF Rebrief
  <2> QED BY <2>1 DEF HalfOK
<1>6. CASE Launch(b) \/ RunParallel(b) \/ WaveOver(b)
  <2>1. half' = half /\ (pc[b] = "launch" \/ todo[b] = {})
    BY <1>6 DEF Launch, RunParallel, WaveOver
  <2> QED BY <2>1 DEF HalfOK
<1>7. CASE ApplyFirst(b)
  BY <1>7 DEF ApplyFirst
<1>8. CASE ApplySecond(b) \/ LaunchRefused(b) \/ Abort(b)
  BY <1>0, <1>8 DEF ApplySecond, LaunchRefused, Abort, Unwind
<1> QED BY <1>0, <1>2, <1>3, <1>4, <1>5, <1>6, <1>7, <1>8 DEF Next, Work

(* The invariant with the owners. *)
OwnedInv == FleetInv /\ OwnersOK /\ HalfOK

(* Nobody answers for anything in a new fleet. *)
LEMMA InitOwned == Init => OwnedInv
<1> SUFFICES ASSUME Init PROVE OwnedInv
  OBVIOUS
<1>1. \A a \in Actors : Held(a) = {} /\ ~half[a]
  BY DEF Init, Held
<1> QED BY <1>1, InitFleetInv DEF OwnedInv, OwnersOK, HalfOK

(* Every step keeps the owners. *)
LEMMA OwnedStep == OwnedInv /\ [Next]_vars => OwnedInv'
BY FleetInvStep, OwnersStep, HalfStep DEF OwnedInv

(* No item is worked on by two at a time, and a worker's row says running
   until its result is recorded: the store refuses no status of a result. *)
THEOREM OwnersTheorem == Spec => []WorkersOwnTheirItems
<1>1. OwnedInv => WorkersOwnTheirItems
  <2> SUFFICES ASSUME OwnedInv PROVE WorkersOwnTheirItems
    OBVIOUS
  <2>1. \A a \in Actors : Holds(a) \subseteq Held(a)
    BY DEF Holds, Held
  <2> QED BY <2>1 DEF OwnedInv, OwnersOK, WorkersOwnTheirItems
<1> QED BY <1>1, InitOwned, OwnedStep, PTL DEF Spec

-----------------------------------------------------------------------------
(* Pending items.                                                          *)

(* In the loop over a wave, what is to be marked and what is ready are apart,
   and both are as pending as the snapshot says. *)
TowardOK ==
    pc[Coordinator] = "mark" =>
        /\ \A i \in Ready \cup todo[Coordinator] : status[i] = "pending"
        /\ Ready \cap todo[Coordinator] = {}

(* Humans take escalated items, which are never pending again. *)
TalkOK ==
    \A h \in Humans : pc[h] = "launch" => \A i \in todo[h] : status[i] # "pending"

(* A row stops being pending by a launch or by the marking, and none becomes
   pending. *)
LEMMA PendingStep ==
    ASSUME TypeOK, ResultsOK, [Next]_vars, NEW i \in Items
    PROVE  /\ status[i] # "pending" => status'[i] # "pending"
           /\ status[i] = "pending" /\ status'[i] # "pending" =>
                 \/ \E a \in Actors : /\ Launch(a) /\ i = Least(todo[a])
                                      /\ pc[a] = "launch" /\ i \in todo[a]
                 \/ MarkBlocked /\ i = Least(todo[Coordinator])
<1> USE DEF storeVars, actorVars
<1>0. Coordinator \in Actors /\ Humans \subseteq Actors /\ status \in [Items -> Statuses]
  BY DEF Actors, TypeOK
<1>1. CASE \/ Start \/ Refuse \/ Snapshot \/ Dispatch \/ NoneReady \/ ReadFinal \/ Close
           \/ UNCHANGED vars \/ \E h \in Humans : Rebrief(h)
  <2>1. status' = status
    BY <1>1 DEF Start, Refuse, Snapshot, Dispatch, NoneReady, ReadFinal, Close, Rebrief, vars
  <2> QED BY <2>1
<1>2. CASE MarkBlocked
  <2>1. Least(todo[Coordinator]) \in Items
    BY <1>0, <1>2, LeastIsIn DEF MarkBlocked, TypeOK
  <2> QED BY <1>0, <1>2, <2>1, GuardedStep DEF MarkBlocked
<1>3. ASSUME NEW a \in Actors, Launch(a)
      PROVE  /\ status[i] # "pending" => status'[i] # "pending"
             /\ status[i] = "pending" /\ status'[i] # "pending" =>
                   i = Least(todo[a]) /\ pc[a] = "launch" /\ i \in todo[a]
  <2>1. Least(todo[a]) \in todo[a] /\ Least(todo[a]) \in Items
    BY <1>3, LeastIsIn DEF Launch, TypeOK
  <2> QED BY <1>0, <1>3, <2>1, GuardedStep DEF Launch
<1>4. ASSUME NEW a \in Actors, ApplyFirst(a) \/ ApplySecond(a)
      PROVE  (status[i] = "pending") <=> (status'[i] = "pending")
  <2> DEFINE j == Least(todo[a])
             dst == Classify(a, result[a][j])
  <2>1. j \in todo[a] /\ j \in Items /\ pc[a] = "apply"
    BY <1>4, LeastIsIn DEF ApplyFirst, ApplySecond, TypeOK
  <2>2. dst \in {"converged", "stopped", "blocked", "escalated"}
    BY <2>1, ClassifyType DEF ResultsOK
  <2>3. status' = status \/ SetStatus(j, dst)
    BY <1>4 DEF ApplyFirst, ApplySecond
  <2> HIDE DEF j, dst
  <2> QED BY <1>0, <2>1, <2>2, <2>3, GuardedStep
<1>5. ASSUME NEW a \in Actors, LaunchRefused(a) \/ RunParallel(a) \/ WaveOver(a) \/ Abort(a)
      PROVE  status' = status
  BY <1>5 DEF LaunchRefused, RunParallel, WaveOver, Abort, Unwind
<1> QED BY <1>1, <1>2, <1>3, <1>4, <1>5 DEF Next, Coordinate, Work

(* No human holds a pending item. *)
LEMMA TalkStep ==
    ASSUME TypeOK, ResultsOK, TalkOK, [Next]_vars
    PROVE  TalkOK'
<1> USE DEF storeVars, actorVars
<1> SUFFICES ASSUME NEW h \in Humans, pc'[h] = "launch", NEW i \in todo'[h]
             PROVE  status'[i] # "pending"
  BY DEF TalkOK
<1>0. /\ Coordinator \in Actors /\ Humans \subseteq Actors /\ h \in Actors /\ h # Coordinator
      /\ pc \in [Actors -> {"idle", "snapshot", "mark", "launch", "apply", "finalize", "close"}]
      /\ todo \in [Actors -> SUBSET Items] /\ DOMAIN wave = Actors
  BY ActorsAssumption DEF TypeOK, Actors
<1>1. CASE pc'[h] = pc[h] /\ todo'[h] \subseteq todo[h]
  BY <1>0, <1>1, PendingStep DEF TalkOK
<1>2. CASE Refuse \/ UNCHANGED vars
  BY <1>1, <1>2 DEF Refuse, vars
<1>3. ASSUME NEW a \in Actors, a # h,
             \/ Work(a) \/ Abort(a) \/ (a \in Humans /\ Rebrief(a))
             \/ (a = Coordinator /\ (Start \/ Coordinate))
      PROVE  status'[i] # "pending"
  BY <1>0, <1>1, <1>3, OthersLocals
<1>4. CASE Rebrief(h)
  <2>1. PICK j \in Items : status[j] = "escalated" /\ Take(h, {j})
    BY <1>4 DEF Rebrief
  <2>2. i = j /\ status' = status
    BY <1>0, <1>4, <2>1 DEF Rebrief, Take
  <2> QED BY <2>1, <2>2
<1>5. CASE Launch(h) \/ ApplyFirst(h) \/ ApplySecond(h)
  BY <1>0, <1>1, <1>5 DEF Launch, ApplyFirst, ApplySecond, Drop
<1>6. CASE RunParallel(h) \/ WaveOver(h) \/ LaunchRefused(h) \/ Abort(h)
  <2>1. pc'[h] # "launch"
    BY <1>0, <1>6 DEF RunParallel, WaveOver, LaunchRefused, Abort, Unwind, Goto
  <2> QED BY <2>1
<1> QED BY <1>0, <1>2, <1>3, <1>4, <1>5, <1>6 DEF Next, Work

(* What is ready, and what is to be marked, stays pending until it is its turn. *)
LEMMA TowardStep ==
    ASSUME TypeOK, ResultsOK, TalkOK, TowardOK, [Next]_vars
    PROVE  TowardOK'
<1> USE DEF storeVars, actorVars
<1> SUFFICES ASSUME pc'[Coordinator] = "mark"
             PROVE  /\ \A i \in Ready' \cup todo'[Coordinator] : status'[i] = "pending"
                    /\ Ready' \cap todo'[Coordinator] = {}
  BY DEF TowardOK
<1>0. /\ Coordinator \in Actors /\ Humans \subseteq Actors /\ Coordinator \notin Humans
      /\ Actors = {Coordinator} \cup Humans
      /\ pc \in [Actors -> {"idle", "snapshot", "mark", "launch", "apply", "finalize", "close"}]
      /\ todo \in [Actors -> SUBSET Items] /\ DOMAIN seen = Actors
      /\ Ready \subseteq Items
  BY ActorsAssumption DEF TypeOK, Actors, Ready
<1>1. CASE Snapshot
  <2>1. /\ seen'[Coordinator] = Rows /\ status' = status /\ deps' = deps
        /\ todo'[Coordinator] = {i \in Items : status[i] = "pending"
                                     /\ \E d \in deps[i] : status[d] \in FailedDep}
    BY <1>0, <1>1 DEF Snapshot, Read
  <2>2. Ready' = {i \in Items : status[i] = "pending" /\ \A d \in deps[i] : status[d] = "converged"}
    BY <2>1 DEF Ready, Rows
  <2> QED BY <2>1, <2>2 DEF FailedDep
<1>2. CASE /\ pc[Coordinator] = "mark" /\ seen'[Coordinator] = seen[Coordinator] /\ deps' = deps
           /\ todo'[Coordinator] \subseteq todo[Coordinator]
           /\ MarkBlocked => todo'[Coordinator] = todo[Coordinator] \ {Least(todo[Coordinator])}
                             /\ Least(todo[Coordinator]) \in todo[Coordinator]
  <2>1. Ready' = Ready /\ Ready \cap todo[Coordinator] = {}
    BY <1>2 DEF Ready, TowardOK
  <2>2. ASSUME NEW i \in Ready \cup todo'[Coordinator] PROVE status'[i] = "pending"
    <3>1. status[i] = "pending" /\ i \in Items
      BY <1>0, <1>2 DEF TowardOK
    <3>2. \A a \in Actors : ~(pc[a] = "launch" /\ i \in todo[a])
      BY <1>0, <1>2, <3>1 DEF TalkOK
    <3>3. ~(MarkBlocked /\ i = Least(todo[Coordinator]))
      BY <1>2, <2>1
    <3> QED BY <3>1, <3>2, <3>3, PendingStep
  <2> QED BY <1>2, <2>1, <2>2
<1>3. CASE MarkBlocked
  <2>1. Least(todo[Coordinator]) \in todo[Coordinator]
    BY <1>0, <1>3, LeastIsIn DEF MarkBlocked
  <2> QED BY <1>0, <1>2, <1>3, <2>1 DEF MarkBlocked, Drop
<1>4. CASE Refuse \/ UNCHANGED vars
  <2>1. ~MarkBlocked \/ todo'[Coordinator] = todo[Coordinator] \ {Least(todo[Coordinator])}
    BY <1>0 DEF MarkBlocked, Drop
  <2>2. MarkBlocked => Least(todo[Coordinator]) \in todo[Coordinator]
    BY <1>0, LeastIsIn DEF MarkBlocked
  <2> QED BY <1>2, <1>4, <2>1, <2>2 DEF Refuse, vars
<1>5. ASSUME NEW a \in Humans, Work(a) \/ Abort(a) \/ Rebrief(a)
      PROVE  /\ \A i \in Ready' \cup todo'[Coordinator] : status'[i] = "pending"
             /\ Ready' \cap todo'[Coordinator] = {}
  <2>1. /\ pc'[Coordinator] = pc[Coordinator] /\ todo'[Coordinator] = todo[Coordinator]
        /\ seen'[Coordinator] = seen[Coordinator]
    BY <1>0, <1>5, OthersLocals
  <2>2. deps' = deps
    BY RowStep
  <2>3. MarkBlocked => todo'[Coordinator] = todo[Coordinator] \ {Least(todo[Coordinator])}
                       /\ Least(todo[Coordinator]) \in todo[Coordinator]
    BY <1>0, LeastIsIn DEF MarkBlocked, Drop
  <2> QED BY <1>2, <2>1, <2>2, <2>3
<1>6. CASE \/ Start \/ Dispatch \/ NoneReady \/ ReadFinal \/ Close
           \/ Work(Coordinator) \/ Abort(Coordinator)
  <2>1. pc'[Coordinator] # "mark"
    BY <1>0, <1>6 DEF Start, Dispatch, NoneReady, ReadFinal, Close, Work, Launch, LaunchRefused,
                      RunParallel, ApplyFirst, ApplySecond, WaveOver, Abort, Unwind, Goto
  <2> QED BY <2>1
<1> QED BY <1>0, <1>1, <1>3, <1>4, <1>5, <1>6 DEF Next, Coordinate

(* What the coordinator has still to launch is pending until it is its turn. *)
QueueOK ==
    pc[Coordinator] = "launch" => \A i \in todo[Coordinator] : status[i] = "pending"

LEMMA QueueStep ==
    ASSUME TypeOK, ResultsOK, TalkOK, TowardOK, QueueOK, [Next]_vars
    PROVE  QueueOK'
<1> USE DEF storeVars, actorVars
<1> SUFFICES ASSUME pc'[Coordinator] = "launch", NEW i \in todo'[Coordinator]
             PROVE  status'[i] = "pending"
  BY DEF QueueOK
<1>0. /\ Coordinator \in Actors /\ Humans \subseteq Actors /\ Coordinator \notin Humans
      /\ Actors = {Coordinator} \cup Humans
      /\ pc \in [Actors -> {"idle", "snapshot", "mark", "launch", "apply", "finalize", "close"}]
      /\ todo \in [Actors -> SUBSET Items] /\ DOMAIN wave = Actors
  BY ActorsAssumption DEF TypeOK, Actors
<1>1. ASSUME i \in Items, status[i] = "pending",
             ~(Launch(Coordinator) /\ i = Least(todo[Coordinator])), ~MarkBlocked
      PROVE  status'[i] = "pending"
  BY <1>0, <1>1, PendingStep DEF TalkOK
<1>2. CASE pc[Coordinator] = "launch" /\ i \in todo[Coordinator]
  <2>1. i \in Items /\ status[i] = "pending" /\ ~MarkBlocked
    BY <1>0, <1>2 DEF QueueOK, MarkBlocked
  <2>2. ~(Launch(Coordinator) /\ i = Least(todo[Coordinator]))
    BY <1>0 DEF Launch, Drop
  <2> QED BY <1>1, <2>1, <2>2
<1>3. CASE Dispatch
  <2>1. i \in Ready /\ pc[Coordinator] = "mark"
    BY <1>0, <1>3 DEF Dispatch, Take
  <2>2. i \in Items /\ status[i] = "pending" /\ status' = status
    BY <1>3, <2>1 DEF TowardOK, Dispatch, Ready
  <2> QED BY <2>2
<1>4. CASE Refuse \/ MarkBlocked \/ UNCHANGED vars
  <2>1. pc' = pc /\ (todo' = todo \/ pc[Coordinator] = "mark")
    BY <1>4 DEF Refuse, MarkBlocked, vars
  <2> QED BY <1>2, <2>1
<1>5. ASSUME NEW a \in Humans, Work(a) \/ Abort(a) \/ Rebrief(a) PROVE status'[i] = "pending"
  BY <1>0, <1>2, <1>5, OthersLocals
<1>6. CASE Launch(Coordinator)
  BY <1>0, <1>2, <1>6 DEF Launch, Drop
<1>7. CASE ApplyFirst(Coordinator) \/ ApplySecond(Coordinator)
  BY <1>7 DEF ApplyFirst, ApplySecond
<1>8. CASE \/ Start \/ Snapshot \/ NoneReady \/ ReadFinal \/ Close
           \/ RunParallel(Coordinator) \/ WaveOver(Coordinator)
           \/ LaunchRefused(Coordinator) \/ Abort(Coordinator)
  <2>1. pc'[Coordinator] # "launch"
    BY <1>0, <1>8 DEF Start, Snapshot, NoneReady, ReadFinal, Close, RunParallel, WaveOver,
                      LaunchRefused, Abort, Unwind, Goto
  <2> QED BY <2>1
<1> QED BY <1>0, <1>3, <1>4, <1>5, <1>6, <1>7, <1>8 DEF Next, Coordinate, Work

-----------------------------------------------------------------------------
(* Outcomes.  The record of a crash comes after the status, and between the *)
(* two another human may take the item: outcomes are safe if there is none  *)
(* or if no worker crashes.                                                 *)

NoLateRecord == "crash" \notin Results \/ \A g, h \in Humans : g = h

(* An item of which a crash is half recorded has the status of the crash. *)
LateOK ==
    \A b \in Actors : half[b] /\ result[b][Least(todo[b])] = "crash" =>
        status[Least(todo[b])] = IF b = Coordinator THEN "stopped" ELSE "escalated"

(* The invariant of the items that nobody works on. *)
LateInv == OwnedInv /\ TalkOK /\ TowardOK /\ QueueOK /\ LateOK

(* An item that ended without converging is only ever taken up again by the
   launch of one that is escalated. *)
LEMMA EndedStep ==
    ASSUME OwnedInv, [Next]_vars, NEW i \in Items, status[i] \in {"stopped", "escalated"},
           status'[i] # status[i]
    PROVE  status[i] = "escalated" /\ \E a \in Actors : Launch(a) /\ i \in todo[a] /\ pc[a] = "launch"
<1> USE DEF storeVars, actorVars
<1>0. /\ Coordinator \in Actors /\ TypeOK /\ ResultsOK /\ OwnersOK
      /\ todo \in [Actors -> SUBSET Items] /\ status \in [Items -> Statuses]
  BY DEF OwnedInv, FleetInv, TypeOK, Actors
<1>1. ~(Start \/ Refuse \/ Snapshot \/ Dispatch \/ NoneReady \/ ReadFinal \/ Close \/ UNCHANGED vars)
  BY DEF Start, Refuse, Snapshot, Dispatch, NoneReady, ReadFinal, Close, vars
<1>2. ~MarkBlocked
  <2>1. ASSUME MarkBlocked PROVE FALSE
    <3>1. Least(todo[Coordinator]) \in Items /\ SetStatus(Least(todo[Coordinator]), "blocked_on_dep")
      BY <1>0, <2>1, LeastIsIn DEF MarkBlocked
    <3> QED BY <1>0, <3>1, GuardedStep
  <2> QED BY <2>1
<1>3. \A h \in Humans : ~Rebrief(h)
  BY DEF Rebrief
<1>4. ASSUME NEW a \in Actors PROVE ~ApplyFirst(a) /\ ~ApplySecond(a)
  <2>1. SUFFICES ASSUME ApplyFirst(a) \/ ApplySecond(a) PROVE FALSE
    OBVIOUS
  <2> DEFINE j == Least(todo[a])
             dst == Classify(a, result[a][j])
  <2>2. j \in todo[a] /\ j \in Items /\ pc[a] = "apply"
    BY <1>0, <2>1, LeastIsIn DEF ApplyFirst, ApplySecond
  <2>3. SetStatus(j, dst) /\ j \in Held(a)
    BY <2>1, <2>2 DEF ApplyFirst, ApplySecond, Held
  <2>4. status[j] = "running"
    BY <1>0, <2>3 DEF OwnersOK
  <2> HIDE DEF j, dst
  <2> QED BY <1>0, <2>2, <2>3, <2>4, GuardedStep
<1>5. PICK a \in Actors : Launch(a)
  BY <1>1, <1>2, <1>3, <1>4
  DEF Next, Coordinate, Work, LaunchRefused, RunParallel, WaveOver, Abort, Unwind
<1>6. /\ Least(todo[a]) \in todo[a] /\ Least(todo[a]) \in Items /\ pc[a] = "launch"
      /\ SetStatus(Least(todo[a]), "running")
  BY <1>0, <1>5, LeastIsIn DEF Launch
<1>7. i = Least(todo[a]) /\ status[i] \in {"pending", "escalated"}
  BY <1>0, <1>6, GuardedStep
<1> QED BY <1>5, <1>6, <1>7

(* A first write is there until its second. *)
LEMMA HalfKept ==
    ASSUME OwnedInv, [Next]_vars
    PROVE  \A b \in Actors : half'[b] =>
              ApplyFirst(b) \/ (half[b] /\ todo'[b] = todo[b] /\ result'[b] = result[b])
<1> USE DEF storeVars, actorVars
<1> SUFFICES ASSUME NEW b \in Actors, half'[b], ~ApplyFirst(b)
             PROVE  half[b] /\ todo'[b] = todo[b] /\ result'[b] = result[b]
  OBVIOUS
<1>0. TypeOK /\ Coordinator \in Actors /\ Humans \subseteq Actors /\ half \in [Actors -> BOOLEAN]
  BY DEF OwnedInv, FleetInv, TypeOK, Actors
<1>1. CASE Refuse \/ UNCHANGED vars
  BY <1>1 DEF Refuse, vars
<1>2. ASSUME NEW a \in Actors, a # b,
             \/ Work(a) \/ Abort(a) \/ (a \in Humans /\ Rebrief(a))
             \/ (a = Coordinator /\ (Start \/ Coordinate))
      PROVE  half[b] /\ todo'[b] = todo[b] /\ result'[b] = result[b]
  BY <1>0, <1>2, OthersLocals
<1>3. CASE b = Coordinator /\ (Start \/ Coordinate)
  <2>1. half' = half /\ pc[b] # "apply"
    BY <1>3 DEF Start, Coordinate, Snapshot, MarkBlocked, Dispatch, NoneReady, ReadFinal, Close
  <2> QED BY <2>1 DEF OwnedInv, HalfOK
<1>4. CASE b \in Humans /\ Rebrief(b)
  BY <1>4 DEF Rebrief, OwnedInv, HalfOK
<1>5. CASE Launch(b) \/ RunParallel(b) \/ WaveOver(b)
  BY <1>5 DEF Launch, RunParallel, WaveOver, OwnedInv, HalfOK
<1>6. CASE ApplySecond(b) \/ LaunchRefused(b) \/ Abort(b)
  BY <1>0, <1>6 DEF ApplySecond, LaunchRefused, Abort, Unwind
<1> QED BY <1>0, <1>1, <1>2, <1>3, <1>4, <1>5, <1>6 DEF Next, Work

(* Nobody takes up the item of a crash between its two writes: another human
   would have to, there being one only; and the coordinator's are pending. *)
LEMMA LateStep ==
    ASSUME NoLateRecord, LateInv, [Next]_vars
    PROVE  LateOK'
<1> SUFFICES ASSUME NEW b \in Actors, half'[b], result'[b][Least(todo[b])'] = "crash"
             PROVE  status'[Least(todo[b])'] = IF b = Coordinator THEN "stopped" ELSE "escalated"
  BY DEF LateOK
<1>0. /\ OwnedInv /\ TypeOK /\ ResultsOK /\ HalfOK /\ QueueOK /\ LateOK
      /\ todo \in [Actors -> SUBSET Items] /\ status \in [Items -> Statuses]
      /\ Actors = {Coordinator} \cup Humans /\ Coordinator \notin Humans
  BY ActorsAssumption DEF LateInv, OwnedInv, FleetInv, TypeOK, Actors
<1>1. CASE ApplyFirst(b)
  <2>1. Least(todo[b]) \in Items /\ result' = result /\ Least(todo[b])' = Least(todo[b])
    BY <1>0, <1>1, LeastIsIn DEF ApplyFirst, Least
  <2>2. SetStatus(Least(todo[b]), Classify(b, "crash"))
    BY <1>1, <2>1 DEF ApplyFirst
  <2>3. status'[Least(todo[b])] = Classify(b, "crash")
    BY <1>0, <2>1, <2>2, GuardedStep
  <2>4. Classify(b, "crash") = IF b = Coordinator THEN "stopped" ELSE "escalated"
    <3>1. CASE b = Coordinator
      BY <1>0, <3>1 DEF Classify
    <3>2. CASE b \in Humans
      BY <1>0, <3>2 DEF Classify
    <3> QED BY <1>0, <3>1, <3>2
  <2> QED BY <2>1, <2>3, <2>4
<1>2. CASE ~ApplyFirst(b)
  <2> DEFINE i == Least(todo[b])
  <2>1. half[b] /\ todo'[b] = todo[b] /\ result'[b] = result[b]
    BY <1>0, <1>2, HalfKept
  <2>2. Least(todo[b])' = i
    BY <2>1 DEF Least
  <2>3. i \in todo[b] /\ i \in Items /\ pc[b] = "apply" /\ result[b][i] = "crash"
    BY <1>0, <2>1, <2>2, LeastIsIn DEF HalfOK
  <2>4. status[i] = IF b = Coordinator THEN "stopped" ELSE "escalated"
    BY <1>0, <2>1, <2>3 DEF LateOK
  <2>5. status'[i] = status[i]
    <3>1. SUFFICES ASSUME status'[i] # status[i] PROVE FALSE
      OBVIOUS
    <3>2. /\ status[i] = "escalated"
          /\ \E a \in Actors : Launch(a) /\ i \in todo[a] /\ pc[a] = "launch"
      BY <1>0, <2>3, <2>4, <3>1, EndedStep
    <3>3. PICK a \in Actors : i \in todo[a] /\ pc[a] = "launch"
      BY <3>2
    <3>4. b \in Humans
      BY <1>0, <2>4, <3>2
    <3>5. CASE a = Coordinator
      BY <1>0, <3>2, <3>3, <3>5 DEF QueueOK
    <3>6. CASE a \in Humans
      <4>1. "crash" \in Results
        BY <1>0, <2>3 DEF ResultsOK
      <4>2. a = b
        BY <3>4, <3>6, <4>1 DEF NoLateRecord
      <4> QED BY <2>3, <3>3, <4>2
    <3> QED BY <1>0, <3>5, <3>6
  <2> QED BY <2>2, <2>4, <2>5
<1> QED BY <1>1, <1>2

(* It holds of a new fleet, and every step keeps it. *)
LEMMA InitLate == Init => LateInv
<1> SUFFICES ASSUME Init PROVE LateInv
  OBVIOUS
<1>1. \A a \in Actors : pc[a] = "idle" /\ ~half[a]
  BY DEF Init
<1>2. Coordinator \in Actors /\ Humans \subseteq Actors
  BY DEF Actors
<1> QED BY <1>1, <1>2, InitOwned DEF LateInv, TalkOK, TowardOK, QueueOK, LateOK

LEMMA LateInvStep == NoLateRecord /\ LateInv /\ [Next]_vars => LateInv'
<1> SUFFICES ASSUME NoLateRecord, LateInv, [Next]_vars PROVE LateInv'
  OBVIOUS
<1>1. OwnedInv /\ TypeOK /\ ResultsOK /\ TalkOK /\ TowardOK /\ QueueOK
  BY DEF LateInv, OwnedInv, FleetInv
<1> QED BY <1>1, OwnedStep, TalkStep, TowardStep, QueueStep, LateStep DEF LateInv

(* What is half recorded is the outcome that the status will stand for, and
   what has converged has an outcome. *)
OutcomeOK ==
    /\ \A a \in Actors : half[a] /\ result[a][Least(todo[a])] # "crash" =>
          outcome[Least(todo[a])] = result[a][Least(todo[a])]
    /\ \A i \in Items : status[i] = "converged" => outcome[i] \in Results
    /\ Escalating => \A i \in Items : status[i] = "converged" => outcome[i] = "shippable"

(* The escalating classifier takes a result for converged only if no
   confirmation is owed. *)
LEMMA ConvergedResult ==
    ASSUME NEW a \in Actors, NEW r \in Results, Classify(a, r) = "converged"
    PROVE  Escalating => r = "shippable"
<1>1. r \in {"shippable", "gated", "blocked", "stopped", "crash"}
  BY ResultsAssumption
<1> QED BY <1>1 DEF Classify

(* The outcome of an item is written by its owner while it runs, or it is the
   late record of a crash on an item that has ended. *)
LEMMA OutcomeWriter ==
    ASSUME LateInv, [Next]_vars
    PROVE  \A i \in Items : outcome'[i] # outcome[i] =>
              \/ \E a \in Actors : ApplyFirst(a) /\ i \in Held(a)
              \/ status[i] \in {"stopped", "escalated"}
<1> USE DEF storeVars, actorVars
<1> SUFFICES ASSUME NEW i \in Items, outcome'[i] # outcome[i]
             PROVE  \/ \E a \in Actors : ApplyFirst(a) /\ i \in Held(a)
                    \/ status[i] \in {"stopped", "escalated"}
  OBVIOUS
<1>0. /\ TypeOK /\ ResultsOK /\ LateOK /\ todo \in [Actors -> SUBSET Items]
      /\ outcome \in [Items -> Results \cup {None}] /\ half \in [Actors -> BOOLEAN]
  BY DEF LateInv, OwnedInv, FleetInv, TypeOK
<1>1. PICK a \in Actors : ApplyFirst(a) \/ ApplySecond(a)
  <2>1. ~(Start \/ Refuse \/ Coordinate \/ UNCHANGED vars)
    BY DEF Start, Refuse, Coordinate, Snapshot, MarkBlocked, Dispatch, NoneReady, ReadFinal,
           Close, vars
  <2>2. \A h \in Humans : ~Rebrief(h)
    BY DEF Rebrief
  <2>3. ASSUME NEW a \in Actors, Work(a) \/ Abort(a) PROVE ApplyFirst(a) \/ ApplySecond(a)
    BY <2>3 DEF Work, Launch, LaunchRefused, RunParallel, WaveOver, Abort, Unwind
  <2> QED BY <2>1, <2>2, <2>3 DEF Next
<1>2. Least(todo[a]) \in todo[a] /\ pc[a] = "apply"
  BY <1>0, <1>1, LeastIsIn DEF ApplyFirst, ApplySecond
<1>3. outcome' = [outcome EXCEPT ![Least(todo[a])] = result[a][Least(todo[a])]]
  BY <1>1 DEF ApplyFirst, ApplySecond
<1>4. i = Least(todo[a])
  BY <1>0, <1>3
<1>5. CASE ApplyFirst(a)
  <2>1. i \in Held(a)
    BY <1>2, <1>4, <1>5 DEF Held, ApplyFirst
  <2> QED BY <1>5, <2>1
<1>6. CASE ApplySecond(a)
  <2>1. half[a] /\ result[a][i] = "crash"
    BY <1>4, <1>6 DEF ApplySecond
  <2> QED BY <1>0, <1>4, <2>1 DEF LateOK
<1> QED BY <1>1, <1>5, <1>6

(* The outcome of a converged item is not written again. *)
LEMMA OutcomeFinal ==
    ASSUME LateInv, [Next]_vars
    PROVE  \A i \in Items : status[i] = "converged" =>
              status'[i] = "converged" /\ outcome'[i] = outcome[i]
<1>1. \A i \in Items : status[i] = "converged" => status'[i] = "converged"
  BY ConvergedGrows DEF LateInv, OwnedInv, FleetInv
<1>2. \A i \in Items : status[i] = "converged" => outcome'[i] = outcome[i]
  BY OutcomeWriter DEF LateInv, OwnedInv, OwnersOK
<1> QED BY <1>1, <1>2

(* What has converged is final, whatever later waves, runs, crashes and
   re-briefs do, unless workers crash and two humans re-brief: then the record
   of a crash may come late, on an item the other has brought to converge. *)
THEOREM FinalTheorem == ASSUME NoLateRecord PROVE Spec => ConvergedIsFinal
<1>1. LateInv /\ [Next]_vars =>
        [\A i \in Items : status[i] = "converged" =>
            status'[i] = "converged" /\ outcome'[i] = outcome[i]]_vars
  BY OutcomeFinal
<1>2. LateInv /\ [Next]_vars => LateInv'
  BY LateInvStep
<1> QED BY <1>1, <1>2, InitLate, PTL DEF Spec, ConvergedIsFinal

-----------------------------------------------------------------------------
(* What has converged has the outcome it was classified by.                *)

(* A row becomes converged by the second write of a result, of which the
   first is done. *)
LEMMA ConvergedBy ==
    ASSUME OwnedInv, [Next]_vars
    PROVE  \A i \in Items : status'[i] = "converged" /\ status[i] # "converged" =>
              \E a \in Actors :
                 /\ half[a] /\ i = Least(todo[a]) /\ result[a][i] \in Results \ {"crash"}
                 /\ Classify(a, result[a][i]) = "converged" /\ outcome' = outcome
<1> USE DEF storeVars, actorVars
<1> SUFFICES ASSUME NEW i \in Items, status'[i] = "converged", status[i] # "converged"
             PROVE  \E a \in Actors :
                       /\ half[a] /\ i = Least(todo[a]) /\ result[a][i] \in Results \ {"crash"}
                       /\ Classify(a, result[a][i]) = "converged" /\ outcome' = outcome
  OBVIOUS
<1>0. /\ TypeOK /\ ResultsOK /\ todo \in [Actors -> SUBSET Items]
      /\ status \in [Items -> Statuses] /\ Coordinator \in Actors
  BY DEF OwnedInv, FleetInv, TypeOK, Actors
<1>1. ~(Start \/ Refuse \/ Snapshot \/ Dispatch \/ NoneReady \/ ReadFinal \/ Close \/ UNCHANGED vars)
  BY DEF Start, Refuse, Snapshot, Dispatch, NoneReady, ReadFinal, Close, vars
<1>2. ~MarkBlocked
  <2>1. ASSUME MarkBlocked PROVE FALSE
    <3>1. Least(todo[Coordinator]) \in Items /\ SetStatus(Least(todo[Coordinator]), "blocked_on_dep")
      BY <1>0, <2>1, LeastIsIn DEF MarkBlocked
    <3> QED BY <1>0, <3>1, GuardedStep
  <2> QED BY <2>1
<1>3. \A h \in Humans : ~Rebrief(h)
  BY DEF Rebrief
<1>4. ASSUME NEW a \in Actors PROVE ~Launch(a)
  <2>1. ASSUME Launch(a) PROVE FALSE
    <3>1. Least(todo[a]) \in Items /\ SetStatus(Least(todo[a]), "running")
      BY <1>0, <2>1, LeastIsIn DEF Launch
    <3> QED BY <1>0, <3>1, GuardedStep
  <2> QED BY <2>1
<1>5. PICK a \in Actors : ApplyFirst(a) \/ ApplySecond(a)
  BY <1>1, <1>2, <1>3, <1>4
  DEF Next, Coordinate, Work, LaunchRefused, RunParallel, WaveOver, Abort, Unwind
<1> DEFINE j == Least(todo[a])
<1>6. j \in todo[a] /\ j \in Items /\ result[a][j] \in Results
  BY <1>0, <1>5, LeastIsIn DEF ApplyFirst, ApplySecond, ResultsOK
<1>7. SetStatus(j, Classify(a, result[a][j])) /\ outcome' = outcome
  BY <1>0, <1>5, <1>6 DEF ApplyFirst, ApplySecond
<1>8. j = i /\ Classify(a, result[a][j]) = "converged"
  BY <1>0, <1>6, <1>7, GuardedStep
<1>9. result[a][j] # "crash"
  BY <1>8 DEF Classify, Actors
<1>10. half[a]
  BY <1>0, <1>5, <1>6, <1>9 DEF ApplyFirst, ApplySecond
<1> QED BY <1>6, <1>7, <1>8, <1>9, <1>10

(* The two writes of a result are of one result. *)
LEMMA OutcomeStep ==
    ASSUME LateInv, OutcomeOK, [Next]_vars
    PROVE  OutcomeOK'
<1>0. /\ todo \in [Actors -> SUBSET Items] /\ ResultsOK /\ HalfOK /\ OwnersOK /\ OwnedInv
      /\ outcome \in [Items -> Results \cup {None}]
  BY DEF LateInv, OwnedInv, FleetInv, TypeOK
<1>1. ASSUME NEW b \in Actors, half'[b], result'[b][Least(todo[b])'] # "crash"
      PROVE  outcome'[Least(todo[b])'] = result'[b][Least(todo[b])']
  <2>1. CASE ApplyFirst(b)
    <3>1. Least(todo[b]) \in todo[b] /\ result' = result /\ Least(todo[b])' = Least(todo[b])
      BY <1>0, <2>1, LeastIsIn DEF ApplyFirst, Least
    <3> QED BY <1>0, <1>1, <2>1, <3>1 DEF ApplyFirst
  <2>2. CASE ~ApplyFirst(b)
    <3>1. half[b] /\ todo'[b] = todo[b] /\ result'[b] = result[b]
      BY <1>0, <1>1, <2>2, HalfKept
    <3>2. Least(todo[b])' = Least(todo[b])
      BY <3>1 DEF Least
    <3>3. /\ Least(todo[b]) \in todo[b] /\ Least(todo[b]) \in Items /\ pc[b] = "apply"
          /\ result[b][Least(todo[b])] # "crash"
      BY <1>0, <1>1, <3>1, <3>2, LeastIsIn DEF HalfOK
    <3>4. Least(todo[b]) \in Held(b) /\ status[Least(todo[b])] = "running"
      BY <1>0, <3>3 DEF Held, OwnersOK
    <3>5. outcome'[Least(todo[b])] = outcome[Least(todo[b])]
      BY <1>0, <2>2, <3>3, <3>4, OutcomeWriter DEF OwnersOK
    <3> QED BY <3>1, <3>2, <3>3, <3>5 DEF OutcomeOK
  <2> QED BY <2>1, <2>2
<1>2. ASSUME NEW i \in Items, status'[i] = "converged"
      PROVE  outcome'[i] \in Results /\ (Escalating => outcome'[i] = "shippable")
  <2>1. CASE status[i] = "converged"
    BY <2>1, OutcomeFinal DEF OutcomeOK
  <2>2. CASE status[i] # "converged"
    BY <1>0, <1>2, <2>2, ConvergedBy, ConvergedResult DEF OutcomeOK
  <2> QED BY <2>1, <2>2
<1> QED BY <1>1, <1>2 DEF OutcomeOK

(* A fleet is reported converged only with all of its items. *)
FleetOK == fleet = "converged" => \A i \in Items : status[i] = "converged"

(* The report is made from a snapshot, and convergence is final. *)
LEMMA FleetStep ==
    ASSUME FleetInv, FleetOK, [Next]_vars
    PROVE  FleetOK'
<1> USE DEF storeVars, actorVars
<1>1. \A i \in Items : status[i] = "converged" => status'[i] = "converged"
  BY ConvergedGrows DEF FleetInv
<1>2. CASE fleet' = fleet
  BY <1>1, <1>2 DEF FleetOK
<1>3. CASE Close
  <2>1. fleet' = "converged" => \A i \in Items : seen[Coordinator].status[i] = "converged"
    BY <1>3 DEF Close, FinalStatus
  <2>2. \A i \in Items : seen[Coordinator].status[i] = "converged" => status[i] = "converged"
    BY <1>3 DEF FleetInv, SnapshotOK, Close
  <2> QED BY <1>1, <2>1, <2>2 DEF FleetOK
<1>4. ~Close => fleet' = fleet
  BY DEF Next, Start, Refuse, Coordinate, Snapshot, MarkBlocked, Dispatch, NoneReady, ReadFinal,
         Rebrief, Work, Launch, LaunchRefused, RunParallel, ApplyFirst, ApplySecond, WaveOver,
         Abort, Unwind, vars
<1> QED BY <1>2, <1>3, <1>4

(* The invariant with the outcomes. *)
RecordInv == LateInv /\ OutcomeOK /\ FleetOK

(* It holds of a new fleet. *)
LEMMA InitRecord == Init => RecordInv
<1> SUFFICES ASSUME Init PROVE RecordInv
  OBVIOUS
<1>1. OutcomeOK /\ FleetOK
  BY DEF Init, OutcomeOK, FleetOK, NoRows
<1> QED BY <1>1, InitLate DEF RecordInv

(* And every step keeps it. *)
LEMMA RecordStep == NoLateRecord /\ RecordInv /\ [Next]_vars => RecordInv'
BY LateInvStep, OutcomeStep, FleetStep DEF RecordInv, LateInv, OwnedInv

(* With the escalating classifier nothing unconfirmed is ever merged, by the
   waves or by the re-briefs, whoever dies and whatever worker crashes, and a
   fleet is reported converged only with every item.  Only the late record of
   a crash that meets a second human (NoLateRecord) is excluded. *)
THEOREM ShippableTheorem == ASSUME NoLateRecord, Escalating PROVE Spec => []ConvergedIsShippable
<1>1. RecordInv => ConvergedIsShippable
  BY DEF RecordInv, OutcomeOK, FleetOK, ConvergedIsShippable
<1>2. RecordInv /\ [Next]_vars => RecordInv'
  BY RecordStep
<1> QED BY <1>1, <1>2, InitRecord, PTL DEF Spec

-----------------------------------------------------------------------------
(* What a worker is handed.                                                *)

(* What the coordinator saw converged still is, with the outcome it saw. *)
SeenOK ==
    pc[Coordinator] \in {"mark", "launch"} =>
        \A d \in Items : seen[Coordinator].status[d] = "converged" =>
            status[d] = "converged" /\ seen[Coordinator].outcome[d] = outcome[d]

(* Its wave was chosen from what it saw. *)
ChosenOK ==
    pc[Coordinator] = "launch" =>
        \A i \in wave[Coordinator] : \A d \in deps[i] : seen[Coordinator].status[d] = "converged"

(* A wave or a re-brief has its dependencies converged, from launch to end. *)
WaveOK ==
    \A a \in Actors : pc[a] \in {"launch", "apply"} =>
        \A i \in wave[a] : i \in Items /\ deps[i] \subseteq Converged

(* What the worker of an item was given is what the item's dependencies have
   for an outcome still. *)
HandedOK ==
    \A a \in Actors : pc[a] = "apply" =>
        \A i \in wave[a] : handed[i] = {<<d, outcome[d]>> : d \in deps[i]}

UpInv == RecordInv /\ SeenOK /\ ChosenOK /\ WaveOK /\ HandedOK

(* A step of somebody else, or one that leaves an actor where it is. *)
Stays(a) == pc'[a] = pc[a] /\ wave'[a] = wave[a] /\ seen'[a] = seen[a]

(* An actor moves by a step of its own only. *)
LEMMA WhoMoves ==
    ASSUME TypeOK, NEW b \in Actors, [Next]_vars
    PROVE  \/ Stays(b)
           \/ RunParallel(b) \/ WaveOver(b) \/ LaunchRefused(b) \/ Abort(b)
           \/ b \in Humans /\ Rebrief(b)
           \/ b = Coordinator /\ (Start \/ Snapshot \/ Dispatch \/ NoneReady \/ ReadFinal \/ Close)
<1> USE DEF storeVars, actorVars
<1>0. Coordinator \in Actors /\ Humans \subseteq Actors
  BY DEF Actors
<1>1. CASE Refuse \/ MarkBlocked \/ UNCHANGED vars
  BY <1>1 DEF Stays, Refuse, MarkBlocked, vars
<1>2. ASSUME NEW a \in Actors, a # b,
             \/ Work(a) \/ Abort(a) \/ (a \in Humans /\ Rebrief(a))
             \/ (a = Coordinator /\ (Start \/ Coordinate))
      PROVE  Stays(b)
  BY <1>2, OthersLocals DEF Stays
<1>3. CASE Launch(b) \/ ApplyFirst(b) \/ ApplySecond(b)
  BY <1>3 DEF Stays, Launch, ApplyFirst, ApplySecond
<1> QED BY <1>0, <1>1, <1>2, <1>3 DEF Next, Work, Coordinate

(* What the coordinator has seen only gets older: it stays true. *)
LEMMA SeenStep ==
    ASSUME UpInv, [Next]_vars
    PROVE  SeenOK'
<1> USE DEF storeVars, actorVars
<1> SUFFICES ASSUME pc'[Coordinator] \in {"mark", "launch"}, NEW d \in Items,
                    seen'[Coordinator].status[d] = "converged"
             PROVE  status'[d] = "converged" /\ seen'[Coordinator].outcome[d] = outcome'[d]
  BY DEF SeenOK
<1>0. /\ Coordinator \in Actors /\ Coordinator \notin Humans /\ LateInv /\ TypeOK
      /\ pc \in [Actors -> {"idle", "snapshot", "mark", "launch", "apply", "finalize", "close"}]
      /\ DOMAIN seen = Actors
  BY ActorsAssumption DEF UpInv, RecordInv, LateInv, OwnedInv, FleetInv, TypeOK, Actors
<1>1. CASE seen'[Coordinator] = seen[Coordinator] /\ pc[Coordinator] \in {"mark", "launch"}
  BY <1>0, <1>1, OutcomeFinal DEF UpInv, SeenOK
<1>2. CASE Stays(Coordinator) \/ Dispatch
  BY <1>1, <1>2 DEF Stays, Dispatch
<1>3. CASE Snapshot
  BY <1>0, <1>3 DEF Snapshot, Read, Rows
<1>4. CASE \/ Start \/ NoneReady \/ ReadFinal \/ Close \/ RunParallel(Coordinator)
           \/ WaveOver(Coordinator) \/ LaunchRefused(Coordinator) \/ Abort(Coordinator)
  <2>1. pc'[Coordinator] \notin {"mark", "launch"}
    BY <1>0, <1>4 DEF Start, NoneReady, ReadFinal, Close, RunParallel, WaveOver, LaunchRefused,
                      Abort, Unwind, Goto
  <2> QED BY <2>1
<1> QED BY <1>0, <1>2, <1>3, <1>4, WhoMoves

(* The wave stays the one that was chosen. *)
LEMMA ChosenStep ==
    ASSUME UpInv, [Next]_vars
    PROVE  ChosenOK'
<1> USE DEF storeVars, actorVars
<1> SUFFICES ASSUME pc'[Coordinator] = "launch", NEW i \in wave'[Coordinator], NEW d \in deps'[i]
             PROVE  seen'[Coordinator].status[d] = "converged"
  BY DEF ChosenOK
<1>0. /\ Coordinator \in Actors /\ Coordinator \notin Humans /\ TypeOK
      /\ pc \in [Actors -> {"idle", "snapshot", "mark", "launch", "apply", "finalize", "close"}]
      /\ DOMAIN wave = Actors /\ deps' = deps
  BY ActorsAssumption, RowStep DEF UpInv, RecordInv, LateInv, OwnedInv, FleetInv, TypeOK, Actors
<1>1. CASE Stays(Coordinator)
  BY <1>0, <1>1 DEF UpInv, ChosenOK, Stays
<1>2. CASE Dispatch
  BY <1>0, <1>2 DEF Dispatch, Take, Ready
<1>3. CASE \/ Start \/ Snapshot \/ NoneReady \/ ReadFinal \/ Close \/ RunParallel(Coordinator)
           \/ WaveOver(Coordinator) \/ LaunchRefused(Coordinator) \/ Abort(Coordinator)
  <2>1. pc'[Coordinator] # "launch"
    BY <1>0, <1>3 DEF Start, Snapshot, NoneReady, ReadFinal, Close, RunParallel, WaveOver,
                      LaunchRefused, Abort, Unwind, Goto
  <2> QED BY <2>1
<1> QED BY <1>0, <1>1, <1>2, <1>3, WhoMoves

(* The dependencies of a wave stay converged until it is over. *)
LEMMA WaveStep ==
    ASSUME UpInv, [Next]_vars
    PROVE  WaveOK'
<1> USE DEF storeVars, actorVars
<1> SUFFICES ASSUME NEW b \in Actors, pc'[b] \in {"launch", "apply"}, NEW i \in wave'[b]
             PROVE  i \in Items /\ (deps[i] \subseteq Converged)'
  BY DEF WaveOK
<1>0. /\ Coordinator \in Actors /\ Coordinator \notin Humans /\ TypeOK /\ FleetInv
      /\ pc \in [Actors -> {"idle", "snapshot", "mark", "launch", "apply", "finalize", "close"}]
      /\ DOMAIN wave = Actors
  BY ActorsAssumption DEF UpInv, RecordInv, LateInv, OwnedInv, FleetInv, TypeOK, Actors
<1>1. deps' = deps /\ Converged \subseteq Converged'
  BY <1>0, RowStep, ConvergedGrows DEF FleetInv, Converged
<1>2. CASE wave'[b] = wave[b] /\ pc[b] \in {"launch", "apply"}
  BY <1>1, <1>2 DEF UpInv, WaveOK
<1>3. CASE Stays(b) \/ RunParallel(b)
  BY <1>2, <1>3 DEF Stays, RunParallel
<1>4. CASE b = Coordinator /\ Dispatch
  <2>1. i \in Ready /\ pc[Coordinator] = "mark"
    BY <1>0, <1>4 DEF Dispatch, Take
  <2>2. i \in Items /\ deps[i] \subseteq Items
    BY <1>0, <2>1 DEF FleetInv, GraphOK, Ready
  <2>3. deps[i] \subseteq Converged
    BY <1>0, <2>1, <2>2 DEF FleetInv, SnapshotOK, Converged, Ready
  <2> QED BY <1>1, <2>2, <2>3
<1>5. CASE b \in Humans /\ Rebrief(b)
  <2>1. PICK j \in Items : status[j] = "escalated" /\ Take(b, {j})
    BY <1>5 DEF Rebrief
  <2>2. i = j
    BY <1>0, <2>1 DEF Take
  <2> QED BY <1>0, <1>1, <2>1, <2>2 DEF FleetInv, OrderOK
<1>6. CASE \/ WaveOver(b) \/ LaunchRefused(b) \/ Abort(b)
           \/ b = Coordinator /\ (Start \/ Snapshot \/ NoneReady \/ ReadFinal \/ Close)
  <2>1. pc'[b] \notin {"launch", "apply"}
    BY <1>0, <1>6 DEF Start, Snapshot, NoneReady, ReadFinal, Close, WaveOver, LaunchRefused,
                      Abort, Unwind, Goto
  <2> QED BY <2>1
<1> QED BY <1>0, <1>3, <1>4, <1>5, <1>6, WhoMoves

(* A worker is given the outcome of every dependency, as it is now: from the
   snapshot for the coordinator, from the rows for a human. *)
LEMMA HandedNow ==
    ASSUME UpInv, NEW a \in Actors, RunParallel(a), NEW i \in wave[a]
    PROVE  handed'[i] = {<<d, outcome[d]>> : d \in deps[i]}
<1> DEFINE of == IF a = Coordinator THEN seen[a].outcome ELSE outcome
<1>0. TypeOK /\ pc[a] = "launch" /\ i \in Items /\ deps[i] \subseteq Converged
  BY DEF UpInv, RecordInv, LateInv, OwnedInv, FleetInv, RunParallel, WaveOK
<1>1. \A d \in deps[i] : outcome[d] \in Results
  BY <1>0 DEF UpInv, RecordInv, OutcomeOK, Converged
<1>2. \A d \in deps[i] : of[d] = outcome[d]
  BY <1>0 DEF UpInv, SeenOK, ChosenOK, Converged
<1>3. \A d \in deps[i] : of[d] # None /\ of[d] = outcome[d]
  BY <1>1, <1>2, ResultsAssumption
<1>4. Upstream(a, i) = {<<d, of[d]>> : d \in {e \in deps[i] : of[e] # None}}
  BY DEF Upstream
<1>5. Upstream(a, i) = {<<d, outcome[d]>> : d \in deps[i]}
  BY <1>3, <1>4
<1>6. handed'[i] = Upstream(a, i)
  BY <1>0 DEF RunParallel
<1> QED BY <1>5, <1>6

(* Nobody is given anything but by a wave that has been run. *)
LEMMA HandedBy ==
    ASSUME TypeOK, NEW i \in Items, [Next]_vars
    PROVE  handed'[i] = handed[i] \/ \E a \in Actors : RunParallel(a) /\ i \in wave[a]
<1> USE DEF storeVars, actorVars
<1>1. ASSUME NEW a \in Actors, RunParallel(a)
      PROVE  handed'[i] = handed[i] \/ i \in wave[a]
  BY <1>1 DEF RunParallel
<1>2. \/ handed' = handed
      \/ \E a \in Actors : RunParallel(a)
  BY DEF Next, Start, Refuse, Coordinate, Snapshot, MarkBlocked, Dispatch, NoneReady, ReadFinal,
         Close, Rebrief, Work, Launch, LaunchRefused, ApplyFirst, ApplySecond, WaveOver, Abort,
         Unwind, vars
<1> QED BY <1>1, <1>2

(* What a worker was given stays what there is to give. *)
LEMMA HandedStep ==
    ASSUME UpInv, [Next]_vars
    PROVE  HandedOK'
<1> USE DEF storeVars, actorVars
<1> SUFFICES ASSUME NEW b \in Actors, pc'[b] = "apply", NEW i \in wave'[b]
             PROVE  handed'[i] = {<<d, outcome'[d]>> : d \in deps'[i]}
  BY DEF HandedOK
<1>0. /\ Coordinator \in Actors /\ TypeOK /\ FleetInv /\ LateInv
      /\ pc \in [Actors -> {"idle", "snapshot", "mark", "launch", "apply", "finalize", "close"}]
  BY DEF UpInv, RecordInv, LateInv, OwnedInv, FleetInv, TypeOK, Actors
<1>1. deps' = deps /\ \A d \in Items : status[d] = "converged" => outcome'[d] = outcome[d]
  BY <1>0, RowStep, OutcomeFinal DEF FleetInv
<1>2. /\ wave'[b] = wave[b] /\ (pc[b] = "apply" \/ RunParallel(b))
  <2>1. CASE \/ WaveOver(b) \/ LaunchRefused(b) \/ Abort(b) \/ (b \in Humans /\ Rebrief(b))
             \/ b = Coordinator /\ (Start \/ Snapshot \/ Dispatch \/ NoneReady \/ ReadFinal \/ Close)
    <3>1. pc'[b] # "apply"
      BY <1>0, <2>1 DEF Start, Snapshot, Dispatch, NoneReady, ReadFinal, Close, WaveOver,
                        LaunchRefused, Abort, Unwind, Rebrief, Goto
    <3> QED BY <3>1
  <2>2. CASE Stays(b) \/ RunParallel(b)
    BY <2>2 DEF Stays, RunParallel
  <2> QED BY <1>0, <2>1, <2>2, WhoMoves
<1>3. i \in Items /\ \A d \in deps[i] : d \in Items /\ status[d] = "converged"
  <2>1. pc[b] \in {"launch", "apply"} /\ i \in wave[b]
    BY <1>2 DEF RunParallel
  <2> QED BY <2>1 DEF UpInv, WaveOK, Converged
<1>4. handed'[i] = {<<d, outcome[d]>> : d \in deps[i]}
  <2>1. CASE \E a \in Actors : RunParallel(a) /\ i \in wave[a]
    BY <2>1, HandedNow
  <2>2. CASE ~ \E a \in Actors : RunParallel(a) /\ i \in wave[a]
    <3>1. handed'[i] = handed[i] /\ pc[b] = "apply" /\ i \in wave[b]
      BY <1>0, <1>2, <1>3, <2>2, HandedBy
    <3> QED BY <3>1 DEF UpInv, HandedOK
  <2> QED BY <2>1, <2>2
<1> QED BY <1>1, <1>3, <1>4

(* An item is worked on only with all of its dependencies converged, and with
   the outcomes they have, one for each, whoever dies and whatever worker
   crashes, with the exception of FinalTheorem. *)
THEOREM UpstreamTheorem == ASSUME NoLateRecord PROVE Spec => []UpstreamIsCurrent
<1>1. Init => UpInv
  <2> SUFFICES ASSUME Init PROVE UpInv
    OBVIOUS
  <2>1. \A a \in Actors : pc[a] = "idle"
    BY DEF Init
  <2>2. SeenOK /\ ChosenOK /\ WaveOK /\ HandedOK
    BY <2>1 DEF SeenOK, ChosenOK, WaveOK, HandedOK, Actors
  <2> QED BY <2>2, InitRecord DEF UpInv
<1>2. UpInv /\ [Next]_vars => UpInv'
  BY RecordStep, SeenStep, ChosenStep, WaveStep, HandedStep DEF UpInv
<1>3. UpInv => UpstreamIsCurrent
  BY DEF UpInv, WaveOK, HandedOK, UpstreamIsCurrent, Converged
<1> QED BY <1>1, <1>2, <1>3, PTL DEF Spec

-----------------------------------------------------------------------------
(* What a call leaves behind, as long as nobody died or was refused.       *)

(* What is still to be launched is of the wave. *)
TodoOK == \A a \in Actors : pc[a] = "launch" => todo[a] \subseteq wave[a]

(* A row that says running is answered for. *)
RunningOK ==
    ~aborted => \A i \in Items : status[i] = "running" => \E a \in Actors : i \in Held(a)

(* Until the first call has closed the fleet, no human is at work. *)
HumansOK == fleet = "running" => \A h \in Humans : pc[h] = "idle"

(* In the first call, the rows are those of the snapshot but for what was
   marked, and what is to be marked is in the loop or was gone through. *)
MarkedOK ==
    ~aborted /\ fleet = "running" /\ pc[Coordinator] = "mark" =>
        \A i \in Items :
            /\ seen[Coordinator].status[i] # "running"
            /\ \/ status[i] = seen[Coordinator].status[i]
               \/ seen[Coordinator].status[i] = "pending" /\ status[i] = "blocked_on_dep"
            /\ seen[Coordinator].status[i] = "pending"
               /\ (\E d \in deps[i] : seen[Coordinator].status[d] \in FailedDep)
                   => i \in todo[Coordinator] \/ status[i] = "blocked_on_dep"

(* Each pending item waits for one that will never converge in a wave. *)
Stuck ==
    \A i \in Items : status[i] = "pending" =>
        \E d \in Items : d \in deps[i] /\ status[d] \in {"pending", "blocked_on_dep"}

(* So it is once the first call has found no item ready. *)
StuckOK == ~aborted /\ (fleet # "running" \/ pc[Coordinator] \in {"finalize", "close"}) => Stuck

QuietInv == OwnedInv /\ TodoOK /\ RunningOK /\ HumansOK /\ MarkedOK /\ StuckOK

(* After a step that was no death and no refusal, there was none before. *)
LEMMA CalmStep ==
    ASSUME [Next]_vars, ~aborted'
    PROVE  ~aborted /\ ~Refuse /\ \A a \in Actors : ~LaunchRefused(a) /\ ~Abort(a)
<1> USE DEF storeVars, actorVars
<1>1. ~Refuse /\ \A a \in Actors : ~LaunchRefused(a) /\ ~Abort(a)
  BY DEF Refuse, LaunchRefused, Abort, Unwind
<1>2. CASE UNCHANGED vars
  BY <1>1, <1>2 DEF vars
<1>3. CASE Start \/ Coordinate \/ \E h \in Humans : Rebrief(h)
  BY <1>1, <1>3 DEF Start, Coordinate, Snapshot, MarkBlocked, Dispatch, NoneReady, ReadFinal,
                    Close, Rebrief
<1>4. ASSUME NEW a \in Actors, Work(a) PROVE ~aborted
  BY <1>1, <1>4 DEF Work, Launch, RunParallel, ApplyFirst, ApplySecond, WaveOver
<1> QED BY <1>1, <1>2, <1>3, <1>4 DEF Next

(* The loop over a wave only takes items out. *)
LEMMA TodoStep ==
    ASSUME OwnedInv, TodoOK, [Next]_vars
    PROVE  TodoOK'
<1> USE DEF storeVars, actorVars
<1> SUFFICES ASSUME NEW b \in Actors, pc'[b] = "launch" PROVE todo'[b] \subseteq wave'[b]
  BY DEF TodoOK
<1>0. /\ Coordinator \in Actors /\ Humans \subseteq Actors /\ TypeOK
      /\ pc \in [Actors -> {"idle", "snapshot", "mark", "launch", "apply", "finalize", "close"}]
      /\ todo \in [Actors -> SUBSET Items] /\ DOMAIN wave = Actors
  BY DEF OwnedInv, FleetInv, TypeOK, Actors
<1>1. CASE pc'[b] = pc[b] /\ wave'[b] = wave[b] /\ todo'[b] \subseteq todo[b]
  BY <1>1 DEF TodoOK
<1>2. CASE Refuse \/ UNCHANGED vars
  BY <1>1, <1>2 DEF Refuse, vars
<1>3. ASSUME NEW a \in Actors, a # b,
             \/ Work(a) \/ Abort(a) \/ (a \in Humans /\ Rebrief(a))
             \/ (a = Coordinator /\ (Start \/ Coordinate))
      PROVE  todo'[b] \subseteq wave'[b]
  BY <1>0, <1>1, <1>3, OthersLocals
<1>4. CASE b = Coordinator /\ (Dispatch \/ MarkBlocked)
  BY <1>0, <1>4 DEF Dispatch, MarkBlocked, Take
<1>5. CASE b = Coordinator /\ (Start \/ Snapshot \/ NoneReady \/ ReadFinal \/ Close)
  BY <1>0, <1>5 DEF Start, Snapshot, NoneReady, ReadFinal, Close, Goto
<1>6. CASE b \in Humans /\ Rebrief(b)
  <2>1. PICK i \in Items : Take(b, {i})
    BY <1>6 DEF Rebrief
  <2> QED BY <1>0, <2>1 DEF Take
<1>7. CASE Launch(b) \/ ApplyFirst(b) \/ ApplySecond(b)
  <2>1. pc' = pc /\ wave' = wave /\ todo'[b] \subseteq todo[b]
    BY <1>0, <1>7 DEF Launch, ApplyFirst, ApplySecond, Drop
  <2> QED BY <1>1, <2>1
<1>8. CASE RunParallel(b) \/ WaveOver(b) \/ LaunchRefused(b) \/ Abort(b)
  BY <1>0, <1>8 DEF RunParallel, WaveOver, LaunchRefused, Abort, Unwind, Goto
<1> QED BY <1>0, <1>2, <1>3, <1>4, <1>5, <1>6, <1>7, <1>8 DEF Next, Work, Coordinate

(* A row is set to running by who answers for it, and whoever answers for a
   row gives it up only with its status. *)
LEMMA RunningStep ==
    ASSUME OwnedInv, TodoOK, RunningOK, [Next]_vars
    PROVE  RunningOK'
<1> USE DEF storeVars, actorVars
<1> SUFFICES ASSUME ~aborted', NEW j \in Items, status'[j] = "running"
             PROVE  \E b \in Actors : j \in Held(b)'
  BY DEF RunningOK
<1>0. /\ Coordinator \in Actors /\ Humans \subseteq Actors /\ TypeOK /\ ResultsOK /\ HalfOK
      /\ pc \in [Actors -> {"idle", "snapshot", "mark", "launch", "apply", "finalize", "close"}]
      /\ todo \in [Actors -> SUBSET Items] /\ wave \in [Actors -> SUBSET Items]
      /\ status \in [Items -> Statuses] /\ half \in [Actors -> BOOLEAN]
  BY DEF OwnedInv, FleetInv, TypeOK, Actors
<1>1. ~aborted /\ ~Refuse /\ \A a \in Actors : ~LaunchRefused(a) /\ ~Abort(a)
  BY CalmStep
<1>2. status[j] = "running" => \E b \in Actors : j \in Held(b)
  BY <1>1 DEF RunningOK
<1>3. ASSUME NEW a \in Actors, status[j] = "running", j \in Held(a) => j \in Held(a)',
             \A b \in Actors \ {a} : Held(b)' = Held(b)
      PROVE  \E b \in Actors : j \in Held(b)'
  BY <1>2, <1>3
<1>4. CASE UNCHANGED vars
  <2>1. status' = status /\ \A b \in Actors : Held(b)' = Held(b)
    BY <1>4 DEF vars, Held, Least
  <2> QED BY <1>2, <2>1
<1>5. CASE Start \/ Coordinate
  <2>1. pc[Coordinator] \notin {"launch", "apply"}
    BY <1>5 DEF Start, Coordinate, Snapshot, MarkBlocked, Dispatch, NoneReady, ReadFinal, Close
  <2>2. Held(Coordinator) = {}
    BY <2>1 DEF Held
  <2>3. status[j] = "running"
    <3>1. CASE MarkBlocked
      <4>1. Least(todo[Coordinator]) \in Items /\ SetStatus(Least(todo[Coordinator]), "blocked_on_dep")
        BY <1>0, <3>1, LeastIsIn DEF MarkBlocked
      <4> QED BY <1>0, <4>1, GuardedStep
    <3>2. CASE ~MarkBlocked
      BY <1>5, <3>2 DEF Start, Coordinate, Snapshot, Dispatch, NoneReady, ReadFinal, Close
    <3> QED BY <3>1, <3>2
  <2> QED BY <1>0, <1>3, <1>5, <2>2, <2>3, OthersLocals
<1>6. ASSUME NEW h \in Humans, Rebrief(h) PROVE \E b \in Actors : j \in Held(b)'
  <2>1. status' = status /\ pc[h] = "idle"
    BY <1>6 DEF Rebrief
  <2>2. Held(h) = {}
    BY <2>1 DEF Held
  <2> QED BY <1>0, <1>3, <1>6, <2>1, <2>2, OthersLocals
<1>7. ASSUME NEW a \in Actors, Launch(a) PROVE \E b \in Actors : j \in Held(b)'
  <2> DEFINE i == Least(todo[a])
  <2>1. i \in Items /\ i \in todo[a] /\ SetStatus(i, "running")
    BY <1>0, <1>7, LeastIsIn DEF Launch
  <2>2. pc[a] = "launch" /\ pc'[a] = "launch" /\ wave' = wave /\ todo'[a] = todo[a] \ {i}
    BY <1>0, <1>7 DEF Launch, Drop
  <2>3. Held(a)' = wave[a] \ (todo[a] \ {i}) /\ Held(a) = wave[a] \ todo[a]
    BY <2>2 DEF Held
  <2>4. CASE j = i
    BY <2>1, <2>2, <2>3, <2>4 DEF TodoOK
  <2>5. CASE j # i
    <3>1. status[j] = "running"
      BY <1>0, <2>1, <2>5, GuardedStep
    <3> QED BY <1>0, <1>3, <1>7, <2>3, <3>1, OthersLocals DEF Work
  <2> QED BY <2>4, <2>5
<1>8. ASSUME NEW a \in Actors, RunParallel(a) PROVE \E b \in Actors : j \in Held(b)'
  <2>1. /\ status' = status /\ pc[a] = "launch" /\ todo[a] = {} /\ pc'[a] = "apply"
        /\ todo'[a] = wave[a] /\ half' = half
    BY <1>0, <1>8 DEF RunParallel, Goto
  <2>2. ~half'[a]
    BY <1>0, <2>1 DEF HalfOK
  <2>3. Held(a)' = wave[a] /\ Held(a) = wave[a]
    BY <2>1, <2>2 DEF Held
  <2> QED BY <1>0, <1>3, <1>8, <2>1, <2>3, OthersLocals DEF Work
<1>9. ASSUME NEW a \in Actors, ApplyFirst(a) \/ ApplySecond(a) PROVE \E b \in Actors : j \in Held(b)'
  <2> DEFINE i == Least(todo[a])
             crash == result[a][i] = "crash"
             dst == Classify(a, result[a][i])
  <2>1. i \in Items /\ i \in todo[a] /\ pc[a] = "apply" /\ pc'[a] = "apply" /\ result' = result
    BY <1>0, <1>9, LeastIsIn DEF ApplyFirst, ApplySecond
  <2>2. \A b \in Actors \ {a} : Held(b)' = Held(b)
    BY <1>0, <1>9, OthersLocals DEF Work
  <2>3. dst \in {"converged", "stopped", "blocked", "escalated"}
    BY <1>0, <2>1, ClassifyType DEF ResultsOK
  <2>4. SetStatus(i, dst) => status'[i] # "running" /\ (j # i => status[j] = "running")
    BY <1>0, <2>1, <2>3, GuardedStep
  <2>5. CASE ApplyFirst(a)
    <3>1. half[a] = FALSE /\ half'[a] = TRUE /\ todo' = todo
      BY <1>0, <2>5 DEF ApplyFirst
    <3>2. Held(a) = todo[a] /\ Held(a)' = IF crash THEN todo[a] \ {i} ELSE todo[a]
      BY <2>1, <3>1 DEF Held, Least
    <3>3. IF crash THEN SetStatus(i, dst) ELSE status' = status
      BY <2>5 DEF ApplyFirst
    <3> QED BY <1>3, <2>2, <2>4, <3>2, <3>3
  <2>6. CASE ApplySecond(a)
    <3>1. half[a] = TRUE /\ half'[a] = FALSE /\ todo'[a] = todo[a] \ {i}
      BY <1>0, <2>6 DEF ApplySecond, Drop
    <3>2. Held(a)' = todo[a] \ {i} /\ Held(a) = IF crash THEN todo[a] \ {i} ELSE todo[a]
      BY <2>1, <3>1 DEF Held
    <3>3. IF crash THEN status' = status ELSE SetStatus(i, dst)
      BY <2>6 DEF ApplySecond
    <3> QED BY <1>3, <2>2, <2>4, <3>2, <3>3
  <2> QED BY <1>9, <2>5, <2>6
<1>10. ASSUME NEW a \in Actors, WaveOver(a) PROVE \E b \in Actors : j \in Held(b)'
  <2>1. status' = status /\ pc[a] = "apply" /\ todo[a] = {}
    BY <1>10 DEF WaveOver
  <2>2. Held(a) = {}
    BY <2>1 DEF Held
  <2> QED BY <1>0, <1>3, <1>10, <2>1, <2>2, OthersLocals DEF Work
<1> QED BY <1>1, <1>4, <1>5, <1>6, <1>7, <1>8, <1>9, <1>10 DEF Next, Work

(* The humans talk to a fleet that was closed, and it stays closed. *)
LEMMA HumansStep ==
    ASSUME ~EarlyTalk, OwnedInv, HumansOK, [Next]_vars
    PROVE  HumansOK'
<1> USE DEF storeVars, actorVars
<1> SUFFICES ASSUME fleet' = "running", NEW h \in Humans PROVE pc'[h] = "idle"
  BY DEF HumansOK
<1>0. /\ Coordinator \in Actors /\ Humans \subseteq Actors /\ h # Coordinator /\ TypeOK
      /\ pc \in [Actors -> {"idle", "snapshot", "mark", "launch", "apply", "finalize", "close"}]
  BY ActorsAssumption DEF OwnedInv, FleetInv, TypeOK, Actors
<1>1. fleet = "running"
  <2>1. CASE Close
    BY <2>1 DEF Close, FinalStatus
  <2>2. ASSUME NEW a \in Actors, Work(a) \/ Abort(a) PROVE fleet' = fleet
    BY <2>2 DEF Work, Launch, LaunchRefused, RunParallel, ApplyFirst, ApplySecond, WaveOver,
                Abort, Unwind
  <2>3. CASE Start \/ Refuse \/ Snapshot \/ MarkBlocked \/ Dispatch \/ NoneReady \/ ReadFinal
    BY <2>3 DEF Start, Refuse, Snapshot, MarkBlocked, Dispatch, NoneReady, ReadFinal
  <2>4. ASSUME NEW g \in Humans, Rebrief(g) PROVE fleet' = fleet
    BY <2>4 DEF Rebrief
  <2>5. CASE UNCHANGED vars
    BY <2>5 DEF vars
  <2> QED BY <2>1, <2>2, <2>3, <2>4, <2>5 DEF Next, Coordinate
<1>2. pc[h] = "idle"
  BY <1>1 DEF HumansOK
<1>3. ~Rebrief(h) /\ ~RunParallel(h) /\ ~WaveOver(h) /\ ~LaunchRefused(h) /\ ~Abort(h)
  BY <1>1, <1>2 DEF Rebrief, RunParallel, WaveOver, LaunchRefused, Abort
<1> QED BY <1>0, <1>2, <1>3, WhoMoves DEF Stays

(* While nobody else is at work, the coordinator marks what it has seen. *)
LEMMA MarkedStep ==
    ASSUME QuietInv, [Next]_vars, HumansOK'
    PROVE  MarkedOK'
<1> USE DEF storeVars, actorVars
<1> DEFINE was == seen[Coordinator].status
<1> SUFFICES ASSUME ~aborted', fleet' = "running", pc'[Coordinator] = "mark", NEW i \in Items
             PROVE  /\ seen'[Coordinator].status[i] # "running"
                    /\ \/ status'[i] = seen'[Coordinator].status[i]
                       \/ seen'[Coordinator].status[i] = "pending" /\ status'[i] = "blocked_on_dep"
                    /\ seen'[Coordinator].status[i] = "pending"
                       /\ (\E d \in deps'[i] : seen'[Coordinator].status[d] \in FailedDep)
                           => i \in todo'[Coordinator] \/ status'[i] = "blocked_on_dep"
  BY DEF MarkedOK
<1>0. /\ Coordinator \in Actors /\ Humans \subseteq Actors /\ Coordinator \notin Humans
      /\ TypeOK /\ ResultsOK /\ OwnedInv
      /\ pc \in [Actors -> {"idle", "snapshot", "mark", "launch", "apply", "finalize", "close"}]
      /\ todo \in [Actors -> SUBSET Items] /\ DOMAIN seen = Actors
      /\ status \in [Items -> Statuses]
  BY ActorsAssumption DEF QuietInv, OwnedInv, FleetInv, TypeOK, Actors
<1>1. ~aborted /\ ~Refuse /\ \A a \in Actors : ~LaunchRefused(a) /\ ~Abort(a)
  BY CalmStep
<1>2. \A h \in Humans : pc'[h] = "idle"
  BY DEF HumansOK
<1>3. CASE Snapshot
  <2>1. /\ seen'[Coordinator].status = status /\ status' = status /\ deps' = deps /\ fleet = "running"
        /\ todo'[Coordinator] = {k \in Items : status[k] = "pending"
                                   /\ \E d \in deps[k] : status[d] \in FailedDep}
    BY <1>0, <1>3 DEF Snapshot, Read, Rows
  <2>2. \A h \in Humans : Held(h) = {}
    BY <2>1 DEF QuietInv, HumansOK, Held
  <2>3. Held(Coordinator) = {}
    BY <1>3 DEF Snapshot, Held
  <2>4. status[i] # "running"
    BY <1>1, <2>2, <2>3 DEF QuietInv, RunningOK, Actors
  <2> QED BY <2>1, <2>4
<1>4. CASE MarkBlocked
  <2> DEFINE k == Least(todo[Coordinator])
  <2>1. k \in Items /\ k \in todo[Coordinator] /\ SetStatus(k, "blocked_on_dep")
    BY <1>0, <1>4, LeastIsIn DEF MarkBlocked
  <2>2. /\ status[k] = "pending" /\ status'[k] = "blocked_on_dep"
        /\ \A j \in Items \ {k} : status'[j] = status[j]
    BY <1>0, <2>1, GuardedStep
  <2>3. /\ deps' = deps /\ seen' = seen /\ fleet' = fleet /\ pc[Coordinator] = "mark"
        /\ todo'[Coordinator] = todo[Coordinator] \ {k}
    BY <1>0, <1>4 DEF MarkBlocked, Drop
  <2>4. \A j \in Items :
            /\ was[j] # "running"
            /\ status[j] = was[j] \/ (was[j] = "pending" /\ status[j] = "blocked_on_dep")
            /\ was[j] = "pending" /\ (\E d \in deps[j] : was[d] \in FailedDep)
                 => j \in todo[Coordinator] \/ status[j] = "blocked_on_dep"
    BY <1>1, <2>3 DEF QuietInv, MarkedOK
  <2> QED BY <2>1, <2>2, <2>3, <2>4
<1>5. CASE UNCHANGED vars
  BY <1>5 DEF vars, QuietInv, MarkedOK
<1>6. CASE Start \/ Dispatch \/ NoneReady \/ ReadFinal \/ Close
  BY <1>0, <1>6 DEF Start, Dispatch, NoneReady, ReadFinal, Close, Goto
<1>7. ASSUME NEW h \in Humans, Rebrief(h) PROVE FALSE
  BY <1>0, <1>2, <1>7 DEF Rebrief, Goto
<1>8. ASSUME NEW h \in Humans, Work(h) PROVE FALSE
  <2>1. fleet' = fleet
    BY <1>0, <1>1, <1>8 DEF Work, Launch, RunParallel, ApplyFirst, ApplySecond, WaveOver
  <2>2. pc[h] = "idle"
    BY <2>1 DEF QuietInv, HumansOK
  <2> QED BY <1>8, <2>2 DEF Work, Launch, LaunchRefused, RunParallel, ApplyFirst, ApplySecond,
                            WaveOver
<1>9. ASSUME Work(Coordinator) PROVE FALSE
  BY <1>0, <1>1, <1>9 DEF Work, Launch, RunParallel, ApplyFirst, ApplySecond, WaveOver, Goto
<1> QED BY <1>1, <1>3, <1>4, <1>5, <1>6, <1>7, <1>8, <1>9 DEF Next, Coordinate, Actors

(* Who waits for one that waits for ever is never begun. *)
LEMMA StuckKept ==
    ASSUME FleetInv, Stuck, [Next]_vars
    PROVE  Stuck'
<1> SUFFICES ASSUME NEW j \in Items, status'[j] = "pending"
             PROVE  \E d \in Items : d \in deps'[j] /\ status'[d] \in {"pending", "blocked_on_dep"}
  BY DEF Stuck
<1>0. deps' = deps /\ TypeOK /\ ResultsOK /\ status \in [Items -> Statuses]
  BY RowStep DEF FleetInv, TypeOK
<1>1. CASE status' = status
  BY <1>0, <1>1 DEF Stuck
<1>2. CASE status' # status
  <2>1. PICK i \in Items : \E dst \in Statuses :
           /\ SetStatus(i, dst)
           /\ dst = "running" => \E a \in Actors : pc[a] = "launch" /\ i \in todo[a]
    BY <1>0, <1>2, RowStep
  <2>2. PICK dst \in Statuses :
           /\ SetStatus(i, dst)
           /\ dst = "running" => \E a \in Actors : pc[a] = "launch" /\ i \in todo[a]
    BY <2>1
  <2>3. /\ status'[i] = dst /\ dst \in Targets(status[i]) /\ dst # "pending"
        /\ \A k \in Items \ {i} : status'[k] = status[k]
    BY <1>0, <2>2, GuardedStep
  <2>4. j # i /\ status[j] = "pending"
    BY <2>3
  <2>5. PICK d \in Items : d \in deps[j] /\ status[d] \in {"pending", "blocked_on_dep"}
    BY <2>4 DEF Stuck
  <2>6. CASE d # i
    BY <1>0, <2>3, <2>5, <2>6
  <2>7. CASE d = i
    <3>1. dst # "running" \/ status[i] # "pending"
      <4>1. SUFFICES ASSUME dst = "running", status[i] = "pending" PROVE FALSE
        OBVIOUS
      <4>2. deps[i] \subseteq Converged
        BY <2>2, <4>1 DEF FleetInv, LaunchOK
      <4>3. PICK e \in Items : e \in deps[i] /\ status[e] \in {"pending", "blocked_on_dep"}
        BY <4>1 DEF Stuck
      <4> QED BY <4>2, <4>3 DEF Converged
    <3>2. status[i] = "pending" /\ dst = "blocked_on_dep"
      BY <2>3, <2>5, <2>7, <3>1 DEF Targets
    <3> QED BY <1>0, <2>3, <2>5, <2>7, <3>2
  <2> QED BY <2>6, <2>7
<1> QED BY <1>1, <1>2

(* The first call goes to its end when it finds nothing ready: each item that
   is pending then has a dependency that is, or that was marked. *)
LEMMA StuckStep ==
    ASSUME QuietInv, [Next]_vars
    PROVE  StuckOK'
<1> USE DEF storeVars, actorVars
<1> SUFFICES ASSUME ~aborted', fleet' # "running" \/ pc'[Coordinator] \in {"finalize", "close"}
             PROVE  Stuck'
  BY DEF StuckOK
<1>0. /\ Coordinator \in Actors /\ FleetInv /\ TypeOK /\ Coordinator \notin Humans
      /\ pc \in [Actors -> {"idle", "snapshot", "mark", "launch", "apply", "finalize", "close"}]
      /\ ~aborted
  BY CalmStep, ActorsAssumption DEF QuietInv, OwnedInv, FleetInv, TypeOK, Actors
<1>1. CASE fleet # "running" \/ pc[Coordinator] \in {"finalize", "close"}
  BY <1>0, <1>1, StuckKept DEF QuietInv, StuckOK
<1>2. CASE fleet = "running" /\ pc[Coordinator] \notin {"finalize", "close"} /\ NoneReady
  <2> DEFINE was == seen[Coordinator].status
  <2>1. pc[Coordinator] = "mark" /\ todo[Coordinator] = {} /\ Ready = {} /\ status' = status
        /\ deps' = deps
    BY <1>2 DEF NoneReady
  <2>2. \A i \in Items : deps[i] \subseteq Items
    BY <1>0, <2>1 DEF FleetInv, GraphOK
  <2>3. \A i \in Items :
            /\ was[i] # "running"
            /\ status[i] = was[i] \/ (was[i] = "pending" /\ status[i] = "blocked_on_dep")
            /\ was[i] = "pending" /\ (\E d \in deps[i] : was[d] \in FailedDep)
                 => i \in todo[Coordinator] \/ status[i] = "blocked_on_dep"
    BY <1>0, <1>2, <2>1 DEF QuietInv, MarkedOK
  <2>4. \A i \in Items : was[i] \in Statuses
    BY <1>0 DEF TypeOK
  <2>5. ASSUME NEW i \in Items, status[i] = "pending"
        PROVE  \E d \in Items : d \in deps[i] /\ status[d] \in {"pending", "blocked_on_dep"}
    <3>1. was[i] = "pending"
      BY <2>3, <2>5
    <3>2. PICK d \in deps[i] : was[d] # "converged"
      BY <2>1, <3>1 DEF Ready
    <3>3. d \in Items /\ was[d] \notin FailedDep
      BY <2>1, <2>2, <2>3, <2>5, <3>1, <3>2
    <3>4. was[d] = "pending"
      BY <2>3, <2>4, <3>2, <3>3 DEF Statuses, FailedDep
    <3> QED BY <2>3, <3>2, <3>3, <3>4
  <2> QED BY <2>1, <2>5 DEF Stuck
<1>3. CASE fleet = "running" /\ pc[Coordinator] \notin {"finalize", "close"} /\ ~NoneReady
  <2>1. fleet' = fleet
    <3>1. ASSUME NEW a \in Actors, Work(a) \/ Abort(a) PROVE fleet' = fleet
      BY <3>1 DEF Work, Launch, LaunchRefused, RunParallel, ApplyFirst, ApplySecond, WaveOver,
                  Abort, Unwind
    <3>2. CASE Start \/ Refuse \/ Snapshot \/ MarkBlocked \/ Dispatch \/ ReadFinal \/ Close
      BY <1>3, <3>2 DEF Start, Refuse, Snapshot, MarkBlocked, Dispatch, ReadFinal, Close
    <3>3. ASSUME NEW g \in Humans, Rebrief(g) PROVE fleet' = fleet
      BY <3>3 DEF Rebrief
    <3>4. CASE UNCHANGED vars
      BY <3>4 DEF vars
    <3> QED BY <1>3, <3>1, <3>2, <3>3, <3>4 DEF Next, Coordinate
  <2>2. pc'[Coordinator] \notin {"finalize", "close"}
    <3>1. CASE Stays(Coordinator)
      BY <1>3, <3>1 DEF Stays
    <3>2. CASE Start \/ Snapshot \/ Dispatch \/ ReadFinal \/ Close
      BY <1>0, <1>3, <3>2 DEF Start, Snapshot, Dispatch, ReadFinal, Close, Goto
    <3>3. CASE RunParallel(Coordinator) \/ WaveOver(Coordinator) \/ LaunchRefused(Coordinator)
               \/ Abort(Coordinator)
      BY <1>0, <3>3 DEF RunParallel, WaveOver, LaunchRefused, Abort, Unwind, Goto
    <3> QED BY <1>0, <1>3, <3>1, <3>2, <3>3, WhoMoves
  <2> QED BY <1>3, <2>1, <2>2
<1> QED BY <1>1, <1>2, <1>3

(* When everybody has returned, nobody having died nor been refused, and the
   humans began to talk only once the fleet was closed, no item says running
   and none is pending that a wave could have taken: each one pending waits
   for another that is, or that was blocked. *)
THEOREM QuietTheorem == ASSUME ~EarlyTalk PROVE Spec => []NothingRunnableIsLeft
<1>1. Init => QuietInv
  <2> SUFFICES ASSUME Init PROVE QuietInv
    OBVIOUS
  <2>1. (\A a \in Actors : pc[a] = "idle") /\ fleet = "running"
        /\ \A i \in Items : status[i] = "pending"
    BY DEF Init, NoRows
  <2>2. Coordinator \in Actors /\ Humans \subseteq Actors
    BY DEF Actors
  <2>3. TodoOK /\ HumansOK /\ MarkedOK /\ StuckOK
    BY <2>1, <2>2 DEF TodoOK, HumansOK, MarkedOK, StuckOK
  <2>4. RunningOK
    BY <2>1 DEF RunningOK
  <2> QED BY <2>3, <2>4, InitOwned DEF QuietInv
<1>2. QuietInv /\ [Next]_vars => QuietInv'
  <2> SUFFICES ASSUME QuietInv, [Next]_vars PROVE QuietInv'
    OBVIOUS
  <2>1. OwnedInv' /\ TodoOK' /\ RunningOK' /\ HumansOK'
    BY OwnedStep, TodoStep, RunningStep, HumansStep DEF QuietInv
  <2> QED BY <2>1, MarkedStep, StuckStep DEF QuietInv
<1>3. QuietInv => NothingRunnableIsLeft
  <2> SUFFICES ASSUME QuietInv, Quiet, NEW i \in Items
               PROVE  /\ status[i] # "running"
                      /\ status[i] = "pending" =>
                           \E d \in deps[i] : status[d] \in {"pending", "blocked_on_dep"}
    BY DEF NothingRunnableIsLeft
  <2>1. \A a \in Actors : Held(a) = {}
    BY DEF Quiet, Held
  <2> QED BY <2>1 DEF QuietInv, Quiet, RunningOK, StuckOK, Stuck
<1> QED BY <1>1, <1>2, <1>3, PTL DEF Spec

-----------------------------------------------------------------------------
(* What an actor waits for and how far it still has to go.                 *)

(* A human is idle or at work on an item. *)
PlacesOK == \A h \in Humans : pc[h] \in {"idle", "launch", "apply"}

LEMMA PlacesStep ==
    ASSUME TypeOK, PlacesOK, [Next]_vars
    PROVE  PlacesOK'
<1> SUFFICES ASSUME NEW h \in Humans PROVE pc'[h] \in {"idle", "launch", "apply"}
  BY DEF PlacesOK
<1>0. /\ h \in Actors /\ h # Coordinator
      /\ pc \in [Actors -> {"idle", "snapshot", "mark", "launch", "apply", "finalize", "close"}]
  BY ActorsAssumption DEF TypeOK, Actors
<1>1. CASE Stays(h)
  BY <1>1 DEF Stays, PlacesOK
<1>2. CASE RunParallel(h) \/ WaveOver(h) \/ LaunchRefused(h) \/ Abort(h) \/ Rebrief(h)
  BY <1>0, <1>2 DEF RunParallel, WaveOver, LaunchRefused, Abort, Rebrief, Unwind, Goto
<1> QED BY <1>0, <1>1, <1>2, WhoMoves

GoingInv == OwnedInv /\ TalkOK /\ TowardOK /\ PlacesOK

(* A new fleet, and every step. *)
LEMMA InitGoing == Init => GoingInv
<1> SUFFICES ASSUME Init PROVE GoingInv
  OBVIOUS
<1>1. \A a \in Actors : pc[a] = "idle"
  BY DEF Init
<1>2. Coordinator \in Actors /\ Humans \subseteq Actors
  BY DEF Actors
<1> QED BY <1>1, <1>2, InitOwned DEF GoingInv, TalkOK, TowardOK, PlacesOK

LEMMA GoingStep == GoingInv /\ [Next]_vars => GoingInv'
<1> SUFFICES ASSUME GoingInv, [Next]_vars PROVE GoingInv'
  OBVIOUS
<1>1. OwnedInv /\ TypeOK /\ ResultsOK
  BY DEF GoingInv, OwnedInv, FleetInv
<1> QED BY <1>1, OwnedStep, TalkStep, TowardStep, PlacesStep DEF GoingInv

(* The step an actor has come to, where it is to set a status, is one that the
   store accepts. *)
WritesAreLegal ==
    \A a \in Actors : todo[a] # {} =>
        LET i == Least(todo[a])
            r == result[a][i]
        IN  /\ pc[a] = "mark" => Legal(i, "blocked_on_dep")
            /\ pc[a] = "apply" /\ half[a] = (r # "crash") => Legal(i, Classify(a, r))

(* Neither the marking nor the record of a result is ever refused, whoever
   re-briefs and whoever dies: set_item_status raises in a launch only, and
   there the actor unwinds, so that whoever is under way can go on. *)
THEOREM WritesTheorem == Spec => []WritesAreLegal
<1>1. GoingInv => WritesAreLegal
  <2> SUFFICES ASSUME GoingInv, NEW a \in Actors, todo[a] # {}
               PROVE  LET i == Least(todo[a])
                          r == result[a][i]
                      IN  /\ pc[a] = "mark" => Legal(i, "blocked_on_dep")
                          /\ pc[a] = "apply" /\ half[a] = (r # "crash") => Legal(i, Classify(a, r))
    BY DEF WritesAreLegal
  <2> DEFINE i == Least(todo[a])
             r == result[a][i]
  <2>0. /\ OwnersOK /\ ResultsOK /\ TypeOK /\ i \in todo[a] /\ i \in Items
        /\ half[a] \in BOOLEAN
    BY LeastIsIn DEF GoingInv, OwnedInv, FleetInv, TypeOK
  <2>1. ASSUME pc[a] = "mark" PROVE Legal(i, "blocked_on_dep")
    <3>1. a = Coordinator
      BY <2>1 DEF GoingInv, PlacesOK, Actors
    <3>2. status[i] = "pending"
      BY <2>0, <2>1, <3>1 DEF GoingInv, TowardOK
    <3> QED BY <3>2 DEF Legal, Targets
  <2>2. ASSUME pc[a] = "apply", half[a] = (r # "crash") PROVE Legal(i, Classify(a, r))
    <3>1. i \in Held(a)
      BY <2>0, <2>2 DEF Held
    <3>2. status[i] = "running" /\ r \in Results
      BY <2>0, <2>2, <3>1 DEF OwnersOK, ResultsOK
    <3>3. Classify(a, r) \in {"converged", "stopped", "blocked", "escalated"}
      BY <3>2, ClassifyType
    <3> QED BY <3>2, <3>3 DEF Legal, Targets
  <2> QED BY <2>1, <2>2
<1> QED BY <1>1, InitGoing, GoingStep, PTL DEF Spec

-----------------------------------------------------------------------------
(* A variant of every actor under way.                                     *)

Size == Cardinality(Items)

(* How many steps an actor is from the end of its call, should no further wave
   be ready.  The two writes of a result are two steps. *)
Stage(a) ==
    CASE pc[a] = "close"    -> 1
      [] pc[a] = "finalize" -> 2
      [] pc[a] = "mark"     -> 3 + Cardinality(todo[a])
      [] pc[a] = "snapshot" -> 4 + Size
      [] pc[a] = "apply"    -> 5 + Size + 2 * Cardinality(todo[a]) - (IF half[a] THEN 1 ELSE 0)
      [] pc[a] = "launch"   -> 6 + 3 * Size + Cardinality(todo[a])
      [] OTHER              -> 0

(* The items that a wave may still be made of, and what a wave takes at most. *)
Ahead == {i \in Items : /\ status[i] = "pending"
                        /\ ~ (pc[Coordinator] = "launch" /\ i \in todo[Coordinator])}
WaveSteps == 4 * Size + 4

(* The steps an actor may still take before its call returns. *)
StepsToReturn(a) ==
    IF pc[a] = "idle" THEN 0
    ELSE IF a = Coordinator THEN Cardinality(Ahead) * WaveSteps + Stage(a)
    ELSE Stage(a)

(* Rows are counted: a part is no more, and without one of them one less. *)
LEMMA Counted ==
    ASSUME NEW S, S \subseteq Items
    PROVE  /\ Cardinality(S) \in Nat /\ Cardinality(S) <= Size /\ Size \in Nat
           /\ Cardinality(S) = 0 <=> S = {}
           /\ \A x \in S : Cardinality(S \ {x}) = Cardinality(S) - 1
           /\ \A T \in SUBSET S : Cardinality(T) <= Cardinality(S)
           /\ \A T \in SUBSET S : T # S => Cardinality(T) + 1 <= Cardinality(S)
<1>1. IsFiniteSet(Items) /\ IsFiniteSet(S) /\ Cardinality(S) <= Size
  BY ItemsAssumption, FS_Subset DEF Size
<1>2. Cardinality(S) \in Nat /\ Size \in Nat
  BY <1>1, FS_CardinalityType DEF Size
<1>3. Cardinality(S) = 0 <=> S = {}
  BY <1>1, FS_EmptySet
<1>4. \A x \in S : Cardinality(S \ {x}) = Cardinality(S) - 1
  BY <1>1, FS_RemoveElement
<1>5. ASSUME NEW T \in SUBSET S
      PROVE  /\ Cardinality(T) <= Cardinality(S)
             /\ T # S => Cardinality(T) + 1 <= Cardinality(S)
  <2>1. /\ Cardinality(T) <= Cardinality(S) /\ Cardinality(T) \in Nat
        /\ Cardinality(S) = Cardinality(T) => S = T
    BY <1>1, FS_Subset, FS_CardinalityType
  <2> QED BY <1>2, <2>1
<1> QED BY <1>1, <1>2, <1>3, <1>4, <1>5

(* The stages lie between one and the length of a wave. *)
LEMMA StageBounds ==
    ASSUME TypeOK, NEW a \in Actors
    PROVE  /\ Stage(a) \in Nat /\ Size \in Nat
           /\ pc[a] # "idle" => Stage(a) >= 1
           /\ pc[a] = "mark" => Stage(a) >= 3
           /\ Stage(a) <= WaveSteps + 2
<1>1. /\ Cardinality(todo[a]) \in Nat /\ Cardinality(todo[a]) <= Size /\ Size \in Nat
      /\ pc[a] \in {"idle", "snapshot", "mark", "launch", "apply", "finalize", "close"}
  BY Counted DEF TypeOK
<1> QED BY <1>1 DEF Stage, WaveSteps

(* No step puts an item back in front of the coordinator, but its own end; a
   wave that is dispatched takes one away at least. *)
LEMMA AheadShrinks ==
    ASSUME GoingInv, [Next]_vars, pc'[Coordinator] # "idle"
    PROVE  Ahead' \subseteq Ahead /\ (Dispatch => Ahead' # Ahead)
<1> USE DEF storeVars, actorVars
<1>0. /\ Coordinator \in Actors /\ Humans \subseteq Actors /\ Coordinator \notin Humans
      /\ Actors = {Coordinator} \cup Humans
      /\ TypeOK /\ ResultsOK /\ TowardOK
      /\ pc \in [Actors -> {"idle", "snapshot", "mark", "launch", "apply", "finalize", "close"}]
      /\ todo \in [Actors -> SUBSET Items] /\ DOMAIN wave = Actors
      /\ status \in [Items -> Statuses]
  BY ActorsAssumption DEF GoingInv, OwnedInv, FleetInv, TypeOK, Actors
<1>1. ASSUME NEW i \in Ahead' PROVE i \in Ahead
  <2>1. i \in Items /\ status'[i] = "pending" /\ status[i] = "pending"
    BY <1>0, <1>1, PendingStep DEF Ahead
  <2>2. SUFFICES ASSUME pc[Coordinator] = "launch", i \in todo[Coordinator] PROVE FALSE
    BY <2>1 DEF Ahead
  <2>3. ~ (pc'[Coordinator] = "launch" /\ i \in todo'[Coordinator])
    BY <1>1 DEF Ahead
  <2>4. CASE Launch(Coordinator)
    <3>1. Least(todo[Coordinator]) \in Items /\ Least(todo[Coordinator]) = i
      BY <1>0, <2>2, <2>3, <2>4, LeastIsIn DEF Launch, Drop
    <3>2. status'[i] = "running"
      BY <1>0, <2>4, <3>1, GuardedStep DEF Launch
    <3> QED BY <2>1, <3>2
  <2>5. CASE LaunchRefused(Coordinator) \/ Abort(Coordinator)
    BY <1>0, <2>5 DEF LaunchRefused, Abort, Unwind, Goto
  <2>6. CASE Refuse \/ UNCHANGED vars
    BY <2>2, <2>3, <2>6 DEF Refuse, vars
  <2>7. ASSUME NEW a \in Humans, Work(a) \/ Abort(a) \/ Rebrief(a) PROVE FALSE
    <3>1. pc'[Coordinator] = pc[Coordinator] /\ todo'[Coordinator] = todo[Coordinator]
      BY <1>0, <2>7, OthersLocals
    <3> QED BY <2>2, <2>3, <3>1
  <2>8. CASE \/ Start \/ Coordinate \/ RunParallel(Coordinator) \/ ApplyFirst(Coordinator)
             \/ ApplySecond(Coordinator) \/ WaveOver(Coordinator)
    BY <2>2, <2>8 DEF Start, Coordinate, Snapshot, MarkBlocked, Dispatch, NoneReady, ReadFinal,
                      Close, RunParallel, ApplyFirst, ApplySecond, WaveOver
  <2> QED BY <1>0, <2>4, <2>5, <2>6, <2>7, <2>8 DEF Next, Work
<1>2. ASSUME Dispatch PROVE Ahead' # Ahead
  <2>1. PICK i \in Ready : TRUE
    BY <1>2 DEF Dispatch
  <2>2. i \in Items /\ status[i] = "pending" /\ pc[Coordinator] = "mark"
    BY <1>0, <1>2, <2>1 DEF Dispatch, TowardOK, Ready
  <2>3. i \in todo'[Coordinator] /\ pc'[Coordinator] = "launch"
    BY <1>0, <1>2, <2>1 DEF Dispatch, Take, Goto
  <2> QED BY <2>2, <2>3 DEF Ahead
<1> QED BY <1>1, <1>2

(* An actor's own step ends its call or brings it a stage on, but for the
   dispatch of a wave, which costs as much as a wave takes. *)
LEMMA StageStep ==
    ASSUME GoingInv, GoingInv', NEW a \in Actors, Work(a) \/ Abort(a) \/ (a = Coordinator /\ Coordinate)
    PROVE  /\ pc[a] # "idle"
           /\ \/ pc'[a] = "idle"
              \/ Stage(a)' < Stage(a)
              \/ a = Coordinator /\ Dispatch /\ Stage(a)' < Stage(a) + WaveSteps
<1> USE DEF storeVars, actorVars
<1>0. /\ TypeOK /\ TypeOK'
      /\ pc \in [Actors -> {"idle", "snapshot", "mark", "launch", "apply", "finalize", "close"}]
      /\ todo \in [Actors -> SUBSET Items] /\ half \in [Actors -> BOOLEAN]
      /\ wave \in [Actors -> SUBSET Items]
  BY DEF GoingInv, OwnedInv, FleetInv, TypeOK
<1>1. /\ Size \in Nat /\ Cardinality(todo[a]) \in Nat /\ Cardinality(todo[a]) <= Size
      /\ Cardinality(todo'[a]) \in Nat /\ Cardinality(todo'[a]) <= Size
  BY <1>0, Counted DEF TypeOK
<1>2. pc[a] # "idle"
  BY DEF Work, Launch, LaunchRefused, RunParallel, ApplyFirst, ApplySecond, WaveOver, Abort,
         Coordinate, Snapshot, MarkBlocked, Dispatch, NoneReady, ReadFinal, Close
<1>3. ASSUME todo[a] # {}, todo' = [todo EXCEPT ![a] = @ \ {Least(todo[a])}]
      PROVE  Cardinality(todo'[a]) = Cardinality(todo[a]) - 1
  <2>1. Least(todo[a]) \in todo[a] /\ todo[a] \subseteq Items
    BY <1>0, <1>3, LeastIsIn
  <2>2. todo'[a] = todo[a] \ {Least(todo[a])}
    BY <1>0, <1>3
  <2> QED BY <2>1, <2>2, Counted
<1>4. CASE Launch(a)
  <2>1. pc[a] = "launch" /\ pc'[a] = "launch" /\ Cardinality(todo'[a]) = Cardinality(todo[a]) - 1
    BY <1>3, <1>4 DEF Launch, Drop
  <2> QED BY <1>1, <1>2, <2>1 DEF Stage
<1>5. CASE LaunchRefused(a) \/ Abort(a)
  BY <1>0, <1>2, <1>5 DEF LaunchRefused, Abort, Unwind, Goto
<1>6. CASE RunParallel(a)
  <2>1. pc[a] = "launch" /\ pc'[a] = "apply" /\ half'[a] \in BOOLEAN
    BY <1>0, <1>6 DEF RunParallel, Goto
  <2> QED BY <1>1, <1>2, <2>1 DEF Stage
<1>7. CASE ApplyFirst(a)
  <2>1. pc[a] = "apply" /\ pc'[a] = "apply" /\ todo'[a] = todo[a] /\ ~half[a] /\ half'[a]
    BY <1>0, <1>7 DEF ApplyFirst
  <2> QED BY <1>1, <1>2, <2>1 DEF Stage
<1>8. CASE ApplySecond(a)
  <2>1. /\ pc[a] = "apply" /\ pc'[a] = "apply" /\ half[a] /\ ~half'[a]
        /\ Cardinality(todo'[a]) = Cardinality(todo[a]) - 1
    BY <1>0, <1>3, <1>8 DEF ApplySecond, Drop
  <2> QED BY <1>1, <1>2, <2>1 DEF Stage
<1>9. CASE WaveOver(a)
  <2>1. /\ pc[a] = "apply" /\ (pc'[a] = "idle" \/ pc'[a] = "snapshot")
        /\ todo[a] = {} /\ ~half[a]
    BY <1>0, <1>9 DEF WaveOver, Goto, GoingInv, OwnedInv, HalfOK
  <2> QED BY <1>1, <1>2, <2>1 DEF Stage
<1>10. CASE a = Coordinator /\ Snapshot
  <2>1. pc[a] = "snapshot" /\ pc'[a] = "mark"
    BY <1>0, <1>10 DEF Snapshot, Goto
  <2> QED BY <1>1, <1>2, <2>1 DEF Stage
<1>11. CASE a = Coordinator /\ MarkBlocked
  <2>1. pc[a] = "mark" /\ pc'[a] = "mark" /\ Cardinality(todo'[a]) = Cardinality(todo[a]) - 1
    BY <1>3, <1>11 DEF MarkBlocked, Drop
  <2> QED BY <1>1, <1>2, <2>1 DEF Stage
<1>12. CASE a = Coordinator /\ Dispatch
  <2>1. pc[a] = "mark" /\ pc'[a] = "launch"
    BY <1>0, <1>12 DEF Dispatch, Goto
  <2> QED BY <1>1, <1>2, <1>12, <2>1 DEF Stage, WaveSteps
<1>13. CASE a = Coordinator /\ (NoneReady \/ ReadFinal \/ Close)
  <2>1. \/ pc[a] = "mark" /\ pc'[a] = "finalize"
        \/ pc[a] = "finalize" /\ pc'[a] = "close"
        \/ pc'[a] = "idle"
    BY <1>0, <1>13 DEF NoneReady, ReadFinal, Close, Goto
  <2> QED BY <1>1, <1>2, <2>1 DEF Stage
<1> QED BY <1>4, <1>5, <1>6, <1>7, <1>8, <1>9, <1>10, <1>11, <1>12, <1>13 DEF Work, Coordinate

(* Fewer waves, or as many and fewer stages. *)
LEMMA FewerSteps ==
    ASSUME NEW w \in Nat, NEW k \in Nat, NEW m \in Nat, NEW s \in Nat, NEW q \in Nat
    PROVE  /\ k * w + s \in Nat /\ m * w + q \in Nat
           /\ m <= k /\ q <= s => m * w + q <= k * w + s
           /\ m <= k /\ q < s => m * w + q < k * w + s
           /\ m + 1 <= k /\ q < s + w => m * w + q < k * w + s
<1>1. k * w \in Nat /\ m * w \in Nat
  OBVIOUS
<1>2. m <= k => m * w <= k * w
  <2> SUFFICES ASSUME m <= k PROVE m * w <= k * w
    OBVIOUS
  <2> DEFINE d == k - m
  <2>1. d \in Nat /\ k = m + d
    OBVIOUS
  <2> HIDE DEF d
  <2>2. (m + d) * w = m * w + d * w /\ d * w \in Nat
    BY <2>1
  <2> QED BY <1>1, <2>1, <2>2
<1>3. m + 1 <= k => m * w + w <= k * w
  <2> SUFFICES ASSUME m + 1 <= k PROVE m * w + w <= k * w
    OBVIOUS
  <2> DEFINE d == k - m - 1
  <2>1. d \in Nat /\ k = (m + 1) + d
    OBVIOUS
  <2> HIDE DEF d
  <2>2. ((m + 1) + d) * w = m * w + w + d * w /\ d * w \in Nat
    BY <2>1
  <2> QED BY <1>1, <2>1, <2>2
<1> QED BY <1>1, <1>2, <1>3

(* An actor that is under way gets nearer to its return with each step of its
   own, and no step of another takes it back. *)
Nearer(a) ==
    pc[a] # "idle" =>
        /\ StepsToReturn(a) \in 0..((Size + 1) * WaveSteps + 2) /\ StepsToReturn(a)' \in Nat
        /\ StepsToReturn(a)' <= StepsToReturn(a)
        /\ Work(a) \/ Abort(a) \/ (a = Coordinator /\ Coordinate)
              => StepsToReturn(a)' < StepsToReturn(a)

(* The step of another leaves an actor in its stage. *)
LEMMA StageStays ==
    ASSUME TypeOK, NEW a \in Actors, [Next]_vars,
           ~ (Work(a) \/ Abort(a) \/ (a = Coordinator /\ Coordinate)), pc[a] # "idle"
    PROVE  pc'[a] = pc[a] /\ Stage(a)' = Stage(a)
<1> USE DEF storeVars, actorVars
<1>1. pc'[a] = pc[a] /\ todo'[a] = todo[a] /\ half'[a] = half[a]
  <2>1. CASE Refuse \/ UNCHANGED vars
    BY <2>1 DEF Refuse, vars
  <2>2. ASSUME NEW b \in Actors, b # a,
               \/ Work(b) \/ Abort(b) \/ (b \in Humans /\ Rebrief(b))
               \/ (b = Coordinator /\ (Start \/ Coordinate))
        PROVE  pc'[a] = pc[a] /\ todo'[a] = todo[a] /\ half'[a] = half[a]
    BY <2>2, OthersLocals
  <2>3. CASE (a = Coordinator /\ Start) \/ Rebrief(a)
    BY <2>3 DEF Start, Rebrief
  <2>4. Coordinator \in Actors /\ Humans \subseteq Actors
    BY DEF Actors
  <2> QED BY <2>1, <2>2, <2>3, <2>4 DEF Next
<1> QED BY <1>1 DEF Stage

(* Every actor under way is nearer to its return, or as near, after a step. *)
LEMMA NearerStep ==
    ASSUME GoingInv, GoingInv', [Next]_vars, NEW a \in Actors
    PROVE  Nearer(a)
<1> SUFFICES ASSUME pc[a] # "idle"
             PROVE  /\ StepsToReturn(a) \in 0..((Size + 1) * WaveSteps + 2)
                    /\ StepsToReturn(a)' \in Nat
                    /\ StepsToReturn(a)' <= StepsToReturn(a)
                    /\ Work(a) \/ Abort(a) \/ (a = Coordinator /\ Coordinate)
                          => StepsToReturn(a)' < StepsToReturn(a)
  BY DEF Nearer
<1> DEFINE Own == Work(a) \/ Abort(a) \/ (a = Coordinator /\ Coordinate)
           k == Cardinality(Ahead)
           m == Cardinality(Ahead')
           s == Stage(a)
           q == Stage(a)'
<1>0. TypeOK /\ TypeOK' /\ Coordinator \in Actors
  BY DEF GoingInv, OwnedInv, FleetInv, Actors
<1>1. s \in Nat /\ s >= 1 /\ q \in Nat /\ Size \in Nat /\ WaveSteps \in Nat
  <2>1. TypeOK' => q \in Nat
    <3>1. /\ Cardinality(todo'[a]) \in Nat /\ Cardinality(todo'[a]) <= Size /\ Size \in Nat
          /\ pc'[a] \in {"idle", "snapshot", "mark", "launch", "apply", "finalize", "close"}
      BY <1>0, Counted DEF TypeOK
    <3> QED BY <3>1 DEF Stage
  <2> QED BY <1>0, <2>1, StageBounds DEF WaveSteps
<1>2. k \in Nat /\ m \in Nat
  BY Counted DEF Ahead
<1>3. /\ Own => \/ pc'[a] = "idle"
                \/ q < s
                \/ a = Coordinator /\ Dispatch /\ q < s + WaveSteps
      /\ ~Own => pc'[a] = pc[a] /\ q = s
  BY <1>0, StageStep, StageStays
<1>4. StepsToReturn(a) \in 0..((Size + 1) * WaveSteps + 2)
  <2>1. k <= Size /\ s <= WaveSteps + 2
    BY <1>0, Counted, StageBounds DEF Ahead
  <2>2. Size * WaveSteps \in Nat /\ (Size + 1) * WaveSteps = Size * WaveSteps + WaveSteps
    BY <1>1
  <2>3. StepsToReturn(a) = k * WaveSteps + s \/ StepsToReturn(a) = s
    BY DEF StepsToReturn
  <2> HIDE DEF k, s
  <2>4. k * WaveSteps + s \in Nat /\ k * WaveSteps + s <= Size * WaveSteps + (WaveSteps + 2)
    BY <1>1, <1>2, <2>1, FewerSteps
  <2> QED BY <1>1, <2>1, <2>2, <2>3, <2>4
<1> SUFFICES /\ StepsToReturn(a)' \in Nat
             /\ StepsToReturn(a)' <= StepsToReturn(a)
             /\ Own => StepsToReturn(a)' < StepsToReturn(a)
  BY <1>4
<1>5. CASE pc'[a] = "idle"
  <2>1. StepsToReturn(a)' = 0 /\ Own
    BY <1>3, <1>5 DEF StepsToReturn
  <2>2. StepsToReturn(a) \in Nat /\ StepsToReturn(a) >= 1
    <3>1. k * WaveSteps \in Nat
      BY <1>1, <1>2
    <3> QED BY <1>1, <3>1 DEF StepsToReturn
  <2> QED BY <2>1, <2>2
<1>6. CASE pc'[a] # "idle" /\ a # Coordinator
  <2>1. StepsToReturn(a) = s /\ StepsToReturn(a)' = q
    BY <1>6 DEF StepsToReturn
  <2> QED BY <1>1, <1>3, <1>6, <2>1
<1>7. CASE pc'[a] # "idle" /\ a = Coordinator
  <2>1. StepsToReturn(a) = k * WaveSteps + s /\ StepsToReturn(a)' = m * WaveSteps + q
    BY <1>7 DEF StepsToReturn, WaveSteps
  <2>2. m <= k /\ (Dispatch => m + 1 <= k)
    <3>1. Ahead' \subseteq Ahead /\ (Dispatch => Ahead' # Ahead) /\ Ahead \subseteq Items
      BY <1>7, AheadShrinks DEF Ahead
    <3> QED BY <3>1, Counted
  <2> HIDE DEF k, m, s, q
  <2>3. (q < s \/ (m + 1 <= k /\ q < s + WaveSteps)) \/ (~Own /\ q = s)
    BY <1>3, <1>7, <2>2
  <2> QED BY <1>1, <1>2, <2>1, <2>2, <2>3, FewerSteps
<1> QED BY <1>5, <1>6, <1>7

(* "never a hang": however the humans talk, whatever the workers return and
   whoever dies, each step of run_fleet or of a re-brief that is under way
   lowers a natural number which nobody else raises: neither goes on for ever,
   and with N items a call takes no more than (N + 1)(4N + 4) + 2 of them. *)
THEOREM ReturnsVariant == Spec => [][\A a \in Actors : Nearer(a)]_vars
<1>1. GoingInv /\ GoingInv' /\ [Next]_vars => [\A a \in Actors : Nearer(a)]_vars
  BY NearerStep
<1> QED BY <1>1, InitGoing, GoingStep, PTL DEF Spec
=============================================================================
