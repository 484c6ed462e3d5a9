------------------------------- MODULE Fleet -------------------------------
(***************************************************************************)
(* A fleet of loop items with dependencies: the coordinator's topological  *)
(* waves (orchestration/coordinator.py: run_fleet, apply_item_result), the *)
(* human's re-brief of an escalated item (orchestration/escalation.py),    *)
(* the lifecycle guard of memory/fleet_state.py and the fleet rows of      *)
(* memory/store.py.                                                        *)
(*                                                                         *)
(* Every call of the store takes its lock, so a step is one store call.    *)
(* The coordinator and the humans are threads over one store: what each    *)
(* has read is its own copy.  An item is the id of its row; run_parallel   *)
(* is the one step in which all the workers of a wave have ended.  A       *)
(* dependency outside of Items is one on an unknown key.                   *)
(***************************************************************************)
EXTENDS Integers, FiniteSets

CONSTANTS
    Items,        \* the fleet_items rows, in the order of their ids
    Graphs,       \* the dependency graphs considered
    Results,      \* what a worker may come back with
    Coordinator, Humans,
    MaxStarts,    \* how often run_fleet is called on the fleet
    Escalating,   \* is the classifier classify_with_escalation?
    EarlyTalk,    \* may a human re-brief while run_fleet is running?
    None          \* no outcome recorded

ASSUME ItemsAssumption == Items \subseteq Nat /\ IsFiniteSet(Items)
ASSUME GraphsAssumption == \A g \in Graphs : DOMAIN g = Items
ASSUME ActorsAssumption == Coordinator \notin Humans
ASSUME FlagsAssumption ==
    MaxStarts \in Nat /\ Escalating \in BOOLEAN /\ EarlyTalk \in BOOLEAN
(* Converged and the gate satisfied, converged but gated, BLOCKED_SAFETY,
   STOPPED, and a worker that raised. *)
ASSUME ResultsAssumption ==
    Results \subseteq {"shippable", "gated", "blocked", "stopped", "crash"} /\ None \notin Results

VARIABLES
    deps,      \* depends_on, of every item
    status,    \* fleet_items.status
    outcome,   \* fleet_items.outcome_json
    fleet,     \* fleet_runs.status
    starts,    \* calls of run_fleet so far
    pc,        \* where each actor is
    seen,      \* the rows the coordinator last read
    wave,      \* the items each actor has taken
    todo,      \* those its current loop has yet to go through
    result,    \* what the workers of its wave returned
    half,      \* the first of the two writes of apply_item_result is done
    handed,    \* history: the upstream outcomes each item's last worker was given
    aborted    \* history: an actor died or raised

storeVars == <<status, outcome, fleet>>
actorVars == <<pc, seen, wave, todo, result, half>>
vars == <<deps, storeVars, starts, actorVars, handed, aborted>>

Actors == {Coordinator} \cup Humans
Statuses == {"pending", "running", "converged", "stopped", "blocked", "blocked_on_dep",
             "escalated"}

\* Mutant of FailedDep: an escalated dependency may still converge.
FailedDepForGood == {"stopped", "blocked", "blocked_on_dep"}

FailedDep == {"stopped", "blocked", "escalated", "blocked_on_dep"}

Least(S) == CHOOSE i \in S : \A j \in S : i <= j

Rows == [status |-> status, outcome |-> outcome]
NoRows == [status |-> [i \in Items |-> "pending"], outcome |-> [i \in Items |-> None]]
NoResults == [i \in Items |-> None]

-----------------------------------------------------------------------------
(* The lifecycle guard, and the two classifiers.                           *)

\* Mutant of Targets: a converged item may be run again.
TargetsReopened(src) ==
    CASE src = "pending" -> {"running", "blocked_on_dep"}
      [] src = "running" -> {"converged", "stopped", "blocked", "escalated", "running"}
      [] src \in {"stopped", "blocked"} -> {"escalated"}
      [] src \in {"escalated", "converged"} -> {"running"}
      [] OTHER -> {}

Targets(src) ==
    CASE src = "pending" -> {"running", "blocked_on_dep"}
      [] src = "running" -> {"converged", "stopped", "blocked", "escalated"}
      [] src \in {"stopped", "blocked"} -> {"escalated"}
      [] src = "escalated" -> {"running"}
      [] OTHER -> {}

Legal(i, dst) == dst \in Targets(status[i])
SetStatus(i, dst) == Legal(i, dst) /\ status' = [status EXCEPT ![i] = dst]

\* Mutant of Classify: the confirmation that is owed is not waited for.
ClassifyUngated(a, r) ==
    CASE r \in {"shippable", "gated"} -> "converged"
      [] OTHER -> IF a = Coordinator THEN "stopped" ELSE "escalated"

(* What an actor makes of a result: a re-brief always escalates. *)
Classify(a, r) ==
    CASE r = "shippable" -> "converged"
      [] r # "shippable" /\ (a \in Humans \/ (Escalating /\ r # "crash")) -> "escalated"
      [] r = "crash" /\ a \notin Humans -> "stopped"
      [] OTHER -> IF r = "gated" THEN "converged" ELSE r

(* _assert_acyclic: no unknown dependency, and Kahn's removal gets through. *)
WellFormed ==
    /\ \A i \in Items : deps[i] \subseteq Items
    /\ \A S \in SUBSET Items \ {{}} : \E i \in S : deps[i] \cap S = {}

-----------------------------------------------------------------------------
Init ==
    /\ deps \in Graphs
    /\ status = NoRows.status /\ outcome = NoRows.outcome
    /\ fleet = "running" /\ starts = 0
    /\ pc = [a \in Actors |-> "idle"]
    /\ seen = [a \in Actors |-> NoRows]
    /\ wave = [a \in Actors |-> {}] /\ todo = [a \in Actors |-> {}]
    /\ result = [a \in Actors |-> NoResults]
    /\ half = [a \in Actors |-> FALSE]
    /\ handed = [i \in Items |-> {}] /\ aborted = FALSE

Goto(a, l) == pc' = [pc EXCEPT ![a] = l]
Read(a) == seen' = [seen EXCEPT ![a] = Rows]
Forget(a) == seen' = [seen EXCEPT ![a] = NoRows]
Take(a, S) == wave' = [wave EXCEPT ![a] = S] /\ todo' = [todo EXCEPT ![a] = S]
Drop(a, i) == todo' = [todo EXCEPT ![a] = @ \ {i}]

(* An actor unwinds, by an exception nobody handles or by dying: what it had
   read and computed is gone, what it had stored stays. *)
Unwind(a) ==
    /\ Goto(a, "idle") /\ Take(a, {}) /\ Forget(a)
    /\ result' = [result EXCEPT ![a] = NoResults]
    /\ half' = [half EXCEPT ![a] = FALSE]
    /\ aborted' = TRUE
    /\ UNCHANGED <<deps, storeVars, starts, handed>>

(* run_fleet is called: a malformed graph is refused before any work. *)
Start ==
    /\ pc[Coordinator] = "idle" /\ starts < MaxStarts
    /\ starts' = starts + 1
    /\ WellFormed /\ Goto(Coordinator, "snapshot")
    /\ UNCHANGED <<deps, storeVars, seen, wave, todo, result, half, handed, aborted>>

Refuse ==
    /\ pc[Coordinator] = "idle" /\ starts < MaxStarts
    /\ starts' = starts + 1 /\ ~WellFormed
    /\ aborted' = TRUE
    /\ UNCHANGED <<deps, storeVars, actorVars, handed>>

(* The one read of a wave; the items to mark are the pending ones with a
   dependency that ended, in this snapshot, other than converged. *)
Snapshot ==
    /\ pc[Coordinator] = "snapshot"
    /\ Read(Coordinator) /\ Goto(Coordinator, "mark")
    /\ todo' = [todo EXCEPT ![Coordinator] =
                  {i \in Items : status[i] = "pending"
                                 /\ \E d \in deps[i] : status[d] \in FailedDep}]
    /\ UNCHANGED <<deps, storeVars, starts, wave, result, half, handed, aborted>>

MarkBlocked ==
    /\ pc[Coordinator] = "mark" /\ todo[Coordinator] # {}
    /\ LET i == Least(todo[Coordinator])
       IN  SetStatus(i, "blocked_on_dep") /\ Drop(Coordinator, i)
    /\ UNCHANGED <<deps, outcome, fleet, starts, pc, seen, wave, result, half, handed, aborted>>

\* Mutant of Ready: an item whose dependencies are merely over is ready.
ReadyWhenOver ==
    LET was == seen[Coordinator].status
    IN  {i \in Items : was[i] = "pending" /\ \A d \in deps[i] : was[d] # "pending"}

(* The ready items, from the snapshot the marking used. *)
Ready ==
    LET was == seen[Coordinator].status
    IN  {i \in Items : was[i] = "pending" /\ \A d \in deps[i] : was[d] = "converged"}

\* Mutant of Dispatch: the empty wave is dispatched as well.
DispatchAlways ==
    /\ pc[Coordinator] = "mark" /\ todo[Coordinator] = {}
    /\ Take(Coordinator, Ready) /\ Goto(Coordinator, "launch")
    /\ UNCHANGED <<deps, storeVars, starts, seen, result, half, handed, aborted>>

Dispatch ==
    /\ pc[Coordinator] = "mark" /\ todo[Coordinator] = {} /\ Ready # {}
    /\ Take(Coordinator, Ready) /\ Goto(Coordinator, "launch")
    /\ UNCHANGED <<deps, storeVars, starts, seen, result, half, handed, aborted>>

NoneReady ==
    /\ pc[Coordinator] = "mark" /\ todo[Coordinator] = {} /\ Ready = {}
    /\ Goto(Coordinator, "finalize")
    /\ UNCHANGED <<deps, storeVars, starts, seen, wave, todo, result, half, handed, aborted>>

-----------------------------------------------------------------------------
(* Running items, by the coordinator and by a re-brief alike.              *)

(* rebrief_item reads the rows and goes on with an escalated item only. *)
Rebrief(h) ==
    /\ pc[h] = "idle"
    /\ EarlyTalk \/ (pc[Coordinator] = "idle" /\ fleet # "running")
    /\ \E i \in Items : status[i] = "escalated" /\ Take(h, {i})
    /\ Goto(h, "launch")
    /\ UNCHANGED <<deps, storeVars, starts, seen, result, half, handed, aborted>>

Launch(a) ==
    /\ pc[a] = "launch" /\ todo[a] # {}
    /\ LET i == Least(todo[a]) IN SetStatus(i, "running") /\ Drop(a, i)
    /\ UNCHANGED <<deps, outcome, fleet, starts, pc, seen, wave, result, half, handed, aborted>>

(* The guard of the store refuses a transition, which ends the actor. *)
LaunchRefused(a) ==
    /\ pc[a] = "launch" /\ todo[a] # {}
    /\ ~Legal(Least(todo[a]), "running")
    /\ Unwind(a)

(* gather_upstream_outcomes: from the snapshot of the wave, or for a re-brief
   from the rows as they are now. *)
Upstream(a, i) ==
    LET of == IF a = Coordinator THEN seen[a].outcome ELSE outcome
    IN  {<<d, of[d]>> : d \in {e \in deps[i] : of[e] # None}}

(* run_parallel has run every worker of the wave to its end. *)
RunParallel(a) ==
    /\ pc[a] = "launch" /\ todo[a] = {}
    /\ \E res \in [wave[a] -> Results] :
         result' = [result EXCEPT ![a] = [i \in Items |-> IF i \in wave[a] THEN res[i] ELSE None]]
    /\ handed' = [i \in Items |-> IF i \in wave[a] THEN Upstream(a, i) ELSE handed[i]]
    /\ todo' = [todo EXCEPT ![a] = wave[a]] /\ Goto(a, "apply")
    /\ UNCHANGED <<deps, storeVars, starts, seen, wave, half, aborted>>

\* Mutant of ApplyFirst: the status is set before the outcome is there.
ApplyStatusFirst(a) ==
    /\ pc[a] = "apply" /\ todo[a] # {} /\ ~half[a]
    /\ LET i == Least(todo[a])
       IN  SetStatus(i, Classify(a, result[a][i])) /\ UNCHANGED outcome
    /\ half' = [half EXCEPT ![a] = TRUE]
    /\ UNCHANGED <<deps, fleet, starts, pc, seen, wave, todo, result, handed, aborted>>

(* apply_item_result: outcome then status, for a crash status then outcome. *)
ApplyFirst(a) ==
    /\ pc[a] = "apply" /\ todo[a] # {} /\ ~half[a]
    /\ LET i == Least(todo[a])
           r == result[a][i]
       IN  IF r = "crash"
           THEN SetStatus(i, Classify(a, r)) /\ UNCHANGED outcome
           ELSE outcome' = [outcome EXCEPT ![i] = r] /\ UNCHANGED status
    /\ half' = [half EXCEPT ![a] = TRUE]
    /\ UNCHANGED <<deps, fleet, starts, pc, seen, wave, todo, result, handed, aborted>>

ApplySecond(a) ==
    /\ pc[a] = "apply" /\ todo[a] # {} /\ half[a]
    /\ LET i == Least(todo[a])
           r == result[a][i]
       IN  /\ IF r = "crash"
              THEN outcome' = [outcome EXCEPT ![i] = r] /\ UNCHANGED status
              ELSE SetStatus(i, Classify(a, r)) /\ UNCHANGED outcome
           /\ Drop(a, i)
    /\ half' = [half EXCEPT ![a] = FALSE]
    /\ UNCHANGED <<deps, fleet, starts, pc, seen, wave, result, handed, aborted>>

(* All results applied: on to the next wave, or the re-brief returns. *)
WaveOver(a) ==
    /\ pc[a] = "apply" /\ todo[a] = {}
    /\ Take(a, {}) /\ Goto(a, IF a = Coordinator THEN "snapshot" ELSE "idle")
    /\ result' = [result EXCEPT ![a] = NoResults]
    /\ UNCHANGED <<deps, storeVars, starts, seen, half, handed, aborted>>

-----------------------------------------------------------------------------
(* The end of run_fleet: one read, one write.                              *)

ReadFinal ==
    /\ pc[Coordinator] = "finalize"
    /\ Read(Coordinator) /\ Goto(Coordinator, "close")
    /\ UNCHANGED <<deps, storeVars, starts, wave, todo, result, half, handed, aborted>>

\* Mutant of FinalStatus: the status of an item stored as that of the fleet.
FinalStatusOfItem(was) ==
    IF \E i \in Items : was[i] = "escalated" THEN "escalated" ELSE "stopped"

FinalStatus(was) ==
    IF Items # {} /\ \A i \in Items : was[i] = "converged" THEN "converged"
    ELSE IF \E i \in Items : was[i] = "escalated" THEN "awaiting_human"
    ELSE "stopped"

Close ==
    /\ pc[Coordinator] = "close"
    /\ fleet' = FinalStatus(seen[Coordinator].status)
    /\ Goto(Coordinator, "idle") /\ Forget(Coordinator)
    /\ UNCHANGED <<deps, status, outcome, starts, wave, todo, result, half, handed, aborted>>

(* run_parallel raises, or the process dies. *)
Abort(a) == pc[a] # "idle" /\ Unwind(a)

Work(a) ==
    \/ Launch(a) \/ LaunchRefused(a) \/ RunParallel(a)
    \/ ApplyFirst(a) \/ ApplySecond(a) \/ WaveOver(a)

Coordinate ==
    Snapshot \/ MarkBlocked \/ Dispatch \/ NoneReady \/ ReadFinal \/ Close

Next ==
    \/ Start \/ Refuse \/ Coordinate
    \/ \E h \in Humans : Rebrief(h)
    \/ \E a \in Actors : Work(a) \/ Abort(a)

(* Every worker has its timeouts and every wave ends: an actor that is under
   way goes on.  Nobody has to call run_fleet or to re-brief. *)
Spec ==
    /\ Init /\ [][Next]_vars
    /\ WF_vars(Coordinate \/ Work(Coordinator))
    /\ \A h \in Humans : WF_vars(Work(h))

-----------------------------------------------------------------------------
(* Properties.                                                             *)

(* Every variable has its type. *)
TypeOK ==
    /\ deps \in Graphs /\ status \in [Items -> Statuses]
    /\ outcome \in [Items -> Results \cup {None}]
    /\ fleet \in {"running", "converged", "awaiting_human", "stopped"}
    /\ starts \in 0..MaxStarts
    /\ pc \in [Actors -> {"idle", "snapshot", "mark", "launch", "apply", "finalize", "close"}]
    /\ seen \in [Actors -> [status : [Items -> Statuses],
                            outcome : [Items -> Results \cup {None}]]]
    /\ wave \in [Actors -> SUBSET Items] /\ todo \in [Actors -> SUBSET Items]
    /\ result \in [Actors -> [Items -> Results \cup {None}]]
    /\ half \in [Actors -> BOOLEAN]
    /\ handed \in [Items -> SUBSET (Items \X Results)] /\ aborted \in BOOLEAN

\* The items whose worker an actor runs, or has run and not yet accounted for.
Holds(a) ==
    CASE pc[a] = "launch" -> wave[a] \ todo[a]
      [] pc[a] = "apply"  -> IF half[a] THEN todo[a] \ {Least(todo[a])} ELSE todo[a]
      [] OTHER -> {}

(* No item is ever worked on twice at a time, by the coordinator and a human
   or by two humans, and while it is its row says running: what
   apply_item_result writes is never refused by the guard of set_item_status. *)
WorkersOwnTheirItems ==
    /\ \A a \in Actors : \A i \in Holds(a) : status[i] = "running"
    /\ \A a, b \in Actors : a # b => Holds(a) \cap Holds(b) = {}

(* An item is worked on only with all of its dependencies converged, and with
   the outcomes they have to this day, one for each: "a converged item always
   has its outcome present when a later wave's dependent pulls it". *)
UpstreamIsCurrent ==
    \A i \in Items :
        (\E a \in Actors : pc[a] = "apply" /\ i \in wave[a]) =>
            /\ \A d \in deps[i] : status[d] = "converged"
            /\ handed[i] = {<<d, outcome[d]>> : d \in deps[i]}

(* "The fleet NEVER auto-merges a blocked or unconfirmed item": an item is
   converged, and a fleet reported so, only on a result that was shippable. *)
ConvergedIsShippable ==
    /\ \A i \in Items : status[i] = "converged" => outcome[i] = "shippable"
    /\ fleet = "converged" => \A i \in Items : status[i] = "converged"

\* Everybody has returned, and nobody died or was refused.
Quiet == fleet # "running" /\ ~aborted /\ \A a \in Actors : pc[a] = "idle"

(* When everybody has returned, no item is left running, and none is pending
   that could run or that waits for an item whose worker has ended. *)
NothingRunnableIsLeft ==
    Quiet => \A i \in Items :
        /\ status[i] # "running"
        /\ status[i] = "pending" => \E d \in deps[i] : status[d] \in {"pending", "blocked_on_dep"}

(* An item whose dependency ended other than converged "is marked
   blocked_on_dep and surfaced": when everybody has returned, each item has
   ended or waits for a human, and none is still pending. *)
NothingIsLeft == Quiet => \A i \in Items : status[i] \notin {"pending", "running"}

(* A converged item stays converged and keeps the outcome its dependents were
   given, whatever the later waves, runs and re-briefs do. *)
ConvergedIsFinal ==
    [][\A i \in Items : status[i] = "converged" =>
         status'[i] = "converged" /\ outcome'[i] = outcome[i]]_vars

(* "never a hang": whoever is under way returns, or dies. *)
Returns == \A a \in Actors : pc[a] # "idle" ~> pc[a] = "idle"

(* "PARK: resumable": when a call of run_fleet is over, an item that is blocked
   on a dependency has a dependency that has still not converged: the call that
   resumes a parked fleet runs what the human's re-briefs have unblocked. *)
ParkIsResumable ==
    [][Close => \A i \in Items : status[i] = "blocked_on_dep" =>
                    \E d \in deps[i] : status[d] # "converged"]_vars
=============================================================================
