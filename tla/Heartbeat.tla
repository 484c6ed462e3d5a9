----------------------------- MODULE Heartbeat -----------------------------
(***************************************************************************)
(* The durable cadence of scheduler/heartbeat.py over the schedule_state   *)
(* rows of memory/store.py: tick, which fires the due targets one by one,  *)
(* and tick_parallel, which hands them to run_parallel (WorktreePool).     *)
(*                                                                         *)
(* A tick is called with the time it is; ticks may overlap, as threads of  *)
(* one process.  The id of a run is the number of the tick that fired it:  *)
(* ids grow, and a tick fires a target once.  Null stands for a row that   *)
(* is not there, and for a value that is not in a row.                     *)
(***************************************************************************)
EXTENDS WorktreePool

CONSTANTS
    Interval,           \* interval_seconds of each target
    MaxNow, MaxTicks,   \* bounds on the clock and on the ticks
    Null

ASSUME IntervalAssumption == Interval \in [Targets -> Nat \ {0}]
ASSUME BoundsAssumption == MaxNow \in Nat /\ MaxTicks \in Nat /\ Null \notin Nat

(* A row of schedule_state. *)
Rows == [last : (0..MaxNow) \cup {Null}, run : (1..MaxTicks) \cup {Null}]
ASSUME NullAssumption == Null \notin Rows

VARIABLES
    now,       \* the clock
    sched,     \* schedule_state: last_fired and last_run_id of each target
    pc,        \* where each tick is
    at,        \* its parameter `now`
    number,    \* its number
    seen,      \* the resume anchors it has read
    due,       \* the due targets it has still to deal with
    ran,       \* what the runner has just returned, in a sequential tick
    ticks,     \* the ticks so far
    disturbed, \* history: ticks have overlapped, or the process died
    fired      \* history, until then: when, and by which tick, each runner was last called

tickVars == <<pc, at, number, seen, due, ran>>
vars == <<poolVars, now, sched, tickVars, ticks, fired, disturbed>>

Fresh == [last |-> Null, run |-> Null]
Nothing == [t \in Targets |-> Null]

Init ==
    /\ PoolInit
    /\ now = 0 /\ sched = [t \in Targets |-> Fresh]
    /\ pc = [c \in Calls |-> "idle"] /\ at = [c \in Calls |-> 0]
    /\ number = [c \in Calls |-> 0]
    /\ seen = [c \in Calls |-> Nothing] /\ due = [c \in Calls |-> {}]
    /\ ran = [c \in Calls |-> "none"]
    /\ ticks = 0 /\ fired = Nothing /\ disturbed = FALSE

Least(S) == CHOOSE t \in S : \A u \in S : t <= u
Goto(c, l) == pc' = [pc EXCEPT ![c] = l]

(* The ticks of C return, or raise, or die: their locals are no more. *)
Leave(C) ==
    /\ pc' = [c \in Calls |-> IF c \in C THEN "idle" ELSE pc[c]]
    /\ at' = [c \in Calls |-> IF c \in C THEN 0 ELSE at[c]]
    /\ number' = [c \in Calls |-> IF c \in C THEN 0 ELSE number[c]]
    /\ seen' = [c \in Calls |-> IF c \in C THEN Nothing ELSE seen[c]]
    /\ due' = [c \in Calls |-> IF c \in C THEN {} ELSE due[c]]
    /\ ran' = [c \in Calls |-> IF c \in C THEN "none" ELSE ran[c]]

Pass ==
    /\ now < MaxNow /\ now' = now + 1
    /\ UNCHANGED <<poolVars, sched, tickVars, ticks, fired, disturbed>>

(* upsert_schedule keeps the anchor of a registered target. *)
Schedule(t) ==
    /\ sched[t] = Null /\ sched' = [sched EXCEPT ![t] = Fresh]
    /\ UNCHANGED <<poolVars, now, tickVars, ticks, fired, disturbed>>

Unschedule(t) ==
    /\ sched[t] # Null /\ sched' = [sched EXCEPT ![t] = Null]
    /\ fired' = [fired EXCEPT ![t] = Null]
    /\ UNCHANGED <<poolVars, now, tickVars, ticks, disturbed>>

\* Mutant of IsDue: due an instant early.
IsDueEarly(t) ==
    sched[t] # Null /\ (sched[t].last = Null \/ now - sched[t].last >= Interval[t] - 1)

IsDue(t) == sched[t] # Null /\ (sched[t].last = Null \/ now - sched[t].last >= Interval[t])

(* A tick reads the rows once: due targets and resume anchors are from here. *)
Begin(c, mode) ==
    /\ pc[c] = "idle" /\ ticks < MaxTicks
    /\ ticks' = ticks + 1 /\ number' = [number EXCEPT ![c] = ticks + 1]
    /\ at' = [at EXCEPT ![c] = now] /\ due' = [due EXCEPT ![c] = {t \in Targets : IsDue(t)}]
    /\ seen' = [seen EXCEPT ![c] = [t \in Targets |-> IF IsDue(t) THEN sched[t].run ELSE Null]]
    /\ Goto(c, mode)
    /\ disturbed' = (disturbed \/ \E d \in Calls : pc[d] # "idle")
    /\ fired' = IF disturbed' THEN Nothing ELSE fired
    /\ UNCHANGED <<poolVars, now, sched, ran>>

\* Mutant of Mark: the values bound in the wrong order.
MarkSwapped(t, when, run) ==
    sched' = IF sched[t] = Null THEN sched
             ELSE [sched EXCEPT ![t] = [last |-> run, run |-> when]]

(* mark_scheduled_fired: an UPDATE, which finds no row once unscheduled. *)
Mark(t, when, run) ==
    sched' = IF sched[t] = Null THEN sched
             ELSE [sched EXCEPT ![t] = [last |-> when, run |-> run]]

(* The runner of t is called. *)
Call(c, t) ==
    fired' = IF sched[t] = Null \/ disturbed THEN fired
             ELSE [fired EXCEPT ![t] = [at |-> at[c], tick |-> number[c]]]

-----------------------------------------------------------------------------
(* tick: runner, stamp, next target.                                       *)

Fire(c) ==
    /\ pc[c] = "tick" /\ due[c] # {} /\ ran[c] = "none"
    /\ \E v \in {"ok", "error"} : ran' = [ran EXCEPT ![c] = v]
    /\ Call(c, Least(due[c]))
    /\ UNCHANGED <<poolVars, now, sched, pc, at, number, seen, due, ticks, disturbed>>

\* Mutant of Anchor: a failed run loses the anchor.
AnchorForgets(c, t, v) == IF v = "ok" THEN number[c] ELSE Null

(* The run id of a success, the anchor that was read for a failure. *)
Anchor(c, t, v) == IF v = "ok" THEN number[c] ELSE seen[c][t]

\* Mutant of Stamp: only a success is stamped.
StampSuccess(c) ==
    /\ pc[c] = "tick" /\ ran[c] # "none"
    /\ LET t == Least(due[c])
       IN  /\ IF ran[c] = "ok" THEN Mark(t, at[c], number[c]) ELSE UNCHANGED sched
           /\ due' = [due EXCEPT ![c] = @ \ {t}]
    /\ ran' = [ran EXCEPT ![c] = "none"]
    /\ UNCHANGED <<poolVars, now, pc, at, number, seen, ticks, fired, disturbed>>

Stamp(c) ==
    /\ pc[c] = "tick" /\ ran[c] # "none"
    /\ LET t == Least(due[c])
       IN  Mark(t, at[c], Anchor(c, t, ran[c])) /\ due' = [due EXCEPT ![c] = @ \ {t}]
    /\ ran' = [ran EXCEPT ![c] = "none"]
    /\ UNCHANGED <<poolVars, now, pc, at, number, seen, ticks, fired, disturbed>>

-----------------------------------------------------------------------------
(* tick_parallel: submit all, wait for all, stamp all.                     *)

SubmitDue(c) ==
    /\ pc[c] = "parallel" /\ due[c] # {}
    /\ Submit(c, due[c]) /\ Goto(c, "wait")
    /\ UNCHANGED <<now, sched, at, number, seen, due, ran, ticks, fired, disturbed>>

(* run_parallel raises, for a clash or for want of an answer of git, and with
   it the tick: nothing is stamped. *)
Raise(c) ==
    /\ pc[c] = "parallel" /\ due[c] # {}
    /\ Leave({c})
    /\ UNCHANGED <<poolVars, now, sched, ticks, fired, disturbed>>

Work(c) ==
    /\ \E t \in Targets :
         /\ Thread(<<c, t>>)
         /\ IF slot'[<<c, t>>] = "running" THEN Call(c, t) ELSE UNCHANGED fired
    /\ UNCHANGED <<now, sched, tickVars, ticks, disturbed>>

StampNext(c) ==
    /\ pc[c] = "wait" /\ due[c] # {} /\ Ended(c, due[c])
    /\ LET t == Least(due[c])
       IN  Mark(t, at[c], Anchor(c, t, value[<<c, t>>])) /\ due' = [due EXCEPT ![c] = @ \ {t}]
    /\ UNCHANGED <<poolVars, now, pc, at, number, seen, ran, ticks, fired, disturbed>>

(* Nothing is due any more: the tick returns. *)
Return(c) ==
    /\ pc[c] # "idle" /\ due[c] = {} /\ ran[c] = "none"
    /\ Leave({c}) /\ Release(c)
    /\ UNCHANGED <<now, sched, ticks, fired, disturbed>>

(* The process dies: rows and worktrees stay, threads and the lock go. *)
Die ==
    /\ \E c \in Calls : pc[c] # "idle"
    /\ slot' = [s \in Slots |-> "none"] /\ value' = [s \in Slots |-> "none"]
    /\ lock' = Free /\ UNCHANGED disk
    /\ Leave(Calls) /\ disturbed' = TRUE /\ fired' = Nothing
    /\ UNCHANGED <<now, sched, ticks>>

Go(c) ==
    \/ Fire(c) \/ Stamp(c)
    \/ SubmitDue(c) \/ Raise(c) \/ Work(c) \/ StampNext(c) \/ Return(c)

(* A tick waits only for the futures of its pool. *)
MayGo(c) ==
    \/ pc[c] \in {"tick", "parallel"} \/ due[c] = {} \/ Ended(c, due[c])
    \/ \E t \in Targets : MayMove(<<c, t>>)

Next ==
    \/ Pass \/ Die
    \/ \E t \in Targets : Schedule(t) \/ Unschedule(t)
    \/ \E c \in Calls : Begin(c, "tick") \/ Begin(c, "parallel") \/ Go(c)

Spec == Init /\ [][Next]_vars

-----------------------------------------------------------------------------
(* Properties.                                                             *)

(* Every variable has its type. *)
TypeOK ==
    /\ PoolTypeOK /\ now \in 0..MaxNow /\ ticks \in 0..MaxTicks
    /\ sched \in [Targets -> {Null} \cup Rows]
    /\ pc \in [Calls -> {"idle", "tick", "parallel", "wait"}]
    /\ due \in [Calls -> SUBSET Targets] /\ ran \in [Calls -> {"none", "ok", "error"}]
    /\ at \in [Calls -> 0..MaxNow] /\ number \in [Calls -> 0..MaxTicks]

(* No slot returns without having removed its worktree, or tried to, as long
   as the process has not died under it. *)
NothingLeftOver == disturbed \/ WorktreeIsRemoved

(* "stamped so it does not hot-loop": as long as ticks do not overlap and the
   process lives, the runner of a target, failing or not, is called again only
   after its interval. *)
NoHotLoop ==
    [][\A t \in Targets :
         fired'[t] # fired[t] /\ fired'[t] # Null /\ fired[t] # Null /\ ~disturbed'
            => fired'[t].at - fired[t].at >= Interval[t]]_vars

(* "keep the prior resume anchor": as long as ticks do not overlap and the
   process lives, the anchor of a target never goes back to an older run or
   to none, other than by unscheduling it. *)
AnchorIsKept ==
    [][\A t \in Targets :
         sched[t] # Null /\ sched'[t] # Null /\ sched[t].run # Null /\ ~disturbed'
            => sched'[t].run # Null /\ sched'[t].run >= sched[t].run]_vars

(* A tick under way can go on, or waits for a git command that is under way:
   whatever fails or raises, the lock is not lost and no queue is stuck. *)
NobodyIsStuck ==
    \A c \in Calls :
        pc[c] # "idle" =>
            MayGo(c) \/ \E s \in Slots : lock = s /\ s[1] # c /\ slot[s] \in {"adding", "removing"}
=============================================================================
