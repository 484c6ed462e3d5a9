-------------------------- MODULE HeartbeatProofs ---------------------------
(***************************************************************************)
(* What the scheduler and its pool guarantee for any targets, calls,       *)
(* intervals and widths: who has a worktree and the git lock, when a       *)
(* target is fired again, and what becomes of its resume anchor.           *)
(***************************************************************************)
EXTENDS Heartbeat, FiniteSetTheorems, WellFoundedInduction, TLAPS

(* Least picks the first target of the set it is given. *)
LEMMA LeastIsLeast ==
    ASSUME NEW S \in SUBSET Targets, S # {}
    PROVE  Least(S) \in S /\ \A u \in S : Least(S) <= u
<1>1. \E x \in S : \A y \in S : ~ (<<y, x>> \in OpToRel(<, Nat))
  BY TargetsAssumption, WFMin, NatLessThanWellFounded
<1>2. \A x, y \in S : <<y, x>> \in OpToRel(<, Nat) <=> y < x
  BY TargetsAssumption DEF OpToRel
<1>3. \E x \in S : \A y \in S : ~ (y < x)
  BY <1>1, <1>2, Zenon
<1>4. \E x \in S : \A y \in S : x <= y
  BY <1>3, TargetsAssumption
<1> QED BY <1>4 DEF Least

LEMMA LeastIsIn ==
    ASSUME NEW S \in SUBSET Targets, S # {}
    PROVE  Least(S) \in S
BY LeastIsLeast

-----------------------------------------------------------------------------
(* Types.                                                                  *)

(* TypeOK is not inductive: a tick under way has a number above 0, which it
   may stamp as an anchor, and so has each anchor it has read; what has run and
   is not stamped yet is still due. *)
Typed ==
    /\ TypeOK /\ disturbed \in BOOLEAN
    /\ fired \in [Targets -> {Null} \cup [at : 0..MaxNow, tick : 1..MaxTicks]]
    /\ seen \in [Calls -> [Targets -> (1..MaxTicks) \cup {Null}]]
    /\ \A c \in Calls : pc[c] # "idle" => number[c] \in 1..ticks /\ at[c] <= now
    /\ \A c \in Calls : ran[c] # "none" => pc[c] = "tick" /\ due[c] # {}

(* Nor is it without this: threads work for a call that waits for them, and on
   what it has still to stamp. *)
CallsOK ==
    \A c \in Calls, t \in Targets : slot[<<c, t>>] # "none" =>
        pc[c] = "wait" /\ (slot[<<c, t>>] = "returned" \/ t \in due[c])

(* A slot is an element of Slots, whatever its parts are called. *)
LEMMA SlotsArePairs == \A c \in Calls, t \in Targets : <<c, t>> \in Slots /\ Path(<<c, t>>) \in Slugs
BY DEF Slots, Path, Slugs

LEMMA InitTyped == Init => Typed /\ CallsOK
<1> SUFFICES ASSUME Init PROVE Typed /\ CallsOK
  OBVIOUS
<1>1. Fresh \in Rows
  BY DEF Fresh, Rows
<1>2. PoolTypeOK
  BY DEF Init, PoolInit, PoolTypeOK, Phases
<1>3. TypeOK
  BY <1>1, <1>2, BoundsAssumption DEF Init, TypeOK
<1>4. CallsOK
  BY SlotsArePairs DEF Init, PoolInit, CallsOK
<1> QED BY <1>3, <1>4, BoundsAssumption DEF Init, Typed, Nothing

(* A step of a thread of the pool keeps the types of the pool. *)
LEMMA ThreadTyped ==
    ASSUME PoolTypeOK, NEW s \in Slots, Thread(s)
    PROVE  PoolTypeOK'
<1> USE DEF PoolTypeOK, Move, Phases
<1>1. Path(s) \in Slugs
  BY SlotsArePairs DEF Slots
<1>2. CASE Take(s)
  BY <1>2 DEF Take, MayTake
<1>3. CASE Acquire(s)
  BY <1>3 DEF Acquire, MayLock
<1>4. CASE Add(s)
  BY <1>1, <1>4 DEF Add
<1>5. CASE AddFails(s)
  BY <1>1, <1>5 DEF AddFails
<1>6. CASE RunEnds(s)
  BY <1>6 DEF RunEnds
<1>7. CASE Remove(s)
  BY <1>1, <1>7 DEF Remove
<1> QED BY <1>2, <1>3, <1>4, <1>5, <1>6, <1>7 DEF Thread

(* Marking a row leaves it a row. *)
LEMMA MarkTyped ==
    ASSUME sched \in [Targets -> {Null} \cup Rows], NEW t \in Targets,
           NEW when \in 0..MaxNow, NEW id \in (1..MaxTicks) \cup {Null}, Mark(t, when, id)
    PROVE  sched' \in [Targets -> {Null} \cup Rows]
BY DEF Mark, Rows

LEMMA TypedStep == Typed /\ CallsOK /\ [Next]_vars => Typed'
<1> SUFFICES ASSUME Typed, CallsOK, [Next]_vars PROVE Typed'
  OBVIOUS
<1> USE BoundsAssumption DEF Typed, TypeOK
<1>1. CASE Pass
  BY <1>1 DEF Pass, tickVars, poolVars, PoolTypeOK
<1>2. CASE Die
  BY <1>2 DEF Die, Leave, PoolTypeOK, Phases, Nothing
<1>3. ASSUME NEW t \in Targets, Schedule(t) PROVE Typed'
  BY <1>3 DEF Schedule, Fresh, Rows, tickVars, poolVars, PoolTypeOK
<1>4. ASSUME NEW t \in Targets, Unschedule(t) PROVE Typed'
  BY <1>4 DEF Unschedule, tickVars, poolVars, PoolTypeOK
<1>5. ASSUME NEW c \in Calls, NEW mode \in {"tick", "parallel"}, Begin(c, mode) PROVE Typed'
  <2>1. \A t \in Targets : (IF IsDue(t) THEN sched[t].run ELSE Null) \in (1..MaxTicks) \cup {Null}
    BY DEF IsDue, Rows
  <2>2. seen' \in [Calls -> [Targets -> (1..MaxTicks) \cup {Null}]]
    BY <1>5, <2>1 DEF Begin
  <2>3. fired' \in [Targets -> {Null} \cup [at : 0..MaxNow, tick : 1..MaxTicks]]
    BY <1>5 DEF Begin, Nothing
  <2>4. PoolTypeOK'
    BY <1>5 DEF Begin, poolVars, PoolTypeOK
  <2> QED BY <1>5, <2>2, <2>3, <2>4 DEF Begin, Goto
<1>6. ASSUME NEW c \in Calls, Fire(c) PROVE Typed'
  <2>1. Least(due[c]) \in Targets
    BY <1>6, LeastIsIn DEF Fire
  <2>2. fired' \in [Targets -> {Null} \cup [at : 0..MaxNow, tick : 1..MaxTicks]]
    BY <1>6, <2>1 DEF Fire, Call
  <2> QED BY <1>6, <2>2 DEF Fire, poolVars, PoolTypeOK
<1>7. ASSUME NEW c \in Calls, Stamp(c) \/ StampNext(c) PROVE Typed'
  <2> DEFINE t == Least(due[c])
  <2>1. due[c] # {} /\ pc[c] # "idle"
    BY <1>7 DEF Stamp, StampNext
  <2>2. t \in Targets
    BY <2>1, LeastIsIn
  <2>3. \A v : Anchor(c, t, v) \in (1..MaxTicks) \cup {Null}
    BY <2>1, <2>2 DEF Anchor
  <2>4. sched' \in [Targets -> {Null} \cup Rows]
    <3>1. \E v : Mark(t, at[c], Anchor(c, t, v))
      BY <1>7 DEF Stamp, StampNext
    <3> QED BY <2>2, <2>3, <3>1, MarkTyped
  <2>5. CASE Stamp(c)
    <3>1. pc[c] = "tick"
      BY <2>5 DEF Stamp
    <3> QED BY <2>4, <2>5, <3>1 DEF Stamp, poolVars, PoolTypeOK
  <2>6. CASE StampNext(c)
    <3>1. pc[c] = "wait" /\ slot[<<c, t>>] = "returned"
      BY <2>1, <2>6, LeastIsIn DEF StampNext, Ended
    <3> QED BY <2>4, <2>6, <3>1 DEF StampNext, poolVars, PoolTypeOK
  <2> QED BY <1>7, <2>5, <2>6
<1>8. ASSUME NEW c \in Calls, SubmitDue(c) PROVE Typed'
  BY <1>8 DEF SubmitDue, Submit, Goto, PoolTypeOK, Phases
<1>9. ASSUME NEW c \in Calls, Raise(c) PROVE Typed'
  BY <1>9 DEF Raise, Leave, Nothing, poolVars, PoolTypeOK
<1>10. ASSUME NEW c \in Calls, Work(c) PROVE Typed'
  <2>1. PICK t \in Targets : /\ Thread(<<c, t>>)
                             /\ IF slot'[<<c, t>>] = "running" THEN Call(c, t) ELSE UNCHANGED fired
    BY <1>10 DEF Work
  <2>2. PoolTypeOK'
    BY <2>1, ThreadTyped, SlotsArePairs
  <2>3. pc[c] # "idle"
    BY <2>1, SlotsArePairs DEF CallsOK, Thread, Take, MayTake, Acquire, MayLock, Add, AddFails, RunEnds, Remove
  <2> QED BY <1>10, <2>1, <2>2, <2>3 DEF Work, Call, tickVars
<1>11. ASSUME NEW c \in Calls, Return(c) PROVE Typed'
  BY <1>11 DEF Return, Leave, Release, Nothing, PoolTypeOK, Phases
<1>12. CASE UNCHANGED vars
  BY <1>12 DEF vars, tickVars, poolVars, PoolTypeOK
<1> QED
  BY <1>1, <1>2, <1>3, <1>4, <1>5, <1>6, <1>7, <1>8, <1>9, <1>10, <1>11, <1>12 DEF Next, Go

(* A step of a thread moves its own slot, which is at work. *)
LEMMA ThreadMoves ==
    ASSUME PoolTypeOK, NEW s \in Slots, Thread(s)
    PROVE  /\ slot[s] \notin {"none", "returned"} /\ slot'[s] # "none"
           /\ \A u \in Slots : u # s => slot'[u] = slot[u]
BY DEF PoolTypeOK, Thread, Take, MayTake, Acquire, MayLock, Add, AddFails, RunEnds, Remove, Move

LEMMA CallsStep == Typed /\ CallsOK /\ [Next]_vars => CallsOK'
<1> SUFFICES ASSUME Typed, CallsOK, [Next]_vars PROVE CallsOK'
  OBVIOUS
<1> USE SlotsArePairs DEF Typed, TypeOK, PoolTypeOK, CallsOK
<1>1. CASE Pass \/ UNCHANGED vars
  BY <1>1 DEF Pass, vars, tickVars, poolVars
<1>2. CASE Die
  BY <1>2 DEF Die
<1>3. ASSUME NEW t \in Targets, Schedule(t) \/ Unschedule(t) PROVE CallsOK'
  BY <1>3 DEF Schedule, Unschedule, tickVars, poolVars
<1>4. ASSUME NEW c \in Calls, NEW mode \in {"tick", "parallel"}, Begin(c, mode) PROVE CallsOK'
  BY <1>4 DEF Begin, Goto, poolVars
<1>5. ASSUME NEW c \in Calls, Fire(c) \/ Stamp(c) PROVE CallsOK'
  BY <1>5 DEF Fire, Stamp, poolVars
<1>6. ASSUME NEW c \in Calls, SubmitDue(c) PROVE CallsOK'
  BY <1>6 DEF SubmitDue, Submit, Goto, Slots
<1>7. ASSUME NEW c \in Calls, Raise(c) PROVE CallsOK'
  BY <1>7 DEF Raise, Leave, poolVars
<1>8. ASSUME NEW c \in Calls, Work(c) PROVE CallsOK'
  <2>1. PICK t \in Targets : Thread(<<c, t>>)
    BY <1>8 DEF Work
  <2> QED BY <1>8, <2>1, ThreadMoves DEF Work, tickVars
<1>9. ASSUME NEW c \in Calls, StampNext(c) PROVE CallsOK'
  <2>1. slot[<<c, Least(due[c])>>] = "returned"
    BY <1>9, LeastIsIn DEF StampNext, Ended
  <2> QED BY <1>9, <2>1 DEF StampNext, poolVars
<1>10. ASSUME NEW c \in Calls, Return(c) PROVE CallsOK'
  BY <1>10 DEF Return, Leave, Release, Slots
<1> QED
  BY <1>1, <1>2, <1>3, <1>4, <1>5, <1>6, <1>7, <1>8, <1>9, <1>10 DEF Next, Go

(* Every variable has its type, for any number of targets, calls and ticks. *)
THEOREM TypeCorrect == Spec => []TypeOK
<1>1. Typed => TypeOK
  BY DEF Typed
<1> QED BY <1>1, InitTyped, TypedStep, CallsStep, PTL DEF Spec

-----------------------------------------------------------------------------
(* Worktrees and the lock.                                                 *)

AtWork == {"running", "leaving", "removing"}

(* Who runs git has the lock; who is at work has the worktree at its path; and
   as long as the process has not died, a worktree is of somebody at work. *)
PoolOK ==
    /\ \A s \in Slots : slot[s] \in {"adding", "removing"} => lock = s
    /\ WorktreeIsOwn
    /\ NothingLeftOver

(* A step of a thread keeps this: it adds only where there is nothing, and it
   removes only what is its own. *)
LEMMA ThreadPool ==
    ASSUME PoolTypeOK, PoolOK, NEW s \in Slots, Thread(s), disturbed' = disturbed
    PROVE  PoolOK'
<1> USE MarksAssumption
    DEF PoolTypeOK, PoolOK, WorktreeIsOwn, NothingLeftOver, WorktreeIsRemoved, Move, AtWork
<1>1. \A u \in Slots : Path(u) \in Slugs /\ u \notin {Free, Gone, Partial}
  BY SlotsArePairs DEF Slots
<1>2. CASE Take(s)
  BY <1>2 DEF Take, MayTake, Path
<1>3. CASE Acquire(s)
  BY <1>1, <1>3 DEF Acquire, MayLock, Path
<1>4. CASE Add(s)
  <2>1. \A u \in Slots : u # s => slot'[u] \notin {"adding", "removing"}
    BY <1>1, <1>4 DEF Add
  <2>2. \A u \in Slots : u # s /\ slot'[u] \in AtWork => disk'[Path(u)] = u
    BY <1>1, <1>4 DEF Add, Path
  <2> QED BY <1>1, <1>4, <2>1, <2>2 DEF Add, Path
<1>5. CASE AddFails(s)
  <2>1. \A u \in Slots : u # s => slot'[u] \notin {"adding", "removing"}
    BY <1>1, <1>5 DEF AddFails
  <2>2. \A u \in Slots : slot'[u] \in AtWork => disk'[Path(u)] = u
    BY <1>1, <1>5 DEF AddFails, Path
  <2> QED BY <1>1, <1>5, <2>1, <2>2 DEF AddFails, Path
<1>6. CASE RunEnds(s)
  BY <1>6 DEF RunEnds, Path
<1>7. CASE Remove(s)
  <2>1. \A u \in Slots : u # s => slot'[u] \notin {"adding", "removing"}
    BY <1>1, <1>7 DEF Remove
  <2>2. \A u \in Slots : u # s /\ slot'[u] \in AtWork => disk'[Path(u)] = u
    BY <1>1, <1>7 DEF Remove, Path
  <2> QED BY <1>1, <1>7, <2>1, <2>2 DEF Remove, Path
<1> QED BY <1>2, <1>3, <1>4, <1>5, <1>6, <1>7 DEF Thread

LEMMA PoolStep == Typed /\ CallsOK /\ PoolOK /\ [Next]_vars => PoolOK'
<1> SUFFICES ASSUME Typed, CallsOK, PoolOK, [Next]_vars PROVE PoolOK'
  OBVIOUS
<1> USE SlotsArePairs
    DEF Typed, TypeOK, PoolTypeOK, PoolOK, WorktreeIsOwn, NothingLeftOver, WorktreeIsRemoved, AtWork, Path
<1>1. CASE Pass \/ UNCHANGED vars
  BY <1>1 DEF Pass, vars, poolVars
<1>2. CASE Die
  BY <1>2 DEF Die
<1>3. ASSUME NEW t \in Targets, Schedule(t) \/ Unschedule(t) PROVE PoolOK'
  BY <1>3 DEF Schedule, Unschedule, poolVars
<1>4. ASSUME NEW c \in Calls, NEW mode \in {"tick", "parallel"}, Begin(c, mode) PROVE PoolOK'
  BY <1>4 DEF Begin, poolVars
<1>5. ASSUME NEW c \in Calls, Fire(c) \/ Stamp(c) \/ Raise(c) \/ StampNext(c) PROVE PoolOK'
  BY <1>5 DEF Fire, Stamp, Raise, StampNext, poolVars
<1>6. ASSUME NEW c \in Calls, SubmitDue(c) PROVE PoolOK'
  <2>1. \A t \in Targets : slot[<<c, t>>] = "none"
    BY <1>6 DEF SubmitDue, CallsOK
  <2>2. \A s \in Slots : slot'[s] = slot[s] \/ (slot[s] = "none" /\ slot'[s] = "queued")
    BY <1>6, <2>1 DEF SubmitDue, Submit, Slots
  <2> QED BY <1>6, <2>2 DEF SubmitDue, Submit
<1>7. ASSUME NEW c \in Calls, Work(c) PROVE PoolOK'
  <2>1. PICK t \in Targets : Thread(<<c, t>>)
    BY <1>7 DEF Work
  <2> QED BY <1>7, <2>1, ThreadPool DEF Work
<1>8. ASSUME NEW c \in Calls, Return(c) PROVE PoolOK'
  <2>1. \A t \in Targets : slot[<<c, t>>] \in {"none", "returned"}
    BY <1>8 DEF Return, CallsOK
  <2>2. \A s \in Slots : slot'[s] = slot[s] \/ (slot[s] \in {"none", "returned"} /\ slot'[s] = "none")
    BY <1>8, <2>1 DEF Return, Release, Slots
  <2> QED BY <1>8, <2>2 DEF Return, Release
<1> QED BY <1>1, <1>2, <1>3, <1>4, <1>5, <1>6, <1>7, <1>8 DEF Next, Go

LEMMA InitPool == Init => PoolOK
<1>1. \A s \in Slots : Path(s) \in Slugs /\ s # Gone
  BY SlotsArePairs, MarksAssumption DEF Slots
<1> QED BY <1>1 DEF Init, PoolInit, PoolOK, WorktreeIsOwn, NothingLeftOver, WorktreeIsRemoved, AtWork

(* A loop that runs has its worktree, whatever calls overlap, git commands fail
   or processes die, for any targets, names and widths of the pools. *)
THEOREM OwnTheorem == Spec => []WorktreeIsOwn
<1>1. PoolOK => WorktreeIsOwn
  BY DEF PoolOK
<1> QED BY <1>1, InitTyped, InitPool, TypedStep, CallsStep, PoolStep, PTL DEF Spec

(* The git commands of all pools of the process come one after the other. *)
THEOREM SerialTheorem == Spec => []GitIsSerial
<1>1. PoolOK => GitIsSerial
  BY DEF PoolOK, GitIsSerial
<1> QED BY <1>1, InitTyped, InitPool, TypedStep, CallsStep, PoolStep, PTL DEF Spec

(* As long as the process lives, no slot returns without having removed its
   worktree, or having tried to. *)
THEOREM RemovedTheorem == Spec => []NothingLeftOver
<1>1. PoolOK => NothingLeftOver
  BY DEF PoolOK
<1> QED BY <1>1, InitTyped, InitPool, TypedStep, CallsStep, PoolStep, PTL DEF Spec

-----------------------------------------------------------------------------
(* Nobody is stuck.                                                        *)

(* A lock that is held is held by a slot that runs git, which ends; and a tick
   that waits has submitted all it has still to stamp. *)
WaitsOK ==
    /\ lock # Free => lock \in Slots /\ slot[lock] \in {"adding", "removing"}
    /\ \A c \in Calls, t \in Targets : pc[c] = "wait" /\ t \in due[c] => slot[<<c, t>>] # "none"

(* A step of a thread takes the lock to run git, and gives it back after. *)
LEMMA ThreadWaits ==
    ASSUME PoolTypeOK, WaitsOK, NEW s \in Slots, Thread(s), UNCHANGED <<pc, due>>
    PROVE  WaitsOK'
<1> USE MarksAssumption DEF PoolTypeOK, WaitsOK, Move
<1>1. \A u \in Slots : u # Free
  BY DEF Slots
<1>2. lock' # Free => lock' \in Slots /\ slot'[lock'] \in {"adding", "removing"}
  <2>1. CASE Take(s)
    BY <2>1 DEF Take, MayTake
  <2>2. CASE Acquire(s)
    BY <1>1, <2>2 DEF Acquire, MayLock
  <2>3. CASE Add(s) \/ AddFails(s) \/ Remove(s)
    BY <2>3 DEF Add, AddFails, Remove
  <2>4. CASE RunEnds(s)
    BY <2>4 DEF RunEnds
  <2> QED BY <2>1, <2>2, <2>3, <2>4 DEF Thread
<1>3. \A u \in Slots : slot[u] # "none" => slot'[u] # "none"
  BY ThreadMoves
<1> QED BY <1>2, <1>3, SlotsArePairs

LEMMA WaitsStep == Typed /\ CallsOK /\ WaitsOK /\ [Next]_vars => WaitsOK'
<1> SUFFICES ASSUME Typed, CallsOK, WaitsOK, [Next]_vars PROVE WaitsOK'
  OBVIOUS
<1> USE SlotsArePairs DEF Typed, TypeOK, PoolTypeOK, WaitsOK
<1>1. CASE Pass \/ UNCHANGED vars
  BY <1>1 DEF Pass, vars, tickVars, poolVars
<1>2. CASE Die
  BY <1>2 DEF Die, Leave
<1>3. ASSUME NEW t \in Targets, Schedule(t) \/ Unschedule(t) PROVE WaitsOK'
  BY <1>3 DEF Schedule, Unschedule, tickVars, poolVars
<1>4. ASSUME NEW c \in Calls, NEW mode \in {"tick", "parallel"}, Begin(c, mode) PROVE WaitsOK'
  BY <1>4 DEF Begin, Goto, poolVars
<1>5. ASSUME NEW c \in Calls, Fire(c) \/ Stamp(c) \/ StampNext(c) PROVE WaitsOK'
  <2>1. \A d \in Calls : due'[d] \subseteq due[d]
    BY <1>5 DEF Fire, Stamp, StampNext
  <2> QED BY <1>5, <2>1 DEF Fire, Stamp, StampNext, poolVars
<1>6. ASSUME NEW c \in Calls, SubmitDue(c) PROVE WaitsOK'
  <2>1. \A t \in Targets : slot[<<c, t>>] = "none"
    BY <1>6 DEF SubmitDue, CallsOK
  <2>2. \A s \in Slots : slot'[s] = slot[s] \/ (slot[s] = "none" /\ slot'[s] = "queued")
    BY <1>6, <2>1 DEF SubmitDue, Submit, Slots
  <2>3. \A d \in Calls, t \in Targets : pc'[d] = "wait" /\ t \in due'[d] => slot'[<<d, t>>] # "none"
    BY <1>6, <2>2 DEF SubmitDue, Submit, Goto
  <2> QED BY <1>6, <2>2, <2>3 DEF SubmitDue, Submit
<1>7. ASSUME NEW c \in Calls, Raise(c) PROVE WaitsOK'
  BY <1>7 DEF Raise, Leave, poolVars
<1>8. ASSUME NEW c \in Calls, Work(c) PROVE WaitsOK'
  <2>1. PICK t \in Targets : Thread(<<c, t>>)
    BY <1>8 DEF Work
  <2>2. UNCHANGED <<pc, due>>
    BY <1>8 DEF Work, tickVars
  <2> QED BY <2>1, <2>2, ThreadWaits
<1>9. ASSUME NEW c \in Calls, Return(c) PROVE WaitsOK'
  <2>1. \A t \in Targets : slot[<<c, t>>] \in {"none", "returned"}
    BY <1>9 DEF Return, CallsOK
  <2>2. \A s \in Slots : slot'[s] = slot[s] \/ (slot[s] \in {"none", "returned"} /\ s[1] = c)
    BY <1>9, <2>1 DEF Return, Release, Slots
  <2>3. \A d \in Calls : d # c => pc'[d] = pc[d] /\ due'[d] = due[d]
    BY <1>9 DEF Return, Leave
  <2>4. pc'[c] = "idle"
    BY <1>9 DEF Return, Leave
  <2>5. lock' # Free => lock' \in Slots /\ slot'[lock'] \in {"adding", "removing"}
    BY <1>9, <2>2 DEF Return, Release
  <2> QED BY <2>2, <2>3, <2>4, <2>5
<1> QED BY <1>1, <1>2, <1>3, <1>4, <1>5, <1>6, <1>7, <1>8, <1>9 DEF Next, Go

(* A thread that is at work can move, or another has the lock, which can. *)
LEMMA WorkerMoves ==
    ASSUME PoolTypeOK, WaitsOK, NEW c \in Calls, NEW t \in Targets,
           slot[<<c, t>>] \notin {"none", "queued", "returned"}
    PROVE  \/ \E u \in Targets : MayMove(<<c, u>>)
           \/ \E s \in Slots : lock = s /\ s[1] # c /\ slot[s] \in {"adding", "removing"}
<1>1. slot[<<c, t>>] \in {"entering", "leaving", "adding", "running", "removing"}
  BY SlotsArePairs DEF PoolTypeOK, Phases
<1>2. CASE slot[<<c, t>>] \in {"adding", "running", "removing"} \/ lock = Free
  BY <1>1, <1>2 DEF MayMove, MayLock
<1>3. CASE lock # Free
  <2>1. lock \in Slots /\ slot[lock] \in {"adding", "removing"}
    BY <1>3 DEF WaitsOK
  <2>2. CASE lock[1] = c
    <3>1. lock = <<c, lock[2]>> /\ lock[2] \in Targets
      BY <2>1, <2>2 DEF Slots
    <3>2. MayMove(<<c, lock[2]>>)
      BY <2>1, <3>1 DEF MayMove
    <3> QED BY <3>1, <3>2
  <2> QED BY <2>1, <2>2
<1> QED BY <1>2, <1>3

(* When none of a call is at work, the first in line gets a thread. *)
LEMMA FirstInLineMoves ==
    ASSUME PoolTypeOK, NEW c \in Calls, NEW t \in Targets, slot[<<c, t>>] = "queued",
           \A u \in Targets : slot[<<c, u>>] \in {"none", "queued", "returned"}
    PROVE  \E u \in Targets : MayMove(<<c, u>>)
<1> DEFINE Q == {u \in Targets : slot[<<c, u>>] = "queued"}
           W == {u \in Targets : slot[<<c, u>>] \notin {"none", "queued", "returned"}}
<1>1. Q \in SUBSET Targets /\ Q # {}
  OBVIOUS
<1>2. Least(Q) \in Q /\ \A u \in Q : Least(Q) <= u
  BY <1>1, LeastIsLeast
<1>3. W = {}
  OBVIOUS
<1>4. Cardinality(W) = 0
  BY <1>3, FS_EmptySet
<1>5. MaxParallel[c] \in Nat \ {0}
  BY ParallelAssumption
<1>6. MayTake(<<c, Least(Q)>>)
  BY <1>2, <1>4, <1>5 DEF MayTake
<1> QED BY <1>2, <1>6 DEF MayMove

(* Whatever fails, raises or dies, and however narrow the pools are, a tick
   under way can go on, or waits for the git command of another, which ends. *)
THEOREM StuckTheorem == Spec => []NobodyIsStuck
<1> DEFINE Inv == Typed /\ CallsOK /\ WaitsOK
<1>1. Init => Inv
  <2>1. Init => WaitsOK
    BY DEF Init, PoolInit, WaitsOK
  <2> QED BY <2>1, InitTyped
<1>2. Inv /\ [Next]_vars => Inv'
  BY TypedStep, CallsStep, WaitsStep
<1>3. Inv => NobodyIsStuck
  <2> SUFFICES ASSUME Inv, NEW c \in Calls, pc[c] # "idle", ~MayGo(c)
               PROVE  \E s \in Slots : lock = s /\ s[1] # c /\ slot[s] \in {"adding", "removing"}
    BY DEF NobodyIsStuck
  <2>1. pc[c] = "wait" /\ ~Ended(c, due[c]) /\ ~\E t \in Targets : MayMove(<<c, t>>)
    BY DEF MayGo, Typed, TypeOK
  <2>2. PICK t \in due[c] : slot[<<c, t>>] # "returned"
    BY <2>1 DEF Ended
  <2>3. t \in Targets /\ slot[<<c, t>>] # "none"
    BY <2>1, <2>2 DEF Typed, TypeOK, WaitsOK
  <2>4. PoolTypeOK
    BY DEF Typed, TypeOK
  <2>5. \E u \in Targets : slot[<<c, u>>] \notin {"none", "queued", "returned"}
    BY <2>1, <2>2, <2>3, <2>4, FirstInLineMoves
  <2> QED BY <2>1, <2>4, <2>5, WorkerMoves
<1> QED BY <1>1, <1>2, <1>3, PTL DEF Spec

-----------------------------------------------------------------------------
(* Firings and anchors, as long as ticks do not overlap and the process    *)
(* lives.                                                                  *)

(* The tick has had the runner of t called, or gone without. *)
Dealt(c, t) ==
    /\ t \in due[c]
    /\ \/ pc[c] = "tick" /\ ran[c] # "none" /\ t = Least(due[c])
       \/ pc[c] = "wait" /\ slot[<<c, t>>] \in AtWork \cup {"returned"}

(* One tick at a time, of the number last given, and no later than any row. *)
AloneOK ==
    /\ \A c, d \in Calls : pc[c] # "idle" /\ pc[d] # "idle" => c = d
    /\ \A t \in Targets : sched[t] # Null =>
          /\ sched[t].last # Null => sched[t].last <= now
          /\ sched[t].run # Null => sched[t].run <= ticks
    /\ \A c \in Calls : pc[c] # "idle" =>
          /\ number[c] = ticks
          /\ \A t \in Targets : sched[t] # Null /\ sched[t].last # Null => sched[t].last <= at[c]
          /\ \A t \in Targets : seen[c][t] # Null => seen[c][t] <= ticks

(* A call of the runner of t is on record in its row, or by a tick that has
   still to stamp it; and who is due and not dealt with was last called an
   interval ago. *)
FiredOK ==
    /\ \A t \in Targets : fired[t] # Null =>
          /\ sched[t] # Null
          /\ \/ sched[t].last # Null /\ fired[t].at <= sched[t].last
             \/ \E c \in Calls : Dealt(c, t) /\ fired[t].at = at[c]
    /\ \A c \in Calls, t \in Targets :
          pc[c] # "idle" /\ t \in due[c] /\ fired[t] # Null /\ ~Dealt(c, t)
             => at[c] - fired[t].at >= Interval[t]

(* The anchor in the row of a target that is due is the one the tick has read,
   if the target was not scheduled anew. *)
AnchorOK ==
    \A c \in Calls, t \in Targets :
        pc[c] # "idle" /\ t \in due[c] /\ sched[t] # Null /\ sched[t].run # Null
           => seen[c][t] = sched[t].run

QuietOK == disturbed \/ (AloneOK /\ FiredOK /\ AnchorOK)

LEMMA InitQuiet == Init => QuietOK
BY DEF Init, QuietOK, AloneOK, FiredOK, AnchorOK, Nothing, Fresh

(* A tick that begins is alone, and starts from the rows as they are. *)
LEMMA BeginQuiet ==
    ASSUME Typed, CallsOK, QuietOK, NEW c \in Calls, NEW mode \in {"tick", "parallel"},
           Begin(c, mode), ~disturbed'
    PROVE  QuietOK'
<1> USE DEF Typed, TypeOK
<1>1. ~disturbed /\ \A d \in Calls : pc[d] = "idle"
  BY DEF Begin
<1>2. pc' = [pc EXCEPT ![c] = mode] /\ number'[c] = ticks + 1 /\ at'[c] = now
      /\ due'[c] = {t \in Targets : IsDue(t)} /\ UNCHANGED <<poolVars, now, sched, ran, fired>>
      /\ ticks' = ticks + 1
      /\ seen'[c] = [t \in Targets |-> IF IsDue(t) THEN sched[t].run ELSE Null]
  BY <1>1 DEF Begin, Goto
<1>3. \A d \in Calls, t \in Targets : ~Dealt(d, t) /\ (pc'[d] # "idle" => d = c)
  BY <1>1, <1>2 DEF Dealt
<1>4. \A t \in Targets : sched[t] # Null => sched[t] \in Rows
  OBVIOUS
<1>5. AloneOK'
  BY <1>1, <1>2, <1>3, <1>4, BoundsAssumption DEF QuietOK, AloneOK, IsDue, Rows
<1>6. AnchorOK'
  BY <1>2, <1>3 DEF AnchorOK
<1>7. \A t \in Targets : fired[t] # Null => sched[t] # Null /\ sched[t].last # Null /\ fired[t].at <= sched[t].last
  BY <1>1, <1>3 DEF QuietOK, FiredOK
<1>8. \A t \in due'[c] : fired'[t] # Null => at'[c] - fired'[t].at >= Interval[t]
  <2> SUFFICES ASSUME NEW t \in due'[c], fired[t] # Null
               PROVE  now - fired[t].at >= Interval[t]
    BY <1>2
  <2>1. t \in Targets /\ IsDue(t)
    BY <1>2
  <2>2. now - sched[t].last >= Interval[t] /\ fired[t].at <= sched[t].last
    BY <1>7, <2>1 DEF IsDue
  <2>3. sched[t].last \in Nat /\ fired[t].at \in Nat /\ Interval[t] \in Nat
    BY <1>4, <1>7, <2>1, BoundsAssumption, IntervalAssumption DEF Rows
  <2> QED BY <2>2, <2>3, BoundsAssumption
<1>9. FiredOK'
  BY <1>2, <1>3, <1>7, <1>8 DEF FiredOK
<1> QED BY <1>5, <1>6, <1>9 DEF QuietOK

(* What a stamp writes: later than what it replaces, and no older an anchor. *)
LEMMA StampRow ==
    ASSUME Typed, ~disturbed, QuietOK, NEW c \in Calls, due[c] # {}, pc[c] # "idle", NEW v,
           Mark(Least(due[c]), at[c], Anchor(c, Least(due[c]), v))
    PROVE  /\ \A u \in Targets : u # Least(due[c]) => sched'[u] = sched[u]
           /\ \A u \in Targets : sched[u] = Null <=> sched'[u] = Null
           /\ sched[Least(due[c])] # Null =>
                 /\ sched'[Least(due[c])].last = at[c]
                 /\ sched'[Least(due[c])].run = Anchor(c, Least(due[c]), v)
           /\ Anchor(c, Least(due[c]), v) # Null => Anchor(c, Least(due[c]), v) \in 1..ticks
<1> DEFINE t == Least(due[c])
           row == [last |-> at[c], run |-> Anchor(c, t, v)]
<1> USE BoundsAssumption DEF Typed, TypeOK
<1>1. t \in Targets /\ t \in due[c]
  BY LeastIsIn
<1>2. Anchor(c, t, v) \in (1..MaxTicks) \cup {Null}
  BY <1>1 DEF Anchor
<1>3. row \in Rows /\ row # Null
  BY <1>2, NullAssumption DEF Rows
<1>4. sched' = IF sched[t] = Null THEN sched ELSE [sched EXCEPT ![t] = row]
  BY DEF Mark
<1>5. Anchor(c, t, v) # Null => Anchor(c, t, v) \in 1..ticks
  BY <1>1, <1>2 DEF Anchor, QuietOK, AloneOK
<1> QED BY <1>1, <1>3, <1>4, <1>5

LEMMA StampQuiet ==
    ASSUME Typed, CallsOK, QuietOK, ~disturbed, NEW c \in Calls, Stamp(c) \/ StampNext(c)
    PROVE  QuietOK'
<1> DEFINE t == Least(due[c])
<1> USE BoundsAssumption DEF Typed, TypeOK
<1>1. due[c] # {} /\ pc[c] # "idle"
  BY DEF Stamp, StampNext
<1>2. t \in Targets /\ t \in due[c]
  BY <1>1, LeastIsIn
<1>3. PICK v : Mark(t, at[c], Anchor(c, t, v))
  BY DEF Stamp, StampNext
<1>4. /\ \A u \in Targets : u # t => sched'[u] = sched[u]
      /\ \A u \in Targets : sched[u] = Null <=> sched'[u] = Null
      /\ sched[t] # Null => sched'[t].last = at[c] /\ sched'[t].run = Anchor(c, t, v)
      /\ Anchor(c, t, v) # Null => Anchor(c, t, v) \in 1..ticks
  BY <1>1, <1>3, StampRow
<1>5. /\ due' = [due EXCEPT ![c] = @ \ {t}]
      /\ UNCHANGED <<slot, now, pc, at, number, seen, ticks, fired, disturbed>>
  BY DEF Stamp, StampNext, poolVars
<1>6. AloneOK /\ FiredOK /\ AnchorOK
  BY DEF QuietOK
<1>7. \A d \in Calls, u \in Targets : Dealt(d, u)' <=> Dealt(d, u) /\ <<d, u>> # <<c, t>>
  <2> SUFFICES ASSUME NEW d \in Calls, NEW u \in Targets
               PROVE  Dealt(d, u)' <=> Dealt(d, u) /\ <<d, u>> # <<c, t>>
    OBVIOUS
  <2>1. CASE d # c
    <3>1. pc[d] = "idle"
      BY <1>1, <1>6, <2>1 DEF AloneOK
    <3> QED BY <1>5, <2>1, <3>1 DEF Dealt
  <2>2. CASE d = c /\ Stamp(c)
    <3>1. pc[c] = "tick" /\ ran'[c] = "none"
      BY <2>2 DEF Stamp
    <3> QED BY <1>2, <1>5, <2>2, <3>1 DEF Dealt
  <2>3. CASE d = c /\ StampNext(c)
    <3>1. pc[c] = "wait"
      BY <2>3 DEF StampNext
    <3> QED BY <1>2, <1>5, <2>3, <3>1 DEF Dealt
  <2> QED BY <2>1, <2>2, <2>3
<1>8. AloneOK'
  <2>1. \A u \in Targets : sched'[u] # Null =>
          /\ sched'[u].last # Null => sched'[u].last <= now /\ (u = t => sched'[u].last = at[c])
          /\ sched'[u].run # Null => sched'[u].run <= ticks
    BY <1>1, <1>4, <1>6 DEF AloneOK
  <2>2. \A u \in Targets : sched'[u] # Null /\ sched'[u].last # Null => sched'[u].last <= at[c]
    <3>1. at[c] <= at[c]
      OBVIOUS
    <3> QED BY <1>1, <1>4, <1>6, <2>1, <3>1 DEF AloneOK
  <2>3. \A d \in Calls : pc[d] # "idle" => d = c
    BY <1>1, <1>6 DEF AloneOK
  <2> QED BY <1>5, <1>6, <2>1, <2>2, <2>3 DEF AloneOK
<1>9. AnchorOK'
  BY <1>1, <1>2, <1>4, <1>5, <1>6 DEF AloneOK, AnchorOK
<1>10. ASSUME NEW u \in Targets, fired[u] # Null
       PROVE  /\ sched'[u] # Null
              /\ \/ sched'[u].last # Null /\ fired[u].at <= sched'[u].last
                 \/ \E d \in Calls : Dealt(d, u)' /\ fired[u].at = at[d]
  <2>1. CASE u # t
    BY <1>4, <1>6, <1>7, <1>10, <2>1 DEF FiredOK
  <2>2. CASE u = t
    <3>1. sched[t] # Null /\ sched'[t] # Null /\ sched'[t].last = at[c] /\ at[c] # Null
      BY <1>4, <1>6, <1>10, <2>2 DEF FiredOK
    <3>2. fired[t].at <= at[c]
      <4>1. CASE sched[t].last # Null /\ fired[t].at <= sched[t].last
        <5>1. sched[t].last <= at[c]
          BY <1>1, <1>2, <1>6, <3>1, <4>1 DEF AloneOK
        <5>2. sched[t].last \in Nat /\ fired[t].at \in Nat /\ at[c] \in Nat
          BY <1>2, <1>10, <2>2, <3>1, <4>1 DEF Rows
        <5> QED BY <4>1, <5>1, <5>2
      <4>2. ASSUME NEW d \in Calls, Dealt(d, t), fired[t].at = at[d] PROVE fired[t].at <= at[c]
        <5>1. d = c
          BY <1>1, <1>6, <4>2 DEF AloneOK, Dealt
        <5> QED BY <4>2, <5>1
      <4> QED BY <1>6, <1>10, <2>2, <4>1, <4>2 DEF FiredOK
    <3> QED BY <2>2, <3>1, <3>2
  <2> QED BY <2>1, <2>2
<1>11. FiredOK'
  <2>1. \A d \in Calls, u \in Targets : u \in due'[d] => u \in due[d] /\ <<d, u>> # <<c, t>>
    BY <1>2, <1>5
  <2> QED BY <1>5, <1>6, <1>7, <1>10, <2>1 DEF FiredOK
<1> QED BY <1>5, <1>8, <1>9, <1>11 DEF QuietOK

(* A thread that calls the runner has just been given its worktree, and what
   has been dealt with stays so until it is stamped. *)
LEMMA WorkDeals ==
    ASSUME Typed, CallsOK, NEW c \in Calls, NEW t \in Targets, Thread(<<c, t>>),
           UNCHANGED <<due, pc, ran>>
    PROVE  /\ pc[c] = "wait" /\ t \in due[c]
           /\ slot'[<<c, t>>] = "running" => slot[<<c, t>>] = "adding" /\ ~Dealt(c, t) /\ Dealt(c, t)'
           /\ \A d \in Calls, u \in Targets : Dealt(d, u) => Dealt(d, u)'
<1> USE SlotsArePairs DEF Typed, TypeOK, PoolTypeOK, Move
<1>1. /\ slot[<<c, t>>] \notin {"none", "returned"}
      /\ \A u \in Slots : u # <<c, t>> => slot'[u] = slot[u]
  BY ThreadMoves
<1>2. pc[c] = "wait" /\ t \in due[c]
  BY <1>1 DEF CallsOK
<1>3. slot'[<<c, t>>] = "running" => slot[<<c, t>>] = "adding"
  BY DEF Thread, Take, MayTake, Acquire, MayLock, Add, AddFails, RunEnds, Remove
<1>4. slot[<<c, t>>] \in AtWork => slot'[<<c, t>>] \in AtWork \cup {"returned"}
  BY DEF Thread, Take, MayTake, Acquire, MayLock, Add, AddFails, RunEnds, Remove, AtWork
<1>5. \A d \in Calls, u \in Targets : Dealt(d, u) => Dealt(d, u)'
  <2> SUFFICES ASSUME NEW d \in Calls, NEW u \in Targets, Dealt(d, u) PROVE Dealt(d, u)'
    OBVIOUS
  <2>1. CASE <<d, u>> = <<c, t>>
    BY <1>1, <1>2, <1>4, <2>1 DEF Dealt
  <2>2. CASE <<d, u>> # <<c, t>>
    BY <1>1, <2>2 DEF Dealt
  <2> QED BY <2>1, <2>2
<1> QED BY <1>2, <1>3, <1>5 DEF Dealt, AtWork

(* The runner of t is called by a tick that is due to, once in that tick. *)
LEMMA CallStep ==
    ASSUME Typed, CallsOK, QuietOK, ~disturbed', NEW c \in Calls, Fire(c) \/ Work(c)
    PROVE  /\ pc[c] # "idle" /\ UNCHANGED <<now, sched, pc, at, number, seen, due, ticks, disturbed>>
           /\ \A d \in Calls, u \in Targets : Dealt(d, u) => Dealt(d, u)'
           /\ \E t \in due[c] :
                 /\ \A u \in Targets \ {t} : fired'[u] = fired[u]
                 /\ fired'[t] # fired[t] =>
                       /\ ~Dealt(c, t) /\ Dealt(c, t)' /\ sched[t] # Null
                       /\ fired'[t] = [at |-> at[c], tick |-> number[c]]
<1> USE DEF Typed, TypeOK
<1>1. CASE Fire(c)
  <2>1. Least(due[c]) \in due[c] /\ Least(due[c]) \in Targets
    BY <1>1, LeastIsIn DEF Fire
  <2>2. \A d \in Calls, u \in Targets : Dealt(d, u) => Dealt(d, u)'
    BY <1>1 DEF Fire, Dealt, poolVars
  <2>3. ~Dealt(c, Least(due[c])) /\ Dealt(c, Least(due[c]))'
    BY <1>1, <2>1 DEF Fire, Dealt
  <2> QED BY <1>1, <2>1, <2>2, <2>3 DEF Fire, Call
<1>2. CASE Work(c)
  <2>1. PICK t \in Targets : /\ Thread(<<c, t>>)
                             /\ IF slot'[<<c, t>>] = "running" THEN Call(c, t) ELSE UNCHANGED fired
    BY <1>2 DEF Work
  <2>2. UNCHANGED <<now, sched, pc, at, number, seen, due, ran, ticks, disturbed>>
    BY <1>2 DEF Work, tickVars
  <2>3. /\ pc[c] = "wait" /\ t \in due[c]
        /\ slot'[<<c, t>>] = "running" => ~Dealt(c, t) /\ Dealt(c, t)'
        /\ \A d \in Calls, u \in Targets : Dealt(d, u) => Dealt(d, u)'
    BY <2>1, <2>2, WorkDeals
  <2> QED BY <2>1, <2>2, <2>3 DEF Call
<1> QED BY <1>1, <1>2

LEMMA CallQuiet ==
    ASSUME Typed, CallsOK, QuietOK, ~disturbed', NEW c \in Calls, Fire(c) \/ Work(c)
    PROVE  QuietOK'
<1> USE DEF Typed, TypeOK
<1>1. /\ pc[c] # "idle" /\ UNCHANGED <<now, sched, pc, at, number, seen, due, ticks, disturbed>>
      /\ \A d \in Calls, u \in Targets : Dealt(d, u) => Dealt(d, u)'
  BY CallStep
<1>2. PICK t \in due[c] :
        /\ \A u \in Targets \ {t} : fired'[u] = fired[u]
        /\ fired'[t] # fired[t] =>
              /\ ~Dealt(c, t) /\ Dealt(c, t)' /\ sched[t] # Null
              /\ fired'[t] = [at |-> at[c], tick |-> number[c]]
  BY CallStep
<1>3. AloneOK /\ FiredOK /\ AnchorOK
  BY <1>1 DEF QuietOK
<1>4. AloneOK' /\ AnchorOK'
  BY <1>1, <1>3 DEF AloneOK, AnchorOK
<1>5. ASSUME NEW u \in Targets, fired'[u] # Null
      PROVE  /\ sched'[u] # Null
             /\ \/ sched'[u].last # Null /\ fired'[u].at <= sched'[u].last
                \/ \E d \in Calls : Dealt(d, u)' /\ fired'[u].at = at'[d]
  <2>1. CASE fired'[u] = fired[u]
    BY <1>1, <1>3, <1>5, <2>1 DEF FiredOK
  <2>2. CASE fired'[u] # fired[u]
    BY <1>1, <1>2, <2>2
  <2> QED BY <2>1, <2>2
<1>6. ASSUME NEW d \in Calls, NEW u \in Targets, pc'[d] # "idle", u \in due'[d], fired'[u] # Null, ~Dealt(d, u)'
      PROVE  at'[d] - fired'[u].at >= Interval[u]
  <2>1. d = c /\ ~Dealt(d, u)
    BY <1>1, <1>3, <1>6 DEF AloneOK
  <2>2. fired'[u] = fired[u]
    BY <1>2, <1>6, <2>1
  <2> QED BY <1>1, <1>3, <1>6, <2>1, <2>2 DEF FiredOK
<1> QED BY <1>4, <1>5, <1>6 DEF FiredOK, QuietOK

LEMMA QuietStep == Typed /\ CallsOK /\ QuietOK /\ [Next]_vars => QuietOK'
<1> SUFFICES ASSUME Typed, CallsOK, QuietOK, [Next]_vars, ~disturbed' PROVE QuietOK'
  BY DEF QuietOK
<1> USE DEF Typed, TypeOK
<1>1. CASE Pass \/ UNCHANGED vars
  <2>1. now <= now' /\ UNCHANGED <<slot, sched, pc, at, number, seen, due, ran, ticks, fired, disturbed>>
    BY <1>1, BoundsAssumption DEF Pass, vars, tickVars, poolVars
  <2>2. \A t \in Targets : sched[t] # Null /\ sched[t].last # Null => sched[t].last \in Nat
    BY BoundsAssumption DEF Rows
  <2>3. AloneOK'
    <3>1. AloneOK /\ now' \in Nat /\ now \in Nat
      BY <1>1, <2>1, BoundsAssumption DEF QuietOK, Pass, vars
    <3> QED BY <2>1, <2>2, <3>1 DEF AloneOK
  <2>4. \A d \in Calls, u \in Targets : Dealt(d, u)' <=> Dealt(d, u)
    BY <2>1 DEF Dealt
  <2>5. FiredOK' /\ AnchorOK'
    <3>1. FiredOK /\ AnchorOK
      BY <2>1 DEF QuietOK
    <3>2. AnchorOK'
      BY <2>1, <3>1 DEF AnchorOK
    <3>3. FiredOK'
      BY <2>1, <2>4, <3>1 DEF FiredOK
    <3> QED BY <3>2, <3>3
  <2> QED BY <2>3, <2>5 DEF QuietOK
<1>2. CASE Die
  BY <1>2 DEF Die
<1>3. ASSUME NEW t \in Targets, Schedule(t) PROVE QuietOK'
  BY <1>3, NullAssumption
  DEF Schedule, Fresh, tickVars, poolVars, QuietOK, AloneOK, FiredOK, AnchorOK, Dealt
<1>4. ASSUME NEW t \in Targets, Unschedule(t) PROVE QuietOK'
  <2>1. UNCHANGED <<slot, now, pc, at, number, seen, due, ran, ticks, disturbed>>
    BY <1>4 DEF Unschedule, tickVars, poolVars
  <2>2. /\ sched'[t] = Null /\ fired'[t] = Null
        /\ \A u \in Targets : u # t => sched'[u] = sched[u] /\ fired'[u] = fired[u]
    BY <1>4 DEF Unschedule
  <2>3. \A d \in Calls, u \in Targets : Dealt(d, u)' <=> Dealt(d, u)
    BY <2>1 DEF Dealt
  <2>4. AloneOK /\ FiredOK /\ AnchorOK
    BY <2>1 DEF QuietOK
  <2>5. AloneOK' /\ AnchorOK'
    BY <2>1, <2>2, <2>4 DEF AloneOK, AnchorOK
  <2>6. FiredOK'
    <3>1. \A u \in Targets : fired'[u] # Null => u # t /\ fired[u] # Null
      BY <2>2
    <3>2. \A u \in Targets : fired'[u] # Null =>
             /\ sched'[u] # Null
             /\ \/ sched'[u].last # Null /\ fired'[u].at <= sched'[u].last
                \/ \E d \in Calls : Dealt(d, u)' /\ fired'[u].at = at'[d]
      BY <2>1, <2>2, <2>3, <2>4, <3>1 DEF FiredOK
    <3>3. \A d \in Calls, u \in Targets :
             pc'[d] # "idle" /\ u \in due'[d] /\ fired'[u] # Null /\ ~Dealt(d, u)'
                => at'[d] - fired'[u].at >= Interval[u]
      BY <2>1, <2>2, <2>3, <2>4, <3>1 DEF FiredOK
    <3> QED BY <3>2, <3>3 DEF FiredOK
  <2> QED BY <2>5, <2>6 DEF QuietOK
<1>5. ASSUME NEW c \in Calls, NEW mode \in {"tick", "parallel"}, Begin(c, mode) PROVE QuietOK'
  BY <1>5, BeginQuiet
<1>6. ASSUME NEW c \in Calls, Fire(c) \/ Work(c) PROVE QuietOK'
  BY <1>6, CallQuiet
<1>7. ASSUME NEW c \in Calls, Stamp(c) \/ StampNext(c) PROVE QuietOK'
  BY <1>7, StampQuiet DEF Stamp, StampNext
<1>8. ASSUME NEW c \in Calls, SubmitDue(c) PROVE QuietOK'
  <2>1. \A d \in Calls, u \in Targets : ~Dealt(d, u) /\ ~Dealt(d, u)'
    <3>1. \A d \in Calls : pc[d] # "idle" => d = c
      BY <1>8 DEF SubmitDue, QuietOK, AloneOK
    <3>2. \A u \in due[c] : slot'[<<c, u>>] = "queued"
      BY <1>8, SlotsArePairs DEF SubmitDue, Submit
    <3> QED BY <1>8, <3>1, <3>2 DEF SubmitDue, Submit, Goto, Dealt, AtWork
  <2> QED BY <1>8, <2>1 DEF SubmitDue, Goto, QuietOK, AloneOK, FiredOK, AnchorOK
<1>9. ASSUME NEW c \in Calls, Raise(c) \/ Return(c) PROVE QuietOK'
  <2>1. \A d \in Calls, u \in Targets : ~Dealt(d, u) /\ ~Dealt(d, u)'
    BY <1>9 DEF Raise, Return, Leave, QuietOK, AloneOK, Dealt
  <2> QED BY <1>9, <2>1 DEF Raise, Return, Leave, QuietOK, AloneOK, FiredOK, AnchorOK
<1> QED
  BY <1>1, <1>2, <1>3, <1>4, <1>5, <1>6, <1>7, <1>8, <1>9 DEF Next, Go

(* The steps that stamp: an anchor they replace is no newer. *)
LEMMA AnchorKept ==
    ASSUME Typed, CallsOK, QuietOK, ~disturbed', NEW c \in Calls, Stamp(c) \/ StampNext(c),
           NEW u \in Targets, sched[u] # Null, sched'[u] # Null, sched[u].run # Null
    PROVE  sched'[u].run # Null /\ sched'[u].run >= sched[u].run
<1> DEFINE t == Least(due[c])
<1> USE BoundsAssumption DEF Typed, TypeOK
<1>1. due[c] # {} /\ pc[c] # "idle" /\ ~disturbed
  BY DEF Stamp, StampNext
<1>2. t \in Targets /\ t \in due[c]
  BY <1>1, LeastIsIn
<1>3. PICK v : Mark(t, at[c], Anchor(c, t, v))
  BY DEF Stamp, StampNext
<1>4. /\ \A w \in Targets : w # t => sched'[w] = sched[w]
      /\ sched[t] # Null => sched'[t].last = at[c] /\ sched'[t].run = Anchor(c, t, v)
  BY <1>1, <1>3, StampRow
<1>5. sched[u].run \in Nat
  BY DEF Rows
<1>6. CASE u # t
  BY <1>4, <1>5, <1>6
<1>7. CASE u = t
  <2>1. seen[c][t] = sched[t].run /\ number[c] >= sched[t].run /\ number[c] \in Nat
    BY <1>1, <1>2, <1>7 DEF QuietOK, AloneOK, AnchorOK
  <2> QED BY <1>4, <1>5, <1>7, <2>1 DEF Anchor
<1> QED BY <1>6, <1>7

(* As long as ticks do not overlap and the process lives, the runner of a target
   is called again only after its interval, whatever the runs come to, for any
   targets and intervals and in both modes of a tick. *)
THEOREM HotLoopTheorem == Spec => NoHotLoop
<1> DEFINE Inv == Typed /\ CallsOK /\ QuietOK
           A == \A t \in Targets :
                   fired'[t] # fired[t] /\ fired'[t] # Null /\ fired[t] # Null /\ ~disturbed'
                      => fired'[t].at - fired[t].at >= Interval[t]
<1>1. Init => Inv
  BY InitTyped, InitQuiet
<1>2. Inv /\ [Next]_vars => Inv'
  BY TypedStep, CallsStep, QuietStep
<1>3. Inv /\ [Next]_vars => [A]_vars
  <2> SUFFICES ASSUME Inv, Next, NEW t \in Targets,
                      fired'[t] # fired[t], fired'[t] # Null, fired[t] # Null, ~disturbed'
               PROVE  fired'[t].at - fired[t].at >= Interval[t]
    OBVIOUS
  <2>1. PICK c \in Calls : Fire(c) \/ Work(c)
    BY DEF Typed, TypeOK, Next, Go, Pass, Die, Schedule, Unschedule, Begin, Stamp, SubmitDue, Raise,
           StampNext, Return, Nothing
  <2>2. /\ pc[c] # "idle" /\ ~disturbed /\ t \in due[c] /\ ~Dealt(c, t)
        /\ fired'[t] = [at |-> at[c], tick |-> number[c]]
    BY <2>1, CallStep
  <2>3. at[c] - fired[t].at >= Interval[t]
    BY <2>2 DEF QuietOK, FiredOK
  <2> QED BY <2>2, <2>3
<1>4. NoHotLoop <=> [][A]_vars
  BY DEF NoHotLoop
<1> QED BY <1>1, <1>2, <1>3, <1>4, PTL DEF Spec

(* As long as ticks do not overlap and the process lives, the resume anchor of a
   target never goes back or is lost, for any targets and in both modes. *)
THEOREM AnchorTheorem == Spec => AnchorIsKept
<1> DEFINE Inv == Typed /\ CallsOK /\ QuietOK
           A == \A t \in Targets :
                   sched[t] # Null /\ sched'[t] # Null /\ sched[t].run # Null /\ ~disturbed'
                      => sched'[t].run # Null /\ sched'[t].run >= sched[t].run
<1>1. Init => Inv
  BY InitTyped, InitQuiet
<1>2. Inv /\ [Next]_vars => Inv'
  BY TypedStep, CallsStep, QuietStep
<1>3. Inv /\ [Next]_vars => [A]_vars
  <2> SUFFICES ASSUME Inv, Next, NEW t \in Targets,
                      sched[t] # Null, sched'[t] # Null, sched[t].run # Null, ~disturbed'
               PROVE  sched'[t].run # Null /\ sched'[t].run >= sched[t].run
    OBVIOUS
  <2>1. CASE sched'[t] = sched[t]
    BY <2>1, BoundsAssumption DEF Typed, TypeOK, Rows
  <2>2. CASE sched'[t] # sched[t]
    <3>1. PICK c \in Calls : Stamp(c) \/ StampNext(c)
      BY <2>2 DEF Typed, TypeOK, Next, Go, Pass, Die, Schedule, Unschedule, Begin, Fire, SubmitDue, Raise,
                  Work, Return
    <3> QED BY <3>1, AnchorKept
  <2> QED BY <2>1, <2>2
<1>4. AnchorIsKept <=> [][A]_vars
  BY DEF AnchorIsKept
<1> QED BY <1>1, <1>2, <1>3, <1>4, PTL DEF Spec
=============================================================================
