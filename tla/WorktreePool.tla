---------------------------- MODULE WorktreePool ----------------------------
(***************************************************************************)
(* run_parallel (autonomous/parallel.py): each target runs in a git        *)
(* worktree of its own, in a bounded pool of threads, and the git commands *)
(* that add and remove worktrees are serialised by one lock per process.   *)
(*                                                                         *)
(* Several calls may be under way in the process.  A slot is a target of a *)
(* call; the worktree and the branch of a target are named by its slug.    *)
(* What is on disk is absent, left over in part, or the worktree of a slot.*)
(***************************************************************************)
EXTENDS Integers, FiniteSets

CONSTANTS
    Calls,         \* calls of run_parallel that may overlap
    Targets,       \* the targets, in the order they are handed in
    Slug,          \* _safe_key of each target
    MaxParallel,   \* max_parallel of each call
    Free, Gone, Partial   \* nobody has the lock; no worktree; a left-over

ASSUME TargetsAssumption == Targets \subseteq Nat /\ IsFiniteSet(Targets)
ASSUME SlugAssumption == DOMAIN Slug = Targets
ASSUME ParallelAssumption == MaxParallel \in [Calls -> Nat \ {0}]
ASSUME MarksAssumption == {Free, Gone, Partial} \cap (Calls \X Targets) = {} /\ Gone # Partial

VARIABLES
    slot,    \* where each slot is
    value,   \* what its run came to
    lock,    \* the slot that holds _WORKTREE_LOCK
    disk     \* what is at the worktree path of each slug

poolVars == <<slot, value, lock, disk>>

Slots == Calls \X Targets
Slugs == {Slug[t] : t \in Targets}
Phases == {"none", "queued", "entering", "adding", "running", "leaving", "removing", "returned"}

PoolInit ==
    /\ slot = [s \in Slots |-> "none"] /\ value = [s \in Slots |-> "none"]
    /\ lock = Free /\ disk = [g \in Slugs |-> Gone]

Path(s) == Slug[s[2]]
Move(s, phase) == slot' = [slot EXCEPT ![s] = phase]

(* Keys that clash after sanitization are refused before any work. *)
Clash(S) == \E t, u \in S : t # u /\ Slug[t] = Slug[u]

Submit(c, S) ==
    /\ ~Clash(S)
    /\ slot' = [s \in Slots |-> IF s[1] = c /\ s[2] \in S THEN "queued" ELSE slot[s]]
    /\ UNCHANGED <<value, lock, disk>>

(* The next target in line, and a thread of the pool that is free for it. *)
MayTake(s) ==
    /\ slot[s] = "queued"
    /\ \A t \in Targets : slot[<<s[1], t>>] = "queued" => s[2] <= t
    /\ Cardinality({t \in Targets : slot[<<s[1], t>>] \notin {"none", "queued", "returned"}})
         < MaxParallel[s[1]]

Take(s) ==
    /\ MayTake(s) /\ Move(s, "entering")
    /\ UNCHANGED <<value, lock, disk>>

\* Mutant of Acquire: the lock is not looked at.
AcquireUnlocked(s) ==
    /\ slot[s] \in {"entering", "leaving"}
    /\ Move(s, IF slot[s] = "entering" THEN "adding" ELSE "removing")
    /\ lock' = s /\ UNCHANGED <<value, disk>>

MayLock(s) == slot[s] \in {"entering", "leaving"} /\ lock = Free

Acquire(s) ==
    /\ MayLock(s)
    /\ Move(s, IF slot[s] = "entering" THEN "adding" ELSE "removing")
    /\ lock' = s /\ UNCHANGED <<value, disk>>

(* git worktree add: only where there is nothing. *)
Add(s) ==
    /\ slot[s] = "adding" /\ disk[Path(s)] = Gone
    /\ disk' = [disk EXCEPT ![Path(s)] = s]
    /\ Move(s, "running") /\ lock' = Free /\ UNCHANGED value

\* Mutant of AddFails: the failed slot cleans up the path, whoever has it.
AddFailsAndRemoves(s) ==
    /\ slot[s] = "adding"
    /\ disk' = [disk EXCEPT ![Path(s)] = Gone]
    /\ value' = [value EXCEPT ![s] = "error"]
    /\ Move(s, "returned") /\ lock' = Free

\* Mutant of AddFails: the error leaves without giving the lock back.
AddFailsLocked(s) ==
    /\ slot[s] = "adding"
    /\ \/ UNCHANGED disk
       \/ disk[Path(s)] = Gone /\ disk' = [disk EXCEPT ![Path(s)] = Partial]
    /\ value' = [value EXCEPT ![s] = "error"]
    /\ Move(s, "returned") /\ UNCHANGED lock

(* It fails, or times out half-way; the slot returns and removes nothing. *)
AddFails(s) ==
    /\ slot[s] = "adding"
    /\ \/ UNCHANGED disk
       \/ disk[Path(s)] = Gone /\ disk' = [disk EXCEPT ![Path(s)] = Partial]
    /\ value' = [value EXCEPT ![s] = "error"]
    /\ Move(s, "returned") /\ lock' = Free

(* The target's run returns, or raises. *)
RunEnds(s) ==
    /\ slot[s] = "running"
    /\ \E v \in {"ok", "error"} : value' = [value EXCEPT ![s] = v]
    /\ Move(s, "leaving") /\ UNCHANGED <<lock, disk>>

\* Mutant of Remove: a crashed run keeps its worktree.
RemoveOnSuccess(s) ==
    /\ slot[s] = "removing"
    /\ disk' = IF value[s] = "ok" THEN [disk EXCEPT ![Path(s)] = Gone] ELSE disk
    /\ Move(s, "returned") /\ lock' = Free /\ UNCHANGED value

(* Best effort: what git and rmtree do not get rid of is left over. *)
Remove(s) ==
    /\ slot[s] = "removing"
    /\ \E left \in {Gone, Partial} : disk' = [disk EXCEPT ![Path(s)] = left]
    /\ Move(s, "returned") /\ lock' = Free /\ UNCHANGED value

Thread(s) ==
    Take(s) \/ Acquire(s) \/ Add(s) \/ AddFails(s) \/ RunEnds(s) \/ Remove(s)

(* A thread waits only for a place in the pool and for the lock. *)
MayMove(s) == MayTake(s) \/ MayLock(s) \/ slot[s] \in {"adding", "running", "removing"}

(* Every future is done, and the call gives back the results. *)
Ended(c, S) == \A t \in S : slot[<<c, t>>] = "returned"

Release(c) ==
    /\ slot' = [s \in Slots |-> IF s[1] = c THEN "none" ELSE slot[s]]
    /\ value' = [s \in Slots |-> IF s[1] = c THEN "none" ELSE value[s]]
    /\ UNCHANGED <<lock, disk>>

-----------------------------------------------------------------------------
(* Every variable has its type. *)
PoolTypeOK ==
    /\ slot \in [Slots -> Phases] /\ value \in [Slots -> {"none", "ok", "error"}]
    /\ lock \in Slots \cup {Free} /\ disk \in [Slugs -> Slots \cup {Gone, Partial}]

(* A loop that runs has its worktree, that no other call or target has taken
   over or removed: "a safety rollback in worktree A cannot disturb B". *)
WorktreeIsOwn == \A s \in Slots : slot[s] \in {"running", "leaving", "removing"} => disk[Path(s)] = s

(* No two git commands on the shared worktree metadata at the same time. *)
GitIsSerial ==
    \A s, u \in Slots : s # u => ~(slot[s] \in {"adding", "removing"} /\ slot[u] \in {"adding", "removing"})

(* "removed on completion, success or crash": no slot returns without having
   tried to remove its worktree.  What is on disk afterwards is nothing, or the
   left-over of a removal that failed, never a worktree nobody removed. *)
WorktreeIsRemoved ==
    \A s \in Slots : disk[Path(s)] = s => slot[s] \in {"running", "leaving", "removing"}
=============================================================================
