---------------------------- MODULE SweepProofs -----------------------------
(***************************************************************************)
(* What the experiment publishes is what it was answered: for any targets, *)
(* menu sizes, seeds and keys, over any number of runs killed anywhere.    *)
(***************************************************************************)
EXTENDS Sweep, ListLemmas, FiniteSetTheorems, TLAPS

(* The tally of a row more. *)
LEMMA TallyAppend ==
    ASSUME NEW rows, IsList(rows), NEW row, NEW n, NEW outcomes
    PROVE  /\ Tally(rows, n, outcomes) \in Nat
           /\ Tally(Append(rows, row), n, outcomes)
                = IF row.n = n /\ row.outcome \in outcomes THEN Tally(rows, n, outcomes) + 1
                  ELSE Tally(rows, n, outcomes)
<1> DEFINE more == Append(rows, row)
           In(s) == {k \in DOMAIN s : s[k].n = n /\ s[k].outcome \in outcomes}
           next == Len(rows) + 1
<1>1. /\ Len(rows) \in Nat /\ DOMAIN rows = 1..Len(rows) /\ DOMAIN more = 1..next
      /\ \A k \in DOMAIN rows : more[k] = rows[k]
      /\ more[next] = row
  BY Appended
<1>2. IsFiniteSet(In(rows)) /\ next \notin In(rows)
  <2>1. IsFiniteSet(1..Len(rows))
    BY <1>1, FS_Interval
  <2>2. In(rows) \subseteq 1..Len(rows)
    BY <1>1
  <2> QED BY <1>1, <2>1, <2>2, FS_Subset
<1>3. DOMAIN more = DOMAIN rows \cup {next}
  BY <1>1
<1>4. In(more) = IF row.n = n /\ row.outcome \in outcomes THEN In(rows) \cup {next} ELSE In(rows)
  <2> HIDE DEF more, next
  <2>1. CASE row.n = n /\ row.outcome \in outcomes
    BY <1>1, <1>3, <2>1
  <2>2. CASE ~(row.n = n /\ row.outcome \in outcomes)
    BY <1>1, <1>3, <2>2
  <2> QED BY <2>1, <2>2
<1>5. Cardinality(In(rows)) \in Nat /\ Cardinality(In(rows) \cup {next}) = Cardinality(In(rows)) + 1
  BY <1>2, FS_AddElement, FS_CardinalityType
<1> QED BY <1>4, <1>5 DEF Tally

(* The rows of two sets of outcomes that share none. *)
LEMMA TallySplit ==
    ASSUME NEW rows, IsList(rows), NEW n, NEW S, NEW o, o \notin S
    PROVE  Tally(rows, n, S \cup {o}) = Tally(rows, n, S) + Tally(rows, n, {o})
<1> DEFINE In(T) == {k \in DOMAIN rows : rows[k].n = n /\ rows[k].outcome \in T}
<1>1. IsFiniteSet(DOMAIN rows)
  <2>1. Len(rows) \in Nat /\ DOMAIN rows = 1..Len(rows)
    BY Appended
  <2> QED BY <2>1, FS_Interval
<1>2. \A T : IsFiniteSet(In(T)) /\ Cardinality(In(T)) \in Nat
  <2> TAKE T
  <2>1. In(T) \subseteq DOMAIN rows
    OBVIOUS
  <2> HIDE DEF In
  <2>2. IsFiniteSet(In(T))
    BY <1>1, <2>1, FS_Subset
  <2> QED BY <2>2, FS_CardinalityType
<1>3. In(S \cup {o}) = In(S) \cup In({o}) /\ In(S) \cap In({o}) = {}
  OBVIOUS
<1>4. Tally(rows, n, S \cup {o}) = Cardinality(In(S \cup {o}))
      /\ Tally(rows, n, S) = Cardinality(In(S)) /\ Tally(rows, n, {o}) = Cardinality(In({o}))
  BY DEF Tally
<1> HIDE DEF In
<1>5. Cardinality(In(S) \cup In({o})) = Cardinality(In(S)) + Cardinality(In({o})) - Cardinality({})
  BY <1>2, <1>3, FS_Union
<1>6. Cardinality({}) = 0
  BY FS_EmptySet
<1>7. Cardinality(In(S)) \in Nat /\ Cardinality(In({o})) \in Nat
  BY <1>2
<1>8. Cardinality(In(S) \cup In({o})) = Cardinality(In(S)) + Cardinality(In({o}))
  BY <1>3, <1>5, <1>6, <1>7
<1> QED BY <1>3, <1>4, <1>8

(* No rows, no tally. *)
LEMMA TallyEmpty ==
    ASSUME NEW n, NEW S
    PROVE  Tally(<<>>, n, S) = 0
<1>1. {k \in DOMAIN <<>> : <<>>[k].n = n /\ <<>>[k].outcome \in S} = {}
  OBVIOUS
<1> QED BY <1>1, FS_EmptySet DEF Tally

(* Blocks of b: the number k, counted from zero, lies in the block k \div b. *)
LEMMA Blocks ==
    ASSUME NEW b \in Nat, b > 0, NEW k \in Nat, NEW i \in Nat
    PROVE  k \div b \in Nat /\ (k \div b = i <=> i * b <= k /\ k < (i + 1) * b)
<1> DEFINE q == k \div b
<1>1. q \in Nat /\ q * b <= k /\ k < q * b + b
  OBVIOUS
<1> HIDE DEF q
<1>2. (i + 1) * b = i * b + b /\ i * b \in Nat /\ q * b \in Nat
  BY <1>1
<1>3. CASE q = i
  BY <1>1, <1>2, <1>3
<1>4. CASE q < i
  <2>1. PICK d \in Nat : i = q + 1 + d
    <3>1. i - q - 1 \in Nat /\ i = q + 1 + (i - q - 1)
      BY <1>1, <1>4
    <3> QED BY <3>1
  <2>2. i * b = q * b + b + d * b /\ d * b >= 0
    BY <1>1, <2>1
  <2> QED BY <1>1, <1>2, <1>4, <2>2
<1>5. CASE q > i
  <2>1. PICK d \in Nat : q = i + 1 + d
    <3>1. q - i - 1 \in Nat /\ q = i + 1 + (q - i - 1)
      BY <1>1, <1>5
    <3> QED BY <3>1
  <2>2. q * b = i * b + b + d * b /\ d * b >= 0
    BY <1>1, <2>1
  <2> QED BY <1>1, <1>2, <1>5, <2>2
<1> QED BY <1>1, <1>3, <1>4, <1>5 DEF q

(* A number below l blocks of b lies in one of them. *)
LEMMA InBlocks ==
    ASSUME NEW b \in Nat, b > 0, NEW l \in Nat, NEW k \in Nat, k < l * b
    PROVE  k \div b \in 0..(l - 1)
<1> DEFINE q == k \div b
<1>1. q \in Nat /\ q * b <= k
  BY Blocks
<1> HIDE DEF q
<1>2. q < l
  <2> SUFFICES ASSUME q >= l PROVE FALSE
    BY <1>1
  <2>1. PICK d \in Nat : q = l + d
    <3>1. q - l \in Nat /\ q = l + (q - l)
      BY <1>1
    <3> QED BY <3>1
  <2>2. q * b = l * b + d * b /\ d * b >= 0
    BY <2>1
  <2> QED BY <1>1, <2>2
<1> QED BY <1>1, <1>2 DEF q

-----------------------------------------------------------------------------
(* The inductive invariant. *)

Block == Len(SEEDS) * Len(probes)   \* the trials of one menu size

(* Rows of trials, in a sequence. *)
Rows(rows) == IsList(rows) /\ \A k \in DOMAIN rows : rows[k].outcome \in Outcomes

(* What counts as an answer is read from a reply on disk. *)
Read(disk, of, outcome) == of \in DOMAIN disk /\ disk[of] \in Replies /\ outcome \in Scores(disk[of])
Known(disk, rows) ==
    \A k \in DOMAIN rows : rows[k].outcome # "error" => Read(disk, rows[k].of, rows[k].outcome)

Shape ==
    /\ phase \in {"idle", "probes", "sweep", "done", "dead"}
    /\ Rows(trials) /\ IsList(probes) /\ asked \in Nat
    /\ results \in [Range(N_SWEEP) -> [Outcomes -> Nat]]

(* What is paid for is on disk, or lost. *)
Whole(disk, prompt) == prompt \in DOMAIN disk /\ disk[prompt] # None
Balanced == \A prompt :
    /\ Count(lost, prompt) \in Nat
    /\ Count(paid, prompt) = Count(lost, prompt) + (IF Whole(cache, prompt) THEN 1 ELSE 0)

CacheOK ==
    /\ Balanced
    /\ Known(cache, trials)
    /\ published # None => Known(cache, published.trials)

(* The trials behind are those of the three loops, and each is in its tally. *)
CountOK ==
    /\ \A n \in Range(N_SWEEP), o \in Outcomes : results[n][o] = Tally(trials, n, {o})
    /\ phase \in {"idle", "probes"} => trials = <<>>
    /\ phase = "sweep" =>
          /\ Len(probes) > 0 /\ asked = Len(trials) /\ asked <= All
          /\ \A k \in DOMAIN trials : trials[k].n = N_SWEEP[(k - 1) \div Block + 1]

(* What is published, of each menu size. *)
Sound(n) ==
    /\ Tally(published.trials, n, Outcomes) = Len(SEEDS) * Len(published.probes)
    /\ published.accuracy[n] # None =>
          published.accuracy[n][2] = Tally(published.trials, n, Outcomes \ {"error"})
              /\ published.accuracy[n][2] >= MIN_TRIALS

PublishedOK == published # None =>
    Rows(published.trials) /\ \A n \in Range(N_SWEEP) : Sound(n)

Inv == Shape /\ CacheOK /\ CountOK /\ PublishedOK
-----------------------------------------------------------------------------
(* The disk. *)

(* A count is of its own prompt. *)
LEMMA Counted ==
    ASSUME NEW f, NEW prompt, NEW p
    PROVE  Count(Another(f, prompt), p) = IF p = prompt THEN Count(f, p) + 1 ELSE Count(f, p)
BY DEF Count, Another, Put

(* What is read stays where no reply is removed. *)
LEMMA StaysKnown ==
    ASSUME NEW disk, NEW after,
           \A p \in DOMAIN disk : disk[p] \in Replies => p \in DOMAIN after /\ after[p] = disk[p]
    PROVE  \A rows : Known(disk, rows) => Known(after, rows)
<1> SUFFICES ASSUME NEW rows, Known(disk, rows), NEW k \in DOMAIN rows, rows[k].outcome # "error"
             PROVE  Read(after, rows[k].of, rows[k].outcome)
  BY DEF Known
<1>1. Read(disk, rows[k].of, rows[k].outcome)
  BY DEF Known
<1> QED BY <1>1 DEF Read

(* A file that was not there, and is. *)
LEMMA Written ==
    ASSUME NEW prompt, NEW value, ~Cached(prompt), cache' = Put(cache, prompt, value)
    PROVE  /\ prompt \in DOMAIN cache' /\ cache'[prompt] = value
           /\ \A p : Whole(cache', p) <=> IF p = prompt THEN value # None ELSE Whole(cache, p)
           /\ \A rows : Known(cache, rows) => Known(cache', rows)
<1>1. /\ DOMAIN cache' = DOMAIN cache \cup {prompt} /\ cache'[prompt] = value
      /\ \A p \in DOMAIN cache : p # prompt /\ cache'[p] = cache[p]
  BY DEF Put, Cached
<1>2. \A rows : Known(cache, rows) => Known(cache', rows)
  BY <1>1, StaysKnown
<1> QED BY <1>1, <1>2 DEF Whole

(* A call that is answered leaves its reply on disk and every other as it was. *)
LEMMA AnsweredLeaves ==
    ASSUME Balanced, NEW prompt, NEW tries, NEW reply, reply # None, Answered(prompt, tries, reply)
    PROVE  /\ Balanced' /\ prompt \in DOMAIN cache' /\ cache'[prompt] = reply
           /\ \A rows : Known(cache, rows) => Known(cache', rows)
<1>1. CASE Cached(prompt)
  <2>1. cache' = cache /\ paid' = paid /\ lost' = lost /\ prompt \in DOMAIN cache /\ reply = cache[prompt]
    BY <1>1 DEF Answered, Cached
  <2>2. Balanced'
    BY <2>1 DEF Balanced, Count, Whole
  <2> QED BY <2>1, <2>2
<1>2. CASE ~Cached(prompt)
  <2>1. cache' = Put(cache, prompt, reply) /\ paid' = Another(paid, prompt) /\ lost' = lost
    BY <1>2 DEF Answered
  <2>2. ASSUME NEW p
        PROVE  /\ Count(lost', p) \in Nat
               /\ Count(paid', p) = Count(lost', p) + (IF Whole(cache', p) THEN 1 ELSE 0)
    <3>1. /\ Count(lost, p) \in Nat /\ Count(lost', p) = Count(lost, p)
          /\ Count(paid, p) = Count(lost, p) + (IF Whole(cache, p) THEN 1 ELSE 0)
      BY <2>1 DEF Balanced
    <3>2. Count(paid', p) = IF p = prompt THEN Count(paid, p) + 1 ELSE Count(paid, p)
      BY <2>1, Counted
    <3>3. Whole(cache', p) <=> p = prompt \/ Whole(cache, p)
      BY <1>2, <2>1, Written
    <3>4. p = prompt => ~Whole(cache, p)
      BY <1>2 DEF Whole, Cached
    <3> QED BY <3>1, <3>2, <3>3, <3>4
  <2>3. Balanced'
    BY <2>2 DEF Balanced, Count, Whole
  <2> QED BY <1>2, <2>1, <2>3, Written
<1> QED BY <1>1, <1>2

(* A reply that dies with the process is paid for, lost, and no file or a torn one. *)
LEMMA KillLeaves ==
    ASSUME Balanced, KillWriting
    PROVE  Balanced' /\ \A rows : Known(cache, rows) => Known(cache', rows)
<1>1. PICK prompt : /\ ~Cached(prompt)
                    /\ paid' = Another(paid, prompt) /\ lost' = Another(lost, prompt)
                    /\ cache' = Put(cache, prompt, None) \/ cache' = cache
  BY DEF KillWriting
<1>2. /\ \A p : Whole(cache', p) <=> Whole(cache, p)
      /\ \A rows : Known(cache, rows) => Known(cache', rows)
  <2>1. CASE cache' = Put(cache, prompt, None)
    BY <1>1, <2>1, Written DEF Whole, Cached
  <2>2. CASE cache' = cache
    BY <2>2
  <2> QED BY <1>1, <2>1, <2>2
<1>3. ASSUME NEW p
      PROVE  /\ Count(lost', p) \in Nat
             /\ Count(paid', p) = Count(lost', p) + (IF Whole(cache', p) THEN 1 ELSE 0)
  <2>1. /\ Count(lost, p) \in Nat
        /\ Count(paid, p) = Count(lost, p) + (IF Whole(cache, p) THEN 1 ELSE 0)
    BY DEF Balanced
  <2>2. /\ Count(paid', p) = IF p = prompt THEN Count(paid, p) + 1 ELSE Count(paid, p)
        /\ Count(lost', p) = IF p = prompt THEN Count(lost, p) + 1 ELSE Count(lost, p)
    BY <1>1, Counted
  <2> QED BY <1>2, <2>1, <2>2
<1>4. Balanced'
  BY <1>3 DEF Balanced, Count, Whole
<1> QED BY <1>2, <1>4

(* Removing what is torn takes no reply with it. *)
LEMMA RepairLeaves ==
    ASSUME Balanced, Repair
    PROVE  Balanced' /\ \A rows : Known(cache, rows) => Known(cache', rows)
<1>1. PICK prompt \in DOMAIN cache :
         /\ cache[prompt] = None
         /\ cache' = Restrict(cache, DOMAIN cache \ {prompt})
         /\ paid' = paid /\ lost' = lost
  BY DEF Repair, Torn
<1>2. /\ DOMAIN cache' = DOMAIN cache \ {prompt}
      /\ \A p \in DOMAIN cache \ {prompt} : cache'[p] = cache[p]
  BY <1>1 DEF Restrict
<1>3. \A p : Whole(cache', p) <=> Whole(cache, p)
  BY <1>1, <1>2 DEF Whole
<1>4. Balanced'
  BY <1>1, <1>3 DEF Balanced, Count, Whole
<1>5. \A rows : Known(cache, rows) => Known(cache', rows)
  BY <1>1, <1>2, StaysKnown, RepliesAssumption
<1> QED BY <1>4, <1>5

(* A row more of what is known. *)
LEMMA KnownAppend ==
    ASSUME NEW disk, NEW rows, IsList(rows), Known(disk, rows), NEW row,
           row.outcome # "error" => Read(disk, row.of, row.outcome)
    PROVE  Known(disk, Append(rows, row))
<1> DEFINE more == Append(rows, row)
<1>1. /\ Len(rows) \in Nat /\ DOMAIN rows = 1..Len(rows) /\ DOMAIN more = 1..(Len(rows) + 1)
      /\ \A k \in DOMAIN rows : more[k] = rows[k]
      /\ more[Len(rows) + 1] = row
  BY Appended
<1> HIDE DEF more
<1> SUFFICES ASSUME NEW k \in DOMAIN more, more[k].outcome # "error"
             PROVE  Read(disk, more[k].of, more[k].outcome)
  BY DEF Known, more
<1>2. CASE k = Len(rows) + 1
  BY <1>1, <1>2
<1>3. CASE k \in DOMAIN rows
  BY <1>1, <1>3 DEF Known
<1> QED BY <1>1, <1>2, <1>3
-----------------------------------------------------------------------------
(* The trials. *)

(* The lists of the experiment. *)
LEMMA Lists ==
    /\ Len(N_SWEEP) \in Nat /\ DOMAIN N_SWEEP = 1..Len(N_SWEEP)
    /\ \A i \in 1..Len(N_SWEEP) : N_SWEEP[i] \in Range(N_SWEEP)
    /\ \A n \in Range(N_SWEEP) : \E i \in 1..Len(N_SWEEP) : n = N_SWEEP[i]
    /\ Len(SEEDS) \in Nat /\ Len(Targets) \in Nat
BY ListsAssumption DEF Range

(* All the trials are as many blocks as there are menu sizes. *)
LEMMA AllBlocks ==
    ASSUME Shape
    PROVE  Len(probes) \in Nat /\ Block \in Nat /\ All \in Nat /\ All = Len(N_SWEEP) * Block
<1>1. Len(probes) \in Nat /\ Len(SEEDS) \in Nat /\ Len(N_SWEEP) \in Nat
  BY Appended, Lists DEF Shape
<1>2. ASSUME NEW l \in Nat, NEW m \in Nat, NEW n \in Nat
      PROVE  m * n \in Nat /\ l * (m * n) \in Nat /\ (l * m) * n = l * (m * n)
  OBVIOUS
<1> QED BY <1>1, <1>2 DEF Block, All

(* The next trial is of the menu size whose block it falls in. *)
LEMMA NextTrial ==
    ASSUME Shape, asked < All
    PROVE  /\ Block > 0 /\ asked \div Block \in 0..(Len(N_SWEEP) - 1)
           /\ Trial(asked).n = N_SWEEP[asked \div Block + 1]
           /\ Trial(asked).n \in Range(N_SWEEP)
<1>1. /\ Block \in Nat /\ All = Len(N_SWEEP) * Block /\ asked \in Nat
      /\ Len(N_SWEEP) \in Nat
  BY AllBlocks, Lists DEF Shape
<1>2. Block > 0
  <2>1. CASE Block = 0
    BY <1>1, <2>1
  <2> QED BY <1>1, <2>1
<1>3. asked \div Block \in 0..(Len(N_SWEEP) - 1)
  BY <1>1, <1>2, InBlocks
<1>4. Trial(asked).n = N_SWEEP[asked \div Block + 1]
  BY DEF Trial, Block
<1>5. asked \div Block + 1 \in 1..Len(N_SWEEP)
  BY <1>1, <1>3
<1> QED BY <1>2, <1>3, <1>4, <1>5, Lists

(* A trial is recorded where it belongs, and counted once. *)
LEMMA Recorded ==
    ASSUME Shape, CountOK, Sweeping, NEW outcome \in Outcomes, Record(Trial(asked), outcome)
    PROVE  /\ Shape' /\ CountOK'
           /\ \E row : trials' = Append(trials, row)
                        /\ row.of = Menu(Trial(asked)) /\ row.outcome = outcome
<1> DEFINE t == Trial(asked)
           row == [of |-> Menu(t), n |-> t.n, outcome |-> outcome]
<1>1. /\ trials' = Append(trials, row) /\ asked' = asked + 1
      /\ results' = [results EXCEPT ![t.n][outcome] = @ + 1]
      /\ UNCHANGED <<phase, probes, published>>
  BY DEF Record, Score
<1>2. /\ row.of = Menu(t) /\ row.n = t.n /\ row.outcome = outcome
  OBVIOUS
<1>3. /\ t.n = N_SWEEP[asked \div Block + 1] /\ t.n \in Range(N_SWEEP)
      /\ phase = "sweep" /\ asked < All /\ All \in Nat /\ asked \in Nat
  BY NextTrial, AllBlocks DEF Sweeping, Shape
<1> HIDE DEF t, row
<1>4. /\ IsList(trials') /\ Len(trials) \in Nat /\ DOMAIN trials = 1..Len(trials)
      /\ Len(trials') = Len(trials) + 1 /\ DOMAIN trials' = 1..(Len(trials) + 1)
      /\ \A k \in DOMAIN trials : trials'[k] = trials[k]
      /\ trials'[Len(trials) + 1] = row
  BY <1>1, Appended DEF Shape, Rows
<1>5. results' \in [Range(N_SWEEP) -> [Outcomes -> Nat]]
      /\ \A n \in Range(N_SWEEP), o \in Outcomes :
            results'[n][o] = IF n = t.n /\ o = outcome THEN results[n][o] + 1 ELSE results[n][o]
  BY <1>1, <1>3 DEF Shape
<1>6. Shape'
  <2>1. \A k \in DOMAIN trials' : trials'[k].outcome \in Outcomes
    BY <1>2, <1>4 DEF Shape, Rows
  <2>2. asked' \in Nat /\ phase' = phase /\ IsList(probes')
    BY <1>1, <1>3 DEF Shape, IsList
  <2> QED BY <1>4, <1>5, <2>1, <2>2 DEF Shape, Rows
<1>7. \A n \in Range(N_SWEEP), o \in Outcomes : results'[n][o] = Tally(trials', n, {o})
  <2> TAKE n \in Range(N_SWEEP), o \in Outcomes
  <2>1. /\ Tally(trials, n, {o}) \in Nat
        /\ Tally(trials', n, {o}) = IF t.n = n /\ outcome \in {o} THEN Tally(trials, n, {o}) + 1
                                    ELSE Tally(trials, n, {o})
    BY <1>1, <1>2, TallyAppend DEF Shape, Rows
  <2>2. results[n][o] = Tally(trials, n, {o})
    BY DEF CountOK
  <2> QED BY <1>5, <2>1, <2>2
<1>8. All' = All /\ Block' = Block
  BY <1>1 DEF All, Block
<1>9. CountOK'
  <2>1. asked = Len(trials) /\ Len(probes) > 0
        /\ \A k \in DOMAIN trials : trials[k].n = N_SWEEP[(k - 1) \div Block + 1]
    BY <1>3 DEF CountOK
  <2>2. \A k \in DOMAIN trials' : trials'[k].n = N_SWEEP[(k - 1) \div Block' + 1]
    <3> TAKE k \in DOMAIN trials'
    <3>1. CASE k \in DOMAIN trials
      BY <1>4, <1>8, <2>1, <3>1
    <3>2. CASE k = Len(trials) + 1
      <4>1. k - 1 = asked
        BY <1>4, <2>1, <3>2
      <4> QED BY <1>2, <1>3, <1>4, <1>8, <3>2, <4>1
    <3> QED BY <1>4, <3>1, <3>2
  <2>3. phase' = "sweep" /\ Len(probes') > 0 /\ asked' = Len(trials') /\ asked' <= All'
    BY <1>1, <1>3, <1>4, <1>8, <2>1
  <2> QED BY <1>7, <2>2, <2>3 DEF CountOK
<1> QED BY <1>1, <1>2, <1>6, <1>9 DEF t
(* A sweep that is through has one trial per seed and probe of each menu size. *)
LEMMA Through ==
    ASSUME Shape, CountOK, phase = "sweep", asked = All, NEW n \in Range(N_SWEEP)
    PROVE  Tally(trials, n, Outcomes) = Block
<1>1. PICK i \in 1..Len(N_SWEEP) : n = N_SWEEP[i]
  BY Lists
<1>2. /\ Block \in Nat /\ Len(trials) = Len(N_SWEEP) * Block /\ Len(N_SWEEP) \in Nat
      /\ DOMAIN trials = 1..Len(trials) /\ Len(trials) \in Nat
      /\ \A k \in DOMAIN trials : trials[k].n = N_SWEEP[(k - 1) \div Block + 1]
                                  /\ trials[k].outcome \in Outcomes
  BY AllBlocks, Lists, Appended DEF Shape, Rows, CountOK
<1> DEFINE Of == {k \in DOMAIN trials : trials[k].n = n /\ trials[k].outcome \in Outcomes}
<1>3. CASE Block = 0
  <2>1. Len(trials) = 0
    BY <1>2, <1>3
  <2>2. Of = {}
    BY <1>2, <2>1
  <2> QED BY <1>3, <2>2, FS_EmptySet DEF Tally
<1>4. CASE Block > 0
  <2> DEFINE first == (i - 1) * Block + 1
             last  == i * Block
  <2>1. /\ first \in Nat /\ last \in Nat /\ last = first - 1 + Block /\ (i - 1) * Block \in Nat
        /\ first >= 1 /\ last <= Len(trials)
    <3>1. i \in Nat /\ i - 1 \in Nat /\ Len(N_SWEEP) - i \in Nat
      BY <1>1, <1>2
    <3>2. /\ (i - 1) * Block \in Nat /\ i * Block \in Nat
          /\ i * Block = (i - 1) * Block + Block
      BY <1>2, <3>1
    <3>3. (Len(N_SWEEP) - i) * Block >= 0
      BY <1>2, <3>1
    <3>4. (Len(N_SWEEP) - i) * Block = Len(N_SWEEP) * Block - i * Block
      BY <1>2, <3>1
    <3> QED BY <1>2, <3>2, <3>3, <3>4
  <2>2. \A k \in 1..Len(trials) : trials[k].n = n <=> k \in first..last
    <3> TAKE k \in 1..Len(trials)
    <3>1. k - 1 \in Nat /\ k - 1 < Len(N_SWEEP) * Block
      BY <1>2
    <3>2. (k - 1) \div Block \in 0..(Len(N_SWEEP) - 1)
      BY <1>2, <1>4, <3>1, InBlocks
    <3>3. (k - 1) \div Block + 1 \in DOMAIN N_SWEEP /\ i \in DOMAIN N_SWEEP
      BY <1>2, <3>2, Lists
    <3>4. trials[k].n = n <=> (k - 1) \div Block + 1 = i
      BY <1>1, <1>2, <3>3, SizesAssumption
    <3>5. (k - 1) \div Block + 1 = i <=> (k - 1) \div Block = i - 1
      BY <3>2
    <3>6. /\ i - 1 \in Nat /\ (i - 1) + 1 = i
      BY <1>1
    <3>7. (k - 1) \div Block = i - 1 <=> (i - 1) * Block <= k - 1 /\ k - 1 < i * Block
      <4>1. (k - 1) \div Block = i - 1
               <=> (i - 1) * Block <= k - 1 /\ k - 1 < ((i - 1) + 1) * Block
        BY <1>2, <1>4, <3>1, <3>6, Blocks
      <4> QED BY <3>6, <4>1
    <3>8. (i - 1) * Block <= k - 1 /\ k - 1 < i * Block <=> first <= k /\ k <= last
      BY <2>1, <3>1
    <3> QED BY <2>1, <3>4, <3>5, <3>7, <3>8
  <2> HIDE DEF first, last
  <2>3. Of = first..last
    BY <1>2, <2>1, <2>2
  <2>4. Cardinality(first..last) = last - first + 1
    BY <1>2, <1>4, <2>1, FS_Interval
  <2>5. Cardinality(first..last) = Block
    BY <1>2, <2>1, <2>4
  <2> QED BY <2>3, <2>5 DEF Tally
<1> QED BY <1>2, <1>3, <1>4

(* The denominator is the trials that were answered. *)
LEMMA Denominator ==
    ASSUME Shape, CountOK, NEW n \in Range(N_SWEEP)
    PROVE  /\ Usable(results[n]) \in Nat
           /\ Usable(results[n]) = Tally(trials, n, Outcomes \ {"error"})
<1>1. IsList(trials)
  BY DEF Shape, Rows
<1>2. \A S : Tally(trials, n, S) \in Nat
  BY <1>1, TallyAppend
<1>3. \A o \in Outcomes : results[n][o] = Tally(trials, n, {o})
  BY DEF CountOK
<1>4. /\ Tally(trials, n, {"hit"} \cup {"wrong"})
            = Tally(trials, n, {"hit"}) + Tally(trials, n, {"wrong"})
      /\ Tally(trials, n, {"hit", "wrong"} \cup {"none"})
            = Tally(trials, n, {"hit", "wrong"}) + Tally(trials, n, {"none"})
      /\ Tally(trials, n, {"hit", "wrong", "none"} \cup {"unparsed"})
            = Tally(trials, n, {"hit", "wrong", "none"}) + Tally(trials, n, {"unparsed"})
  <2>1. "wrong" \notin {"hit"} /\ "none" \notin {"hit", "wrong"}
        /\ "unparsed" \notin {"hit", "wrong", "none"}
    OBVIOUS
  <2> QED BY <1>1, <2>1, TallySplit
<1>5. /\ {"hit"} \cup {"wrong"} = {"hit", "wrong"}
      /\ {"hit", "wrong"} \cup {"none"} = {"hit", "wrong", "none"}
      /\ {"hit", "wrong", "none"} \cup {"unparsed"} = Outcomes \ {"error"}
  BY DEF Outcomes
<1>6. results[n]["hit"] = Tally(trials, n, {"hit"}) /\ results[n]["wrong"] = Tally(trials, n, {"wrong"})
      /\ results[n]["none"] = Tally(trials, n, {"none"})
      /\ results[n]["unparsed"] = Tally(trials, n, {"unparsed"})
  BY <1>3 DEF Outcomes
<1> QED BY <1>2, <1>4, <1>5, <1>6 DEF Usable
-----------------------------------------------------------------------------
(* The invariant is inductive. *)

LEMMA InvInit == Init => Inv
<1> SUFFICES ASSUME Init PROVE Inv
  OBVIOUS
<1>1. IsList(<<>>) /\ Rows(<<>>)
  BY DEF IsList, Rows
<1>2. results \in [Range(N_SWEEP) -> [Outcomes -> Nat]]
      /\ \A n \in Range(N_SWEEP), o \in Outcomes : results[n][o] = 0
  BY DEF Init, NoResults
<1>3. Shape
  BY <1>1, <1>2 DEF Init, Shape
<1>4. CacheOK
  BY DEF Init, CacheOK, Balanced, Count, Whole, Known, Read
<1>5. CountOK
  BY <1>2, TallyEmpty DEF Init, CountOK
<1> QED BY <1>3, <1>4, <1>5 DEF Init, Inv, PublishedOK

(* What was published stays sound while nothing is published. *)
LEMMA StaysPublished == Inv /\ UNCHANGED published => PublishedOK'
BY DEF Inv, PublishedOK, Sound

(* While nothing is written the disk is as it was. *)
LEMMA StaysOnDisk == Inv /\ UNCHANGED <<cache, paid, lost, published, trials>> => CacheOK'
BY DEF Inv, CacheOK, Balanced, Count, Whole, Known, Read

(* A step that leaves the sweep, or is not in one, leaves the tallies alone. *)
LEMMA StaysCounted ==
    ASSUME Inv, UNCHANGED <<results, trials>>, phase' # "sweep",
           phase' \in {"idle", "probes"} => phase \in {"idle", "probes"}
    PROVE  CountOK'
BY DEF Inv, CountOK, Tally

LEMMA InvStutter ==
    ASSUME Inv, UNCHANGED vars
    PROVE  Inv'
<1>1. UNCHANGED <<phase, probes, asked, results, trials, cache, paid, lost, published>>
  BY DEF vars, run
<1>2. Shape'
  BY <1>1 DEF Inv, Shape, Rows, IsList
<1>3. CountOK'
  BY <1>1 DEF Inv, CountOK, All, Block
<1> QED BY <1>1, <1>2, <1>3, StaysOnDisk, StaysPublished DEF Inv

(* A probe more. *)
LEMMA InvProbe ==
    ASSUME Inv, NEW prompt, NEW tries, NEW by, Making, Answered(prompt, tries, "request"), Made(by),
           asked' = asked + 1, UNCHANGED <<phase, results, trials, published>>
    PROVE  Inv'
<1>1. IsList(probes')
  BY Appended DEF Made, Inv, Shape
<1>2. Shape'
  BY <1>1 DEF Inv, Shape, Rows, IsList
<1>3. CacheOK'
  BY AnsweredLeaves, RepliesAssumption DEF Inv, CacheOK
<1>4. CountOK'
  BY StaysCounted DEF Making
<1> QED BY <1>2, <1>3, <1>4, StaysPublished DEF Inv

(* The process is killed, at a call or at the file of its answer. *)
LEMMA InvKill ==
    ASSUME Inv, Kill \/ KillWriting \/ Choke
    PROVE  Inv'
<1>1. phase' = "dead" /\ UNCHANGED <<probes, asked, results, trials, published>>
  BY DEF Kill, KillWriting, Choke, Dies, run
<1>2. Shape'
  BY <1>1 DEF Inv, Shape, Rows, IsList
<1>3. CacheOK'
  <2>1. CASE UNCHANGED <<cache, paid, lost>>
    BY <1>1, <2>1, StaysOnDisk
  <2>2. CASE KillWriting
    <3>2. Balanced' /\ \A rows : Known(cache, rows) => Known(cache', rows)
      BY <2>2, KillLeaves DEF Inv, CacheOK
    <3> QED BY <1>1, <3>2 DEF Inv, CacheOK
  <2> QED BY <2>1, <2>2 DEF Kill, Choke
<1>4. CountOK'
  BY <1>1, StaysCounted
<1> QED BY <1>1, <1>2, <1>3, <1>4, StaysPublished DEF Inv

(* What a reply comes to. *)
LEMMA ScoresAreOutcomes ==
    ASSUME NEW reply \in Replies
    PROVE  Scores(reply) \subseteq Outcomes \ {"error"}
<1>1. \A pick \in {"target", "other", "NONE"} : Outcome(pick) \in {"hit", "wrong", "none"}
  BY DEF Outcome
<1>2. CASE reply.token # None
  BY <1>1, <1>2, RepliesAssumption DEF Scores, Outcomes
<1>3. CASE reply.token = None /\ reply.mentions = {}
  BY <1>3 DEF Scores, Outcomes
<1>4. CASE reply.token = None /\ reply.mentions # {}
  <2>1. Scores(reply) = {Outcome(pick) : pick \in reply.mentions}
    BY <1>4 DEF Scores
  <2>2. reply.mentions \subseteq {"target", "other", "NONE"}
    BY RepliesAssumption
  <2> QED BY <1>1, <2>1, <2>2 DEF Outcomes
<1> QED BY <1>2, <1>3, <1>4

(* Two readings of a reply differ only if it mentions both and names neither. *)
LEMMA ReadingsDiffer ==
    ASSUME NEW reply \in Replies, NEW a \in Scores(reply), NEW b \in Scores(reply), a # b
    PROVE  reply.token = None /\ reply.mentions = {"target", "other"}
<1>1. reply.token = None /\ reply.mentions # {}
  BY DEF Scores
<1>2. PICK x \in reply.mentions, y \in reply.mentions : a = Outcome(x) /\ b = Outcome(y)
  BY <1>1 DEF Scores
<1>3. x # y
  BY <1>2
<1>4. reply.mentions \subseteq {"target", "other"}
  BY RepliesAssumption
<1> QED BY <1>1, <1>3, <1>4

LEMMA InvSubject ==
    ASSUME Inv, SubjectAnswers \/ SubjectFails
    PROVE  Inv'
<1>1. PICK outcome \in Outcomes :
         /\ Sweeping /\ Record(Trial(asked), outcome)
         /\ \/ /\ outcome # "error"
               /\ \E reply \in Replies : Answered(Menu(Trial(asked)), 7, reply) /\ outcome \in Scores(reply)
            \/ outcome = "error" /\ UNCHANGED <<cache, paid, lost>>
  <2>1. CASE SubjectAnswers
    <3>1. PICK reply \in Replies :
             /\ Sweeping /\ Answered(Menu(Trial(asked)), 7, reply)
             /\ \E outcome \in Scores(reply) : Record(Trial(asked), outcome)
      BY <2>1 DEF SubjectAnswers
    <3>2. PICK outcome \in Scores(reply) : Record(Trial(asked), outcome)
      BY <3>1
    <3>3. outcome \in Outcomes /\ outcome # "error"
      BY ScoresAreOutcomes
    <3> QED BY <3>1, <3>2, <3>3
  <2>2. CASE SubjectFails
    <3>1. "error" \in Outcomes
      BY DEF Outcomes
    <3> QED BY <2>2, <3>1 DEF SubjectFails
  <2> QED BY <2>1, <2>2
<1>2. PICK row : /\ trials' = Append(trials, row)
                 /\ row.of = Menu(Trial(asked)) /\ row.outcome = outcome
  BY <1>1, Recorded DEF Inv
<1>3. /\ Balanced'
      /\ \A rows : Known(cache, rows) => Known(cache', rows)
      /\ row.outcome # "error" => Read(cache', row.of, row.outcome)
  <2>1. CASE outcome # "error"
    <3>1. PICK reply \in Replies : Answered(Menu(Trial(asked)), 7, reply) /\ outcome \in Scores(reply)
      BY <1>1, <2>1
    <3>2. reply # None
      BY RepliesAssumption
    <3>3. /\ Balanced' /\ Menu(Trial(asked)) \in DOMAIN cache' /\ cache'[Menu(Trial(asked))] = reply
          /\ \A rows : Known(cache, rows) => Known(cache', rows)
      BY <3>1, <3>2, AnsweredLeaves DEF Inv, CacheOK
    <3> QED BY <1>2, <3>1, <3>3 DEF Read
  <2>2. CASE outcome = "error"
    BY <1>1, <1>2, <2>2 DEF Inv, CacheOK, Balanced, Count, Whole
  <2> QED BY <2>1, <2>2
<1>4. UNCHANGED published
  BY <1>1 DEF Record
<1>5. CacheOK'
  <2>1. IsList(trials) /\ Known(cache', trials)
    BY <1>3 DEF Inv, Shape, Rows, CacheOK
  <2>2. Known(cache', trials')
    BY <1>2, <1>3, <2>1, KnownAppend
  <2> QED BY <1>3, <1>4, <2>2 DEF Inv, CacheOK
<1>6. Shape' /\ CountOK'
  BY <1>1, Recorded DEF Inv
<1> QED BY <1>4, <1>5, <1>6, StaysPublished DEF Inv

LEMMA InvPublish ==
    ASSUME Inv, Publish
    PROVE  Inv'
<1>1. /\ phase = "sweep" /\ asked = All /\ phase' = "done"
      /\ published'.trials = trials /\ published'.probes = probes
      /\ \A n \in Range(N_SWEEP) : published'.accuracy[n] = Accuracy(results[n])
      /\ UNCHANGED <<probes, asked, results, trials, cache, paid, lost>>
  BY DEF Publish, run
<1>2. Shape'
  BY <1>1 DEF Inv, Shape, Rows, IsList
<1>3. CacheOK'
  BY <1>1 DEF Inv, CacheOK, Balanced, Count, Whole, Known, Read
<1>4. CountOK'
  BY <1>1, StaysCounted
<1>5. ASSUME NEW n \in Range(N_SWEEP) PROVE Sound(n)'
  <2>1. Tally(trials, n, Outcomes) = Block
    BY <1>1, Through DEF Inv
  <2>2. /\ Usable(results[n]) \in Nat
        /\ Usable(results[n]) = Tally(trials, n, Outcomes \ {"error"})
    BY Denominator DEF Inv
  <2>3. Accuracy(results[n]) # None =>
           Accuracy(results[n])[2] = Usable(results[n]) /\ Usable(results[n]) >= MIN_TRIALS
    BY DEF Accuracy
  <2> QED BY <1>1, <2>1, <2>2, <2>3 DEF Sound, Block
<1> QED BY <1>1, <1>2, <1>3, <1>4, <1>5 DEF Inv, Shape, PublishedOK

LEMMA InvNext ==
    ASSUME Inv, Next
    PROVE  Inv'
<1>1. CASE Start
  <2>1. /\ phase' = "probes" /\ probes' = <<>> /\ trials' = <<>> /\ asked' = 0
        /\ results' = NoResults /\ UNCHANGED <<cache, paid, lost, published>>
    BY <1>1 DEF Start
  <2>2. IsList(<<>>) /\ Rows(<<>>) /\ Known(cache, <<>>)
    BY DEF IsList, Rows, Known
  <2>3. results' \in [Range(N_SWEEP) -> [Outcomes -> Nat]]
        /\ \A n \in Range(N_SWEEP), o \in Outcomes : results'[n][o] = 0
    BY <2>1 DEF NoResults
  <2>4. Shape'
    BY <2>1, <2>2, <2>3 DEF Shape, Rows, IsList
  <2>5. CacheOK'
    BY <2>1, <2>2 DEF Inv, CacheOK, Balanced, Count, Whole, Known, Read
  <2>6. CountOK'
    BY <2>1, <2>3, TallyEmpty DEF CountOK
  <2> QED BY <2>1, <2>4, <2>5, <2>6, StaysPublished DEF Inv
<1>2. CASE GeminiAnswers
  <2>1. /\ Making /\ Answered(Gen(NextTarget), 2, "request") /\ Made("gen") /\ asked' = asked + 1
        /\ UNCHANGED <<phase, results, trials, published>>
    BY <1>2 DEF GeminiAnswers
  <2> QED BY <2>1, InvProbe
<1>3. CASE ClaudeAnswers
  <2>1. /\ Making /\ Answered(Gen2(NextTarget), 7, "request") /\ Made("gen2") /\ asked' = asked + 1
        /\ UNCHANGED <<phase, results, trials, published>>
    BY <1>3 DEF ClaudeAnswers
  <2> QED BY <2>1, InvProbe
<1>4. CASE NoProbe
  <2>1. /\ phase = "probes" /\ asked' = asked + 1
        /\ UNCHANGED <<phase, probes, results, trials, cache, paid, lost, published>>
    BY <1>4 DEF NoProbe, Making
  <2>2. Shape'
    BY <2>1 DEF Inv, Shape, Rows, IsList
  <2>3. CountOK'
    BY <2>1, StaysCounted
  <2> QED BY <2>1, <2>2, <2>3, StaysOnDisk, StaysPublished DEF Inv
<1>5. CASE ProbesReady
  <2>1. /\ phase = "probes" /\ phase' = IF probes = <<>> THEN "done" ELSE "sweep"
        /\ asked' = 0 /\ UNCHANGED <<probes, results, trials, cache, paid, lost, published>>
    BY <1>5 DEF ProbesReady
  <2>2. Shape'
    BY <2>1 DEF Inv, Shape, Rows, IsList
  <2>3. CountOK'
    <3>1. trials = <<>> /\ DOMAIN trials = {} /\ Len(trials) = 0
      BY <2>1 DEF Inv, CountOK
    <3>2. probes # <<>> => Len(probes) > 0
      BY DEF Inv, Shape, IsList
    <3>3. 0 <= All'
      BY <2>2, AllBlocks, <2>1 DEF All, Inv
    <3>4. \A n \in Range(N_SWEEP), o \in Outcomes : results'[n][o] = Tally(trials', n, {o})
      BY <2>1 DEF Inv, CountOK
    <3>5. /\ trials' = <<>> /\ DOMAIN trials' = {} /\ Len(trials') = 0
          /\ phase' = "sweep" => Len(probes') > 0
      BY <2>1, <3>1, <3>2
    <3> QED BY <2>1, <3>3, <3>4, <3>5 DEF CountOK
  <2> QED BY <2>1, <2>2, <2>3, StaysOnDisk, StaysPublished DEF Inv
<1>6. CASE Repair
  <2>1. /\ phase \in {"done", "dead"} /\ UNCHANGED <<phase, probes, asked, results, trials, published>>
    BY <1>6 DEF Repair, run
  <2>2. Shape'
    BY <2>1 DEF Inv, Shape, Rows, IsList
  <2>3. CacheOK'
    BY <1>6, <2>1, RepairLeaves DEF Inv, Shape, CacheOK, PublishedOK
  <2>4. CountOK'
    BY <2>1, StaysCounted
  <2> QED BY <2>1, <2>2, <2>3, <2>4, StaysPublished DEF Inv
<1> QED BY <1>1, <1>2, <1>3, <1>4, <1>5, <1>6, InvSubject, InvPublish, InvKill DEF Next

-----------------------------------------------------------------------------
(* The theorems. *)

(* Whatever is stated of every reachable state of the experiment follows from Inv. *)
LEMMA AlwaysInv == Spec => []Inv
<1>1. Inv /\ [Next]_vars => Inv'
  BY InvStutter, InvNext
<1> QED BY <1>1, InvInit, PTL DEF Spec

(* A failed call is excluded from the denominator, never scored as a miss
   (trigger_reliability.py:39): every tally, kept or published, counts what is
   read from the replies on disk to its menus and nothing else, of any experiment. *)
THEOREM TallyTheorem == Spec => []TalliesAreAnswers
<1>1. Inv => TalliesAreAnswers
  BY DEF Inv, CacheOK, Known, Read, CountOK, PublishedOK, Sound, TalliesAreAnswers
<1> QED BY <1>1, AlwaysInv, PTL

(* What is true of "a re-run is free and the numbers are reproducible"
   (trigger_reliability.py:41): whatever the replies are and wherever the runs
   are killed, every reply that came is on disk or was lost with a process, and
   two runs differ on a menu only in the reading of an ambiguous reply. *)
THEOREM RerunTheorem == Spec => []RerunsAgree
<1>1. Inv => RerunsAgree
  <2> SUFFICES ASSUME Inv PROVE RerunsAgree
    OBVIOUS
  <2>1. ASSUME NEW prompt \in DOMAIN cache \cup DOMAIN paid
        PROVE  Count(paid, prompt) = Count(lost, prompt) + (IF Cached(prompt) /\ ~Torn(prompt) THEN 1 ELSE 0)
    BY DEF Inv, CacheOK, Balanced, Whole, Cached, Torn
  <2>2. ASSUME published # None, NEW j \in DOMAIN published.trials, NEW k \in DOMAIN trials,
               published.trials[j].of = trials[k].of,
               published.trials[j].outcome # trials[k].outcome,
               "error" \notin {published.trials[j].outcome, trials[k].outcome}
        PROVE  cache[trials[k].of].token = None /\ cache[trials[k].of].mentions = {"target", "other"}
    <3>1. /\ Read(cache, trials[k].of, trials[k].outcome)
          /\ Read(cache, trials[k].of, published.trials[j].outcome)
      BY <2>2 DEF Inv, CacheOK, Known
    <3> QED BY <2>2, <3>1, ReadingsDiffer DEF Read
  <2> QED BY <2>1, <2>2 DEF RerunsAgree
<1> QED BY <1>1, AlwaysInv, PTL
=============================================================================
