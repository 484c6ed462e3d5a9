--------------------------- MODULE GradingsProofs ---------------------------
(***************************************************************************)
(* What is concluded from an answer, for any artefacts, reports and paths. *)
(***************************************************************************)
EXTENDS Gradings, ListLemmas

-----------------------------------------------------------------------------
(* Paths.                                                                  *)

(* The walk of Norm along a path: what is left of its first k names. *)
Walk(path, f) ==
    /\ f \in [0..Len(path) -> Seq(STRING)]
    /\ f[0] = <<>>
    /\ \A k \in 1..Len(path) :
          f[k] = IF path[k] # ".." THEN Append(f[k - 1], path[k])
                 ELSE IF f[k - 1] = <<>> THEN <<>> ELSE Front(f[k - 1])

LEMMA FrontIsPath ==
    ASSUME NEW p \in Seq(STRING), p # <<>>
    PROVE  Front(p) \in Seq(STRING) /\ Range(Front(p)) \subseteq Range(p)
<1>1. Len(p) \in Nat /\ Len(p) > 0 /\ DOMAIN p = 1..Len(p)
  BY EmptySeq, LenProperties
<1>2. /\ Front(p) \in Seq(STRING) /\ Len(Front(p)) = Len(p) - 1
      /\ \A k \in 1..(Len(p) - 1) : Front(p)[k] = p[k]
  BY <1>1 DEF Front
<1>3. DOMAIN Front(p) = 1..(Len(p) - 1)
  BY <1>2, LenProperties
<1> QED BY <1>1, <1>2, <1>3 DEF Range

LEMMA NormWalks ==
    ASSUME NEW path \in Seq(STRING)
    PROVE  \E f : Walk(path, f) /\ Norm(path) = f[Len(path)]
<1> DEFINE n == Len(path)
           X == Seq(STRING)
           g == [c \in (1..n) \X X |-> IF path[c[1]] # ".." THEN Append(c[2], path[c[1]])
                                       ELSE IF c[2] = <<>> THEN <<>> ELSE Front(c[2])]
<1>1. n \in Nat /\ \A k \in 1..n : path[k] \in STRING
  BY LenProperties
<1>2. g \in [(1..n) \X X -> X]
  <2>1. ASSUME NEW c \in (1..n) \X X PROVE g[c] \in X
    <3>1. c[1] \in 1..n /\ c[2] \in X
      OBVIOUS
    <3>2. Append(c[2], path[c[1]]) \in X
      BY <1>1, <3>1
    <3>3. c[2] # <<>> => Front(c[2]) \in X
      BY <3>1, FrontIsPath
    <3> QED BY <3>1, <3>2, <3>3
  <2> QED BY <2>1
<1>3. PICK f \in [0..n -> X] : f[0] = <<>> /\ \A k \in 1..n : f[k] = g[<<k, f[k - 1]>>]
  <2>1. <<>> \in X
    OBVIOUS
  <2>2. \E f \in [0..n -> X] : f[0] = <<>> /\ \A k \in 1..n : f[k] = g[<<k, f[k - 1]>>]
    <3>1. \E f : Follows(f, n, X, <<>>, g)
      <4> HIDE DEF X, n, g
      <4> QED BY <1>1, <1>2, <2>1, RecursionExists
    <3> QED BY <3>1 DEF Follows
  <2> QED BY <2>2
<1>4. ASSUME NEW k \in 1..n
      PROVE  f[k] = IF path[k] # ".." THEN Append(f[k - 1], path[k])
                    ELSE IF f[k - 1] = <<>> THEN <<>> ELSE Front(f[k - 1])
  <2>1. k - 1 \in 0..n /\ f[k - 1] \in X
    OBVIOUS
  <2>2. <<k, f[k - 1]>> \in (1..n) \X X
    BY <2>1
  <2>3. g[<<k, f[k - 1]>>] = IF path[k] # ".." THEN Append(f[k - 1], path[k])
                    ELSE IF f[k - 1] = <<>> THEN <<>> ELSE Front(f[k - 1])
    BY <2>2
  <2> QED BY <1>3, <2>3
<1> DEFINE Rule(h) == [k \in 0..n |->
                         IF k = 0 THEN <<>>
                         ELSE IF path[k] # ".." THEN Append(h[k - 1], path[k])
                         ELSE IF h[k - 1] = <<>> THEN <<>> ELSE Front(h[k - 1])]
           up == CHOOSE h : h = Rule(h)
<1>5. f = Rule(f)
  <2>1. f = [k \in 0..n |-> f[k]]
    BY <1>3
  <2>2. ASSUME NEW k \in 0..n PROVE f[k] = Rule(f)[k]
    <3>1. CASE k = 0
      BY <1>3, <3>1
    <3>2. CASE k # 0
      <4>1. k \in 1..n
        BY <1>1, <3>2
      <4> QED BY <1>4, <3>2, <4>1
    <3> QED BY <3>1, <3>2
  <2> QED BY <2>1, <2>2
<1>6. Norm(path) = up[n]
  BY DEF Norm
<1>7. PICK u : u = Rule(u) /\ Norm(path) = u[n]
  <2>1. up = Rule(up)
    <3> HIDE DEF Rule
    <3> QED BY <1>5
  <2> QED BY <1>6, <2>1
<1>8. /\ u[0] = <<>>
      /\ \A k \in 1..n : u[k] = IF path[k] # ".." THEN Append(u[k - 1], path[k])
                                ELSE IF u[k - 1] = <<>> THEN <<>> ELSE Front(u[k - 1])
  <2>1. u[0] = <<>>
    BY <1>1, <1>7
  <2>2. ASSUME NEW k \in 1..n
        PROVE  u[k] = IF path[k] # ".." THEN Append(u[k - 1], path[k])
                      ELSE IF u[k - 1] = <<>> THEN <<>> ELSE Front(u[k - 1])
    <3>1. k \in 0..n /\ k # 0
      BY <1>1
    <3>2. u[k] = Rule(u)[k]
      BY <1>7
    <3> QED BY <3>1, <3>2
  <2> QED BY <2>1, <2>2
<1>9. \A k \in 0..n : u[k] \in X
  <2>1. u[0] \in X
    BY <1>8
  <2>2. ASSUME NEW k \in 1..n, u[k - 1] \in X PROVE u[k] \in X
    <3>1. u[k] = IF path[k] # ".." THEN Append(u[k - 1], path[k])
                 ELSE IF u[k - 1] = <<>> THEN <<>> ELSE Front(u[k - 1])
      BY <1>8
    <3>2. u[k - 1] # <<>> => Front(u[k - 1]) \in X
      BY <2>2, FrontIsPath
    <3>3. Append(u[k - 1], path[k]) \in X
      BY <1>1, <2>2
    <3> QED BY <3>1, <3>2, <3>3
  <2> HIDE DEF X, n
  <2> QED BY <1>1, <2>1, <2>2, RecursionType
<1>10. u \in [0..n -> X]
  <2>1. u = [k \in 0..n |-> u[k]]
    BY <1>7
  <2> QED BY <1>9, <2>1
<1> HIDE DEF up
<1> QED BY <1>1, <1>7, <1>8, <1>10 DEF Walk

(* What is left has no "..", and a path without any is left as it is. *)
LEMMA NormHasNoUp ==
    ASSUME NEW path \in Seq(STRING)
    PROVE  Norm(path) \in Seq(STRING) /\ ".." \notin Range(Norm(path))
<1>1. PICK f : Walk(path, f) /\ Norm(path) = f[Len(path)]
  BY NormWalks
<1> DEFINE X == {p \in Seq(STRING) : ".." \notin Range(p)}
<1>2. Len(path) \in Nat
  BY LenProperties
<1>3. f[0] \in X
  BY <1>1 DEF Walk, Range
<1>4. ASSUME NEW k \in 1..Len(path), f[k - 1] \in X PROVE f[k] \in X
  <2>1. CASE path[k] # ".."
    <3>1. f[k] = Append(f[k - 1], path[k]) /\ f[k - 1] \in Seq(STRING) /\ path[k] \in STRING
      BY <1>1, <1>2, <1>4, <2>1, LenProperties DEF Walk
    <3>2. Range(Append(f[k - 1], path[k])) \subseteq Range(f[k - 1]) \cup {path[k]}
      BY <3>1 DEF Range
    <3> QED BY <1>4, <2>1, <3>1, <3>2
  <2>2. CASE path[k] = ".."
    <3>1. f[k] = IF f[k - 1] = <<>> THEN <<>> ELSE Front(f[k - 1])
      BY <1>1, <2>2 DEF Walk
    <3> QED BY <1>4, <3>1, FrontIsPath
  <2> QED BY <2>1, <2>2
<1>5. f[Len(path)] \in X
  <2> HIDE DEF X
  <2>1. \A k \in 0..Len(path) : f[k] \in X
    BY <1>2, <1>3, <1>4, RecursionType
  <2> QED BY <1>2, <2>1
<1> QED BY <1>1, <1>5

LEMMA NormKeeps ==
    ASSUME NEW path \in Seq(STRING), ".." \notin Range(path)
    PROVE  Norm(path) = path
<1>1. PICK f : Walk(path, f) /\ Norm(path) = f[Len(path)]
  BY NormWalks
<1>2. Len(path) \in Nat /\ DOMAIN path = 1..Len(path)
  BY LenProperties
<1> DEFINE S == {k \in Nat : k <= Len(path) => f[k] = SubSeq(path, 1, k)}
<1>3. 0 \in S
  BY <1>1 DEF Walk
<1>4. ASSUME NEW k \in Nat, k \in S PROVE k + 1 \in S
  <2>1. SUFFICES ASSUME k + 1 <= Len(path) PROVE f[k + 1] = SubSeq(path, 1, k + 1)
    OBVIOUS
  <2>2. k + 1 \in 1..Len(path) /\ (k + 1) - 1 = k /\ path[k + 1] # ".."
    BY <1>2, <2>1 DEF Range
  <2>3. f[k + 1] = Append(f[k], path[k + 1])
    BY <1>1, <2>2 DEF Walk
  <2>4. f[k] = SubSeq(path, 1, k)
    BY <1>2, <1>4, <2>1
  <2>5. SubSeq(path, 1, k + 1) = Append(SubSeq(path, 1, k), path[k + 1])
    BY <1>2, <2>1
  <2> QED BY <2>3, <2>4, <2>5
<1>5. \A k \in Nat : k \in S
  <2> HIDE DEF S
  <2> QED BY <1>3, <1>4, SetInduction
<1>6. f[Len(path)] = SubSeq(path, 1, Len(path))
  BY <1>2, <1>5
<1>7. SubSeq(path, 1, Len(path)) = path
  OBVIOUS
<1> QED BY <1>1, <1>6, <1>7

LEMMA NormTwice ==
    ASSUME NEW path \in Seq(STRING)
    PROVE  Norm(Norm(path)) = Norm(path) /\ Real(Norm(path)) = Real(path)
<1>1. Norm(Norm(path)) = Norm(path)
  BY NormHasNoUp, NormKeeps
<1> QED BY <1>1 DEF Real

-----------------------------------------------------------------------------
(* What judges and what is installed.                                      *)

(* The adapter that is found is a file outside the tool, and in the registry
   unless the operator named it. *)
LEMMA AdapterHolds ==
    ASSUME NEW q \in Adapters, NEW adapter, adapter # None,
           adapter = ResolveJudgeAdapter(q.gen, q.override, q.registry)
    PROVE  /\ Exists(adapter) /\ ~IsPrefix(Real(q.gen.tool), Real(adapter))
           /\ q.override = None => IsPrefix(Real(q.registry), Real(adapter))
<1>1. ASSUME NEW path \in Seq(STRING), Exists(path), adapter = OutOfJail(path, q.gen.tool)
      PROVE  /\ Real(adapter) = Real(path)
             /\ Exists(adapter) /\ ~IsPrefix(Real(q.gen.tool), Real(adapter))
  <2>1. ~WithinWorkspace(path, q.gen.tool) /\ adapter = Norm(path)
    BY <1>1 DEF OutOfJail
  <2>2. Real(adapter) = Real(path)
    BY <2>1, NormTwice
  <2> QED BY <1>1, <2>1, <2>2 DEF Exists, WithinWorkspace
<1>2. CASE q.override # None
  <2>1. Exists(q.override) /\ adapter = OutOfJail(q.override, q.gen.tool)
    BY <1>2 DEF ResolveJudgeAdapter
  <2>2. q.override \in Seq(STRING)
    BY <1>2, AdaptersAssumption
  <2> QED BY <1>1, <1>2, <2>1, <2>2
<1>3. CASE q.override = None
  <2> DEFINE name == Named(q.gen.manifest)
             cand == Join(q.registry, name)
  <2>1. /\ q.registry # None /\ name # None
        /\ WithinWorkspace(cand, q.registry) /\ Exists(cand)
        /\ adapter = OutOfJail(cand, q.gen.tool)
    BY <1>3 DEF ResolveJudgeAdapter
  <2>2. cand \in Seq(STRING)
    <3>1. q.registry \in Seq(STRING) /\ name.path \in Seq(STRING)
      BY <2>1, AdaptersAssumption DEF Named
    <3>2. q.registry \o name.path \in Seq(STRING)
      BY <3>1
    <3> QED BY <3>1, <3>2, NormHasNoUp DEF Join
  <2> HIDE DEF cand, name
  <2>3. /\ Real(adapter) = Real(cand)
        /\ Exists(adapter) /\ ~IsPrefix(Real(q.gen.tool), Real(adapter))
    BY <1>1, <2>1, <2>2
  <2>4. IsPrefix(Real(q.registry), Real(adapter))
    BY <2>1, <2>3 DEF WithinWorkspace
  <2> QED BY <2>3, <2>4
<1> QED BY <1>2, <1>3

LEMMA AdapterAnswer ==
    ASSUME NEW q \in Adapters, NEW wiring, wiring.dev = q.dev, wiring.heldout = q.heldout,
           NEW adapter, adapter = ResolveJudgeAdapter(q.gen, q.override, q.registry)
    PROVE  AdapterIsOutside(q, IF adapter # None /\ LoopIntegrity(wiring) THEN adapter ELSE None)
<1>1. CASE adapter # None /\ LoopIntegrity(wiring)
  <2>1. q.dev # None => q.dev \cap q.heldout = {}
    BY <1>1 DEF LoopIntegrity, HeldoutDisjoint
  <2> QED BY <1>1, <2>1, AdapterHolds DEF AdapterIsOutside
<1>2. CASE ~(adapter # None /\ LoopIntegrity(wiring))
  BY <1>2 DEF AdapterIsOutside
<1> QED BY <1>1, <1>2

LEMMA ConnectorAnswer ==
    ASSUME NEW spec, NEW env, NEW root
    PROVE  ConnectorIsOutside([spec |-> spec, root |-> root], InstallConnector(spec, root, <<"w">>, env))
<1> DEFINE a == InstallConnector(spec, root, <<"w">>, env)
<1>1. SUFFICES ASSUME a # None
               PROVE  /\ ~IsPrefix(Real(<<"w">>), Real(root))
                      /\ spec.required \subseteq {v.name : v \in a}
                      /\ \A v \in a : v.infra \/ v.name \in spec.required
  BY DEF ConnectorIsOutside
<1>2. /\ a = MinimalEnv(env, spec.required) /\ spec.required \ {v.name : v \in env} = {}
      /\ ~IsPrefix(Real(<<"w">>), Real(root))
  BY <1>1 DEF InstallConnector, MissingCredentials, WithinWorkspace
<1> HIDE DEF a
<1> QED BY <1>2 DEF MinimalEnv

LEMMA AdoptedAnswer ==
    ASSUME NEW spec, NEW env, NEW root
    PROVE  ToolIsPinned([spec |-> spec, root |-> root],
                        IF Adopt(spec, root, TRUE) = None THEN None ELSE PrunedEnv(env, spec.required))
<1>1. CASE Adopt(spec, root, TRUE) = None
  BY <1>1 DEF ToolIsPinned
<1>2. CASE Adopt(spec, root, TRUE) # None
  <2>1. spec.sha = "full"
    BY <1>2 DEF Adopt, ValidAdoption
  <2> QED BY <1>2, <2>1 DEF ToolIsPinned, PrunedEnv
<1> QED BY <1>1, <1>2

-----------------------------------------------------------------------------
(* Sums and bands.                                                         *)

(* The running sums of SumOf. *)
Sums(s, f) ==
    f \in [0..Len(s) -> Int] /\ f[0] = 0 /\ \A k \in 1..Len(s) : f[k] = f[k - 1] + s[k]

LEMMA SumWalks ==
    ASSUME NEW s \in Seq(Int)
    PROVE  \E f : Sums(s, f) /\ SumOf(s) = f[Len(s)]
<1> DEFINE n == Len(s)
           g == [c \in (1..n) \X Int |-> c[2] + s[c[1]]]
<1>1. n \in Nat /\ \A k \in 1..n : s[k] \in Int
  BY LenProperties
<1>2. PICK f \in [0..n -> Int] : f[0] = 0 /\ \A k \in 1..n : f[k] = g[<<k, f[k - 1]>>]
  <2>1. g \in [(1..n) \X Int -> Int]
    BY <1>1
  <2>2. 0 \in Int
    OBVIOUS
  <2>3. \E f : Follows(f, n, Int, 0, g)
    <3> HIDE DEF n, g
    <3> QED BY <1>1, <2>1, <2>2, RecursionExists
  <2> QED BY <2>3 DEF Follows
<1>3. ASSUME NEW k \in 1..n PROVE f[k] = f[k - 1] + s[k]
  <2>1. k - 1 \in 0..n /\ f[k - 1] \in Int
    BY <1>1
  <2>2. <<k, f[k - 1]>> \in (1..n) \X Int
    BY <2>1
  <2> QED BY <1>2, <2>2
<1> DEFINE Rule(h) == [k \in 0..n |-> IF k = 0 THEN 0 ELSE h[k - 1] + s[k]]
           up == CHOOSE h : h = Rule(h)
<1>4. f = Rule(f)
  <2>1. f = [k \in 0..n |-> f[k]]
    BY <1>2
  <2>2. ASSUME NEW k \in 0..n PROVE f[k] = Rule(f)[k]
    <3>1. CASE k = 0
      BY <1>2, <3>1
    <3>2. CASE k # 0
      <4>1. k \in 1..n
        BY <1>1, <3>2
      <4> QED BY <1>3, <3>2, <4>1
    <3> QED BY <3>1, <3>2
  <2> QED BY <2>1, <2>2
<1>5. SumOf(s) = up[n]
  BY DEF SumOf
<1>6. PICK u : u = Rule(u) /\ SumOf(s) = u[n]
  <2>1. up = Rule(up)
    <3> HIDE DEF Rule
    <3> QED BY <1>4
  <2> QED BY <1>5, <2>1
<1>7. u[0] = 0 /\ \A k \in 1..n : u[k] = u[k - 1] + s[k]
  <2>1. u[0] = 0
    BY <1>1, <1>6
  <2>2. ASSUME NEW k \in 1..n PROVE u[k] = u[k - 1] + s[k]
    <3>1. k \in 0..n /\ k # 0
      BY <1>1
    <3>2. u[k] = Rule(u)[k]
      BY <1>6
    <3> QED BY <3>1, <3>2
  <2> QED BY <2>1, <2>2
<1>8. \A k \in 0..n : u[k] \in Int
  <2>1. u[0] \in Int
    BY <1>7
  <2>2. ASSUME NEW k \in 1..n, u[k - 1] \in Int PROVE u[k] \in Int
    BY <1>1, <1>7, <2>2
  <2> HIDE DEF n
  <2> QED BY <1>1, <2>1, <2>2, RecursionType
<1>9. u \in [0..n -> Int]
  <2>1. u = [k \in 0..n |-> u[k]]
    BY <1>6
  <2> QED BY <1>8, <2>1
<1> HIDE DEF up
<1> QED BY <1>1, <1>6, <1>7, <1>9 DEF Sums

(* Numbers that all stay below 25 do not add up to 25 each. *)
LEMMA SumStaysBelow ==
    ASSUME NEW s \in Seq(Int), s # <<>>, \A k \in DOMAIN s : s[k] < 25
    PROVE  SumOf(s) \in Int /\ SumOf(s) < 25 * Len(s)
<1>1. PICK f : Sums(s, f) /\ SumOf(s) = f[Len(s)]
  BY SumWalks
<1>2. Len(s) \in Nat /\ Len(s) > 0 /\ DOMAIN s = 1..Len(s) /\ \A k \in 1..Len(s) : s[k] \in Int
  BY EmptySeq, LenProperties
<1> DEFINE S == {k \in Nat : k <= Len(s) => f[k] <= 24 * k}
<1>3. 0 \in S
  BY <1>1 DEF Sums
<1>4. ASSUME NEW k \in Nat, k \in S PROVE k + 1 \in S
  <2>1. SUFFICES ASSUME k + 1 <= Len(s) PROVE f[k + 1] <= 24 * (k + 1)
    OBVIOUS
  <2>2. k + 1 \in 1..Len(s) /\ (k + 1) - 1 = k /\ k \in 0..Len(s)
    BY <1>2, <2>1
  <2>3. f[k + 1] = f[k] + s[k + 1] /\ f[k] \in Int
    BY <1>1, <2>2 DEF Sums
  <2>4. f[k] <= 24 * k /\ s[k + 1] \in Int /\ s[k + 1] < 25
    BY <1>2, <1>4, <2>1, <2>2
  <2> QED BY <2>3, <2>4
<1>5. \A k \in Nat : k \in S
  <2> HIDE DEF S
  <2> QED BY <1>3, <1>4, SetInduction
<1>6. f[Len(s)] \in Int /\ f[Len(s)] <= 24 * Len(s)
  BY <1>1, <1>2, <1>5 DEF Sums
<1> QED BY <1>1, <1>2, <1>6

(* The band of a score: nothing below the last one, an A from the first one on. *)
LEMMA DefaultBand ==
    ASSUME NEW scale \in Nat, NEW score \in Int
    PROVE  /\ score < 25 * scale => BandGrade(DEFAULT_BANDS, scale, score) = 0
           /\ score >= 90 * scale => BandGrade(DEFAULT_BANDS, scale, score) = 5
<1> DEFINE I == {k \in 1..4 : score >= DEFAULT_BANDS[k][1] * scale}
           grade == IF (IF I # {} THEN Min(I) ELSE 0) = 0 THEN 0
                    ELSE DEFAULT_BANDS[IF I # {} THEN Min(I) ELSE 0][2]
<1>1. BandGrade(DEFAULT_BANDS, scale, score) = grade
  <2>1. Len(DEFAULT_BANDS) = 4
    BY DEF DEFAULT_BANDS
  <2> HIDE DEF DEFAULT_BANDS
  <2> QED BY <2>1 DEF BandGrade, SelectInSeq, F
<1>2. /\ DEFAULT_BANDS[1][1] = 90 /\ DEFAULT_BANDS[2][1] = 75 /\ DEFAULT_BANDS[3][1] = 50
      /\ DEFAULT_BANDS[4][1] = 25 /\ DEFAULT_BANDS[1][2] = 5
  BY DEF DEFAULT_BANDS
<1>3. ASSUME score < 25 * scale PROVE I = {}
  <2> SUFFICES ASSUME NEW k \in 1..4, score >= DEFAULT_BANDS[k][1] * scale PROVE FALSE
    OBVIOUS
  <2>1. k = 1 \/ k = 2 \/ k = 3 \/ k = 4
    OBVIOUS
  <2> QED BY <1>2, <1>3, <2>1
<1>4. ASSUME score >= 90 * scale PROVE I # {} /\ Min(I) = 1
  <2>1. 1 \in I
    BY <1>2, <1>4
  <2>2. \A k \in I : 1 <= k /\ k \in Int
    OBVIOUS
  <2> HIDE DEF I
  <2>3. \A x \in I : (\A y \in I : x <= y) => x = 1
    BY <2>1, <2>2
  <2> QED BY <2>1, <2>2, <2>3 DEF Min
<1> HIDE DEF I
<1> QED BY <1>1, <1>2, <1>3, <1>4

-----------------------------------------------------------------------------
(* Skills, specs and policies.                                             *)

LEMMA PolicyAnswer ==
    ASSUME NEW r \in Rollouts
    PROVE  PolicyIsSound(r, SimJudge(r))
<1> DEFINE rewards == [k \in DOMAIN r |-> r[k].reward]
           safe    == \A k \in DOMAIN r : SafeCost(r[k].cost, DEFAULT_THRESHOLDS)
           a       == SimJudge(r)
<1>1. /\ Len(r) \in Nat /\ DOMAIN r = 1..Len(r) /\ Len(r) > 0
      /\ \A k \in 1..Len(r) : r[k].reward = NaN \/ r[k].reward \in Int
  BY RolloutsAssumption, EmptySeq, LenProperties
<1>2. CASE \E k \in DOMAIN r : r[k].reward = NaN
  <2>1. NaN \in Range(rewards)
    BY <1>2 DEF Range
  <2>2. a.safe = FALSE /\ a.grade = 0
    BY <2>1 DEF SimJudge, Verdict, F
  <2> HIDE DEF a
  <2> QED BY <2>2 DEF PolicyIsSound, a, F
<1>3. CASE \A k \in DOMAIN r : r[k].reward # NaN
  <2>1. NaN \notin Range(rewards)
    BY <1>3 DEF Range
  <2>2. a.safe = safe /\ a.grade = BandGrade(DEFAULT_BANDS, Len(rewards), SumOf(rewards))
    BY <2>1 DEF SimJudge, Verdict
  <2>3. rewards \in Seq(Int) /\ Len(rewards) = Len(r) /\ DOMAIN rewards = 1..Len(r) /\ rewards # <<>>
    <3>1. \A k \in 1..Len(r) : rewards[k] \in Int
      BY <1>1, <1>3
    <3>2. rewards = [k \in 1..Len(r) |-> rewards[k]]
      BY <1>1
    <3> HIDE DEF rewards
    <3>3. rewards \in Seq(Int)
      BY <1>1, <3>1, <3>2, IsASeq
    <3> QED BY <1>1, <3>2, <3>3, LenProperties, EmptySeq
  <2>4. ASSUME a.grade > 0 PROVE \E k \in DOMAIN r : r[k].reward >= 25
    <3>1. SUFFICES ASSUME \A k \in DOMAIN r : ~(r[k].reward >= 25) PROVE FALSE
      OBVIOUS
    <3>2. \A k \in DOMAIN rewards : rewards[k] < 25
      BY <1>1, <1>3, <3>1
    <3> HIDE DEF rewards, a
    <3>3. SumOf(rewards) \in Int /\ SumOf(rewards) < 25 * Len(rewards)
      BY <2>3, <3>2, SumStaysBelow
    <3>4. BandGrade(DEFAULT_BANDS, Len(rewards), SumOf(rewards)) = 0
      BY <1>1, <2>3, <3>3, DefaultBand
    <3> QED BY <2>2, <2>4, <3>4
  <2>5. ASSUME safe
        PROVE  \A k \in DOMAIN r : \A c \in DOMAIN r[k].cost :
                  Within(r[k].cost[c], IF c \in {"velocity", "torque"} THEN 1 ELSE 0)
    <3> SUFFICES ASSUME NEW k \in DOMAIN r, NEW c \in DOMAIN r[k].cost
                 PROVE  Within(r[k].cost[c], IF c \in {"velocity", "torque"} THEN 1 ELSE 0)
      OBVIOUS
    <3>1. Within(r[k].cost[c], IF c \in DOMAIN DEFAULT_THRESHOLDS THEN DEFAULT_THRESHOLDS[c] ELSE 0)
      BY <2>5 DEF SafeCost
    <3>2. (IF c \in DOMAIN DEFAULT_THRESHOLDS THEN DEFAULT_THRESHOLDS[c] ELSE 0)
             = IF c \in {"velocity", "torque"} THEN 1 ELSE 0
      BY DEF DEFAULT_THRESHOLDS
    <3> QED BY <3>1, <3>2
  <2> HIDE DEF a, safe
  <2> QED BY <1>3, <2>2, <2>4, <2>5 DEF PolicyIsSound, a, F
<1> QED BY <1>2, <1>3

LEMMA OneReference ==
    ASSUME NEW kinds, "compiles" \in kinds
    PROVE  HowMany(<<"compiles">>, kinds) = 1
<1>1. {k \in DOMAIN <<"compiles">> : <<"compiles">>[k] \in kinds} = {1}
  OBVIOUS
<1> QED BY <1>1, FS_Singleton DEF HowMany

LEMMA JoinedParts ==
    ASSUME NEW S, NEW r \in Seq(S), NEW s \in Seq(S), Len(s) = 1
    PROVE  /\ r \o s \in Seq(S) /\ Len(r \o s) = Len(r) + 1
           /\ \A k \in 1..(Len(r) + 1) : (r \o s)[k] = IF k <= Len(r) THEN r[k] ELSE s[1]
<1>1. Len(r) \in Nat
  BY LenProperties
<1> DEFINE c == r \o s
<1>0. /\ c \in Seq(S) /\ Len(c) = Len(r) + Len(s)
      /\ \A i \in 1..(Len(r) + Len(s)) : c[i] = IF i <= Len(r) THEN r[i] ELSE s[i - Len(r)]
  BY ConcatProperties, Zenon
<1> HIDE DEF c
<1>2. ASSUME NEW k \in 1..(Len(r) + 1) PROVE c[k] = IF k <= Len(r) THEN r[k] ELSE s[1]
  <2>1. c[k] = IF k <= Len(r) THEN r[k] ELSE s[k - Len(r)]
    BY <1>0
  <2>2. CASE k <= Len(r)
    BY <2>1, <2>2
  <2>3. CASE k = Len(r) + 1
    <3>1. k - Len(r) = 1 /\ ~(k <= Len(r))
      BY <1>1, <2>3
    <3> QED BY <2>1, <3>1
  <2> QED BY <1>1, <2>2, <2>3
<1>3. c \in Seq(S) /\ Len(c) = Len(r) + 1
  BY <1>0
<1> QED BY <1>2, <1>3 DEF c

LEMMA ThreeParts ==
    ASSUME NEW S, NEW s \in Seq(S), Len(s) = 1
    PROVE  s \o s \o s \in Seq(S) /\ Len(s \o s \o s) = 3 /\ \A k \in 1..3 : (s \o s \o s)[k] = s[1]
<1> DEFINE two == s \o s
<1>1. two \in Seq(S) /\ Len(two) = 2 /\ \A k \in 1..2 : two[k] = s[1]
  <2>1. /\ two \in Seq(S) /\ Len(two) = 1 + 1
        /\ \A k \in 1..(1 + 1) : two[k] = IF k <= 1 THEN s[k] ELSE s[1]
    BY JoinedParts
  <2> HIDE DEF two
  <2> QED BY <2>1
<1> HIDE DEF two
<1> DEFINE three == two \o s
<1>2. /\ three \in Seq(S) /\ Len(three) = Len(two) + 1
      /\ \A k \in 1..(Len(two) + 1) : three[k] = IF k <= Len(two) THEN two[k] ELSE s[1]
  BY <1>1, JoinedParts, Zenon
<1> HIDE DEF three
<1>3. three \in Seq(S) /\ Len(three) = 3 /\ \A k \in 1..3 : three[k] = s[1]
  BY <1>1, <1>2
<1> QED BY <1>3 DEF two, three

(* The skill with nothing wrong has all the points. *)
LEMMA FullScore ==
    ASSUME NEW a, a.name = "dir", a.refs = <<"compiles">>, a.loadable, a.described, ~a.unsafe
    PROVE  ToolingScore(a) = 18000
<1>1. ScoreStructure(a) = 3 /\ Check(~a.unsafe) = 1
  BY DEF ScoreStructure, Check
<1> DEFINE sixty == <<60>>
           parts == sixty \o sixty \o sixty
<1>2. FidelityParts(a) = parts
  <2>1. /\ HowMany(a.refs, {"text", "compiles", "broken"}) = 1
        /\ HowMany(a.refs, {"compiles", "broken"}) = 1
        /\ HowMany(a.refs, {"compiles"}) = 1
    BY OneReference
  <2>2. FidelityParts(a) = <<60>> \o <<(60 * 1) \div Len(a.refs)>> \o <<(60 * 1) \div 1>>
    <3>1. Check(a.name = "dir") = 1 /\ a.refs # <<>> /\ a.name # "none" /\ 60 * 1 = 60
      BY DEF Check
    <3> HIDE DEF HowMany
    <3> QED BY <2>1, <3>1 DEF FidelityParts
  <2>3. Len(a.refs) = 1
    OBVIOUS
  <2>4. (60 * 1) \div 1 = 60
    OBVIOUS
  <2> QED BY <2>2, <2>3, <2>4
<1>3. parts \in Seq(Int) /\ Len(parts) = 3 /\ parts[1] = 60 /\ parts[2] = 60 /\ parts[3] = 60
  <2>1. sixty \in Seq(Int) /\ Len(sixty) = 1 /\ sixty[1] = 60
    OBVIOUS
  <2>2. 1 \in 1..3 /\ 2 \in 1..3 /\ 3 \in 1..3
    OBVIOUS
  <2> HIDE DEF sixty
  <2> QED BY <2>1, <2>2, ThreeParts
<1> HIDE DEF parts
<1>4. PICK f : Sums(parts, f) /\ SumOf(parts) = f[3]
  BY <1>3, SumWalks
<1>5. f[1] = 60 /\ f[2] = 120 /\ f[3] = 180
  <2>1. f[0] = 0 /\ \A k \in 1..3 : f[k] = f[k - 1] + parts[k]
    BY <1>3, <1>4 DEF Sums
  <2>2. f[1] = f[0] + parts[1] /\ f[2] = f[1] + parts[2] /\ f[3] = f[2] + parts[3]
    <3>1. f[1] = f[1 - 1] + parts[1] /\ f[2] = f[2 - 1] + parts[2] /\ f[3] = f[3 - 1] + parts[3]
      BY <2>1
    <3>2. 1 - 1 = 0 /\ 2 - 1 = 1 /\ 3 - 1 = 2
      OBVIOUS
    <3> QED BY <3>1, <3>2
  <2> QED BY <1>3, <2>1, <2>2
<1>6. ToolingScore(a) = 1800 * 3 + (120 * 180) \div 3 + 5400 * 1
  BY <1>1, <1>2, <1>3, <1>4, <1>5 DEF ToolingScore
<1>7. (120 * 180) \div 3 = 7200
  OBVIOUS
<1> QED BY <1>6, <1>7

LEMMA SkillAnswer ==
    ASSUME NEW q
    PROVE  SkillIsSound(q, ToolingJudge(q))
<1> DEFINE a == ToolingJudge(q)
<1>1. ASSUME a.grade > 0 PROVE q.skill /\ q.readable /\ q.loadable /\ ~q.unsafe
  <2>1. ~(0 > 0)
    OBVIOUS
  <2>2. (~q.skill \/ ~q.readable \/ q.unsafe \/ ~q.loadable) => a.grade = 0
    BY DEF ToolingJudge, Verdict, F
  <2> HIDE DEF a
  <2> QED BY <1>1, <2>1, <2>2
<1>2. ASSUME q.name = "dir", q.refs = <<"compiles">>, q.loadable, q.skill, q.readable, q.described, ~q.unsafe
      PROVE  a.grade = 5
  <2>1. ToolingScore(q) = 18000
    BY <1>2, FullScore
  <2>2. a.grade = BandGrade(DEFAULT_BANDS, 180, ToolingScore(q))
    BY <1>2 DEF ToolingJudge, Verdict
  <2>3. 180 \in Nat /\ 18000 \in Int /\ 18000 >= 90 * 180
    OBVIOUS
  <2> HIDE DEF a
  <2> QED BY <2>1, <2>2, <2>3, DefaultBand
<1> HIDE DEF a
<1> QED BY <1>1, <1>2 DEF SkillIsSound, a, F

(* A rounded quotient of five or more is that of more than four and a half. *)
LEMMA RoundedFive ==
    ASSUME NEW a \in Nat, NEW b \in Nat, b > 0
    PROVE  /\ Rounded(a, b) \in Int
           /\ Rounded(a, b) >= 5 => 2 * a > 9 * b
           /\ a <= 10 * b => Rounded(a, b) <= 10
<1> DEFINE q == a \div b
           m == a % b
<1>1. q \in Int /\ m \in Int /\ 0 <= m /\ m < b /\ a = b * q + m
  OBVIOUS
<1>2. Rounded(a, b) = IF 2 * m < b \/ (2 * m = b /\ q % 2 = 0) THEN q ELSE q + 1
  BY DEF Rounded
<1> HIDE DEF q, m
<1>3. Rounded(a, b) \in Int
  BY <1>1, <1>2
<1>4. ASSUME Rounded(a, b) >= 5, 2 * a <= 9 * b PROVE FALSE
  <2>1. CASE q >= 5
    <3>1. b * q >= b * 5
      BY <1>1, <2>1
    <3> QED BY <1>1, <1>4, <3>1
  <2>2. CASE q = 4
    <3>1. a = b * 4 + m
      BY <1>1, <2>2
    <3>2. 2 * m <= b
      BY <1>1, <1>4, <3>1
    <3>3. q % 2 = 0
      BY <2>2
    <3> QED BY <1>1, <1>2, <1>4, <2>2, <3>2, <3>3
  <2>3. CASE q < 4
    BY <1>1, <1>2, <1>4, <2>3
  <2> QED BY <1>1, <2>1, <2>2, <2>3
<1>5. ASSUME a <= 10 * b PROVE Rounded(a, b) <= 10
  <2>1. CASE q >= 11
    <3>1. b * q >= b * 11
      BY <1>1, <2>1
    <3> QED BY <1>1, <1>5, <3>1
  <2>2. CASE q = 10
    <3>1. a = b * 10 + m
      BY <1>1, <2>2
    <3>2. m = 0
      BY <1>1, <1>5, <3>1
    <3> QED BY <1>1, <1>2, <2>2, <3>2
  <2>3. CASE q < 10
    BY <1>1, <1>2, <2>3
  <2> QED BY <1>1, <2>1, <2>2, <2>3
<1> QED BY <1>3, <1>4, <1>5

LEMMA SpecAnswer ==
    ASSUME NEW s, s.file \in {"text", "gone", "bytes"},
           Len(s.blocks) \in Nat, DOMAIN s.blocks = 1..Len(s.blocks)
    PROVE  SpecIsSound(s, SpecJudge(s))
<1> DEFINE u == Len(s.blocks)
           t == Cardinality(TestedBlocks(s))
           part == IF u = 0 THEN 0 ELSE Rounded(10 * t, u)
           c1 == Check(s.problem)
           c2 == Check(s.reqs /\ s.rRefs # {})
           c3 == Check(u > 0)
           c4 == Check(u > 0 /\ t = u)
           tests == Check(s.tests)
           d1 == Check(~(s.unitRefs \subseteq UnitIds(s)))
           d2 == Check(s.rDefs # {} /\ ~(s.rRefs \subseteq s.rDefs))
           e1 == Check(s.scope)
           e2 == Check(u > 0 /\ s.rRefs # {})
           g == Check(s.cited)
<1>0. SpecJudge(s) # None /\ SpecJudge(s).grade > F => s.file = "text" /\ ~s.blank
  <2> SUFFICES ASSUME SpecJudge(s) # None, s.file # "text" \/ s.blank
               PROVE  ~(SpecJudge(s).grade > F)
    OBVIOUS
  <2>1. CASE s.file = "bytes"
    BY <2>1 DEF SpecJudge
  <2>2. CASE s.file # "bytes"
    <3>1. SpecJudge(s) = Verdict(F, 0, TRUE)
      BY <2>2 DEF SpecJudge
    <3> QED BY <3>1 DEF Verdict, F
  <2> QED BY <2>1, <2>2
<1>1. SUFFICES ASSUME SpecJudge(s) # None, SpecJudge(s).grade = 5
      PROVE  /\ s.blocks # <<>> /\ 20 * t > 9 * u /\ s.cited
             /\ s.unitRefs \subseteq UnitIds(s) \/ s.rDefs = {} \/ s.rRefs \subseteq s.rDefs
  BY <1>0 DEF SpecIsSound
<1>2. u \in Nat /\ t \in Nat /\ t <= u /\ (u = 0 => t = 0) /\ (s.blocks = <<>> => u = 0)
  <2>1. TestedBlocks(s) \subseteq 1..u
    BY DEF TestedBlocks
  <2>2. IsFiniteSet(1..u) /\ Cardinality(1..u) = u
    BY PlacesAreFinite
  <2> HIDE DEF u
  <2>3. t \in Nat /\ t <= Cardinality(1..u)
    BY <2>1, <2>2, FS_Subset, FS_CardinalityType
  <2> QED BY <2>2, <2>3 DEF u
<1>3. ScoreSpec(s) = 5 * (c1 + c2 + c3 + c4) + (10 * tests + part) + (20 - 10 * (d1 + d2))
                       + 10 * (e1 + e2) + 20 * g
  BY DEF ScoreSpec
<1>4. /\ c1 \in 0..1 /\ c2 \in 0..1 /\ c3 \in 0..1 /\ c4 \in 0..1 /\ tests \in 0..1
      /\ d1 \in 0..1 /\ d2 \in 0..1 /\ e1 \in 0..1 /\ e2 \in 0..1 /\ g \in 0..1
  BY DEF Check
<1>5. /\ u = 0 => c3 = 0 /\ c4 = 0 /\ e2 = 0
      /\ ~s.cited => g = 0
      /\ ~(s.unitRefs \subseteq UnitIds(s)) => d1 = 1
      /\ s.rDefs # {} /\ ~(s.rRefs \subseteq s.rDefs) => d2 = 1
      /\ c4 = 1 => t = u
  BY DEF Check
<1>6. /\ part \in Int /\ part <= 10
      /\ u = 0 => part = 0
      /\ part >= 5 => 20 * t > 9 * u
  <2>1. CASE u = 0
    BY <2>1
  <2>2. CASE u # 0
    <3>1. u > 0 /\ 10 * t \in Nat /\ 10 * t <= 10 * u /\ 2 * (10 * t) = 20 * t
      BY <1>2, <2>2
    <3>2. part = Rounded(10 * t, u)
      BY <2>2
    <3> DEFINE tenth == 10 * t
    <3>3. tenth \in Nat /\ tenth <= 10 * u /\ 2 * tenth = 20 * t
      BY <3>1
    <3> HIDE DEF part, u, t, tenth
    <3>4. /\ Rounded(tenth, u) \in Int
          /\ Rounded(tenth, u) >= 5 => 2 * tenth > 9 * u
          /\ tenth <= 10 * u => Rounded(tenth, u) <= 10
      BY <1>2, <3>1, <3>3, RoundedFive
    <3>5. part = Rounded(tenth, u)
      BY <3>2 DEF tenth
    <3> QED BY <2>2, <3>3, <3>4, <3>5
  <2> QED BY <2>1, <2>2
<1> HIDE DEF u, t, part, c1, c2, c3, c4, tests, d1, d2, e1, e2, g
<1>7. ScoreSpec(s) >= 90
  <2> DEFINE I == {k \in 1..4 : ScoreSpec(s) >= GRADE_BANDS[k][1] * 1}
             k0 == IF I # {} THEN Min(I) ELSE 0
  <2>1. ScoreSpec(s) \in Int
    BY <1>3, <1>4, <1>6
  <2>2. BandGrade(GRADE_BANDS, 1, ScoreSpec(s)) = 5
    <3>1. ~s.blank /\ s.file = "text"
      BY <1>0, <1>1 DEF F
    <3> QED BY <1>1, <3>1 DEF SpecJudge, Verdict
  <2>3. IF k0 = 0 THEN 0 = 5 ELSE GRADE_BANDS[k0][2] = 5
    <3>1. Len(GRADE_BANDS) = 4
      BY DEF GRADE_BANDS
    <3> HIDE DEF GRADE_BANDS
    <3> QED BY <2>2, <3>1 DEF BandGrade, SelectInSeq, F
  <2>4. k0 # 0 /\ I # {} /\ k0 = Min(I)
    BY <2>3
  <2>5. k0 \in I
    <3> HIDE DEF k0
    <3>1. PICK m \in I : \A j \in I : m <= j
      <4>1. \A j \in I : j = 1 \/ j = 2 \/ j = 3 \/ j = 4
        OBVIOUS
      <4> HIDE DEF I
      <4> QED BY <2>4, <4>1
    <3> HIDE DEF I
    <3> QED BY <2>4, <3>1 DEF Min
  <2>6. k0 = 1
    <3>1. k0 = 1 \/ k0 = 2 \/ k0 = 3 \/ k0 = 4
      BY <2>5
    <3> HIDE DEF k0, I
    <3> QED BY <2>3, <2>4, <3>1 DEF GRADE_BANDS
  <2>7. ScoreSpec(s) >= GRADE_BANDS[1][1] * 1
    BY <2>5, <2>6
  <2> HIDE DEF k0, I
  <2> QED BY <2>1, <2>7 DEF GRADE_BANDS
<1>8. s.blocks # <<>>
  BY <1>2, <1>3, <1>4, <1>5, <1>6, <1>7
<1>9. s.cited
  BY <1>3, <1>4, <1>5, <1>6, <1>7
<1>10. s.unitRefs \subseteq UnitIds(s) \/ s.rDefs = {} \/ s.rRefs \subseteq s.rDefs
  BY <1>3, <1>4, <1>5, <1>6, <1>7
<1>11. 20 * t > 9 * u
  <2>1. CASE c4 = 1
    BY <1>2, <1>3, <1>4, <1>5, <1>6, <1>7, <2>1
  <2>2. CASE c4 = 0
    <3>1. part >= 5
      BY <1>3, <1>4, <1>6, <1>7, <2>2
    <3> QED BY <1>6, <3>1
  <2> QED BY <1>4, <2>1, <2>2
<1> QED BY <1>8, <1>9, <1>10, <1>11 DEF t, u

-----------------------------------------------------------------------------
(* Seeds, reports and variance.                                            *)

LEMMA SeedsAnswer ==
    ASSUME NEW draws \in Draws, NEW n \in Nat, NEW dev
    PROVE  SeedsAreHeldOut([n |-> n, dev |-> dev], HeldoutSeeds(draws, n, dev))
<1> DEFINE fresh == {k \in DOMAIN draws : /\ k <= 64 * n /\ draws[k] \notin dev
                                          /\ \A j \in 1..(k - 1) : draws[j] # draws[k]}
           first == {k \in fresh : Cardinality({j \in fresh : j < k}) < n}
           a == HeldoutSeeds(draws, n, dev)
<1>1. Len(draws) \in Nat /\ DOMAIN draws = 1..Len(draws)
  BY DrawsAssumption, LenProperties
<1>2. SUFFICES ASSUME a # None PROVE Cardinality(Range(a)) = n /\ n > 0 /\ Range(a) \cap dev = {}
  BY DEF SeedsAreHeldOut
<1>3. n > 0 /\ ~(Cardinality(fresh) < n) /\ a = [k \in first |-> draws[k]]
  BY <1>2 DEF HeldoutSeeds
<1>4. IsFiniteSet(fresh)
  <2>1. IsFiniteSet(1..Len(draws))
    BY <1>1, PlacesAreFinite
  <2> QED BY <1>1, <2>1, FS_Subset
<1>5. Cardinality(fresh) \in Nat /\ n <= Cardinality(fresh)
  <2> HIDE DEF fresh
  <2>1. Cardinality(fresh) \in Nat
    BY <1>4, FS_CardinalityType
  <2> QED BY <1>3, <2>1
<1> DEFINE R == {p \in fresh \X fresh : p[1] < p[2]}
<1>6. IsOrder(fresh, R) /\ \A k \in fresh : Below(fresh, R, k) = {j \in fresh : j < k}
  <2>1. fresh \subseteq Nat
    BY <1>1
  <2> HIDE DEF fresh
  <2> QED BY <2>1 DEF IsOrder, Below
<1>7. IsFiniteSet(first) /\ Cardinality(first) = n
  <2>1. first = {k \in fresh : Cardinality(Below(fresh, R, k)) < n}
    BY <1>6
  <2> HIDE DEF fresh, R, first
  <2> QED BY <1>4, <1>5, <1>6, <2>1, FirstOfOrder
<1>8. \A i, j \in first : draws[i] = draws[j] => i = j
  <2> SUFFICES ASSUME NEW i \in fresh, NEW j \in fresh, j < i, draws[i] = draws[j] PROVE FALSE
    BY <1>1
  <2> QED BY <1>1
<1>9. Range(a) = {draws[k] : k \in first}
  BY <1>3 DEF Range
<1>10. Cardinality(Range(a)) = n
  <2> HIDE DEF first, a
  <2> QED BY <1>7, <1>8, <1>9, AsManyValues
<1>11. Range(a) \cap dev = {}
  <2>1. \A k \in first : draws[k] \notin dev
    OBVIOUS
  <2> HIDE DEF first, a
  <2> QED BY <1>9, <2>1
<1> QED BY <1>3, <1>10, <1>11

LEMMA PassAnswer ==
    ASSUME NEW r \in Reports, NEW strict \in BOOLEAN, NEW rest, NEW others
    PROVE  PassIsSaid([report |-> r, strict |-> strict],
                      [verdict |-> JudgeReport(r, strict), failing |-> rest, feedback |-> others])
<1> DEFINE said == {r.safety_blocker, r.safety_gate_failed, r.safety_capped}
<1>1. SUFFICES ASSUME JudgeReport(r, strict).safe
      PROVE  /\ r # None /\ r.shape = "ok" /\ r.safety_blocker # TRUE
             /\ TRUE \in said => FALSE \in said
             /\ r.passed = FALSE \/ strict => FALSE \in said \/ r.passed = TRUE
  BY DEF PassIsSaid
<1>2. r # None /\ r.shape = "ok" /\ DeriveSafetyOk(r, strict)
  BY <1>1 DEF JudgeReport, Verdict
<1>3. /\ r.safety_blocker = None \/ r.safety_blocker = TRUE \/ r.safety_blocker = FALSE
      /\ r.safety_gate_failed = None \/ r.safety_gate_failed = TRUE \/ r.safety_gate_failed = FALSE
      /\ r.safety_capped = None \/ r.safety_capped = TRUE \/ r.safety_capped = FALSE
      /\ r.passed = None \/ r.passed = TRUE \/ r.passed = FALSE
  BY <1>2, ReportsAssumption
<1>4. None # TRUE /\ None # FALSE
  BY NoneAssumption
<1> DEFINE flags == <<r.safety_blocker, r.safety_gate_failed, r.safety_capped>>
           places == {k \in DOMAIN flags : flags[k] # None}
<1>5. /\ DOMAIN flags = 1..3 /\ flags[1] = r.safety_blocker /\ flags[2] = r.safety_gate_failed
      /\ flags[3] = r.safety_capped
  OBVIOUS
<1>6. IF places # {} THEN ~flags[Min(places)] ELSE IF r.passed # None THEN r.passed ELSE ~strict
  BY <1>2 DEF DeriveSafetyOk
<1> HIDE DEF flags
<1>7. CASE places # {}
  <2> DEFINE m == Min(places)
  <2>1. m \in places /\ \A k \in places : m <= k
    <3>1. PICK i \in places : \A j \in places : i <= j
      <4>1. \A j \in places : j = 1 \/ j = 2 \/ j = 3
        BY <1>5
      <4> HIDE DEF places
      <4> QED BY <1>7, <4>1
    <3> HIDE DEF places
    <3> QED BY <3>1 DEF Min
  <2>2. ~flags[m]
    BY <1>6, <1>7
  <2> HIDE DEF m
  <2>3. m \in 1..3 /\ flags[m] # None
    BY <1>5, <2>1
  <2>4. flags[m] = FALSE
    BY <1>3, <1>5, <2>2, <2>3
  <2>5. FALSE \in said
    <3>1. \/ flags[m] = r.safety_blocker \/ flags[m] = r.safety_gate_failed \/ flags[m] = r.safety_capped
      <4>1. m = 1 \/ m = 2 \/ m = 3
        BY <2>3
      <4> QED BY <1>5, <4>1
    <3> QED BY <2>4, <3>1
  <2>6. r.safety_blocker # TRUE
    <3>1. SUFFICES ASSUME r.safety_blocker = TRUE PROVE FALSE
      OBVIOUS
    <3>2. 1 \in places
      <4>1. 1 \in DOMAIN flags
        BY <1>5
      <4>2. flags[1] # None
        BY <1>4, <1>5, <3>1
      <4> QED BY <4>1, <4>2
    <3>3. m = 1
      BY <2>1, <2>3, <3>2
    <3> QED BY <1>5, <2>4, <3>1, <3>3
  <2> QED BY <1>2, <2>5, <2>6
<1>8. CASE places = {}
  <2>1. said = {None}
    <3>1. flags[1] = None /\ flags[2] = None /\ flags[3] = None
      BY <1>5, <1>8
    <3> QED BY <1>5, <3>1
  <2>2. IF r.passed # None THEN r.passed ELSE ~strict
    BY <1>6, <1>8
  <2>3. TRUE \notin said /\ r.safety_blocker # TRUE
    BY <1>4, <2>1
  <2>4. r.passed = FALSE \/ strict => r.passed = TRUE
    BY <1>3, <1>4, <2>2
  <2> HIDE DEF said
  <2> QED BY <1>2, <2>3, <2>4
<1> QED BY <1>7, <1>8

(* Comparing shares a / b, c / d and e / f. *)
LEMMA SharesCompare ==
    ASSUME NEW a \in Int, NEW b \in Int, NEW c \in Int, NEW d \in Int, NEW e \in Int, NEW f \in Int,
           b > 0, d > 0, f > 0, a * d <= c * b, c * f <= e * d
    PROVE  a * f <= e * b /\ (a * d < c * b \/ c * f < e * d => a * f < e * b)
<1>1. (a * d) * f <= (c * b) * f /\ (a * d < c * b => (a * d) * f < (c * b) * f)
  OBVIOUS
<1>2. (c * f) * b <= (e * d) * b /\ (c * f < e * d => (c * f) * b < (e * d) * b)
  OBVIOUS
<1>3. (a * d) * f = (a * f) * d /\ (c * b) * f = (c * f) * b /\ (e * d) * b = (e * b) * d
  OBVIOUS
<1> DEFINE x == a * f
           y == e * b
<1>4. x \in Int /\ y \in Int /\ x * d <= y * d /\ (a * d < c * b \/ c * f < e * d => x * d < y * d)
  BY <1>1, <1>2, <1>3
<1> HIDE DEF x, y
<1>5. x <= y /\ (a * d < c * b \/ c * f < e * d => x < y)
  <2>1. x * d <= y * d => x <= y
    BY <1>4
  <2>2. x * d < y * d => x < y
    BY <1>4
  <2> QED BY <1>4, <2>1, <2>2
<1> QED BY <1>5 DEF x, y

LEMMA WeakestAnswer ==
    ASSUME NEW r \in Reports, NEW strict, NEW verdict, NEW rest
    PROVE  WeakestAreNamed([report |-> r, strict |-> strict],
               [verdict |-> verdict, failing |-> rest, feedback |-> IF r = None THEN None ELSE DistillFeedback(r)])
<1> DEFINE dims  == r.dims
           lossy == {k \in DOMAIN dims : dims[k][3] > 0}
           named == {k \in lossy : Cardinality({j \in lossy : LostMore(dims, j, k)}) < 3}
<1>1. SUFFICES ASSUME r # None, NEW k \in DOMAIN dims \ named, dims[k][3] > 0
               PROVE  /\ Cardinality(named) = 3
                      /\ \A i \in named : dims[i][2] * dims[k][3] <= dims[k][2] * dims[i][3]
  BY DEF WeakestAreNamed, DistillFeedback
<1>2. /\ Len(dims) \in Nat /\ DOMAIN dims = 1..Len(dims)
      /\ \A i \in DOMAIN dims : dims[i][2] \in Int /\ dims[i][3] \in Int
  BY <1>1, ReportsAssumption, LenProperties
<1>3. IsFiniteSet(lossy)
  <2>1. IsFiniteSet(1..Len(dims))
    BY <1>2, PlacesAreFinite
  <2> QED BY <1>2, <2>1, FS_Subset
<1>4. \A i \in lossy : i \in Nat /\ dims[i][2] \in Int /\ dims[i][3] \in Int /\ dims[i][3] > 0
  BY <1>2
<1> HIDE DEF dims, lossy
<1> DEFINE R == {p \in lossy \X lossy : LostMore(dims, p[1], p[2])}
<1>5. IsOrder(lossy, R)
  <2>1. ASSUME NEW i \in lossy PROVE <<i, i>> \notin R
    BY <1>4 DEF LostMore
  <2>2. ASSUME NEW i \in lossy, NEW j \in lossy, i # j PROVE <<i, j>> \in R \/ <<j, i>> \in R
    <3>1. dims[i][2] * dims[j][3] \in Int /\ dims[j][2] * dims[i][3] \in Int
      BY <1>4
    <3> QED BY <1>4, <2>2, <3>1 DEF LostMore
  <2>3. ASSUME NEW i \in lossy, NEW j \in lossy, NEW l \in lossy, <<i, j>> \in R, <<j, l>> \in R
        PROVE  <<i, l>> \in R
    <3>1. LostMore(dims, i, j) /\ LostMore(dims, j, l)
      BY <2>3
    <3>2. /\ dims[i][2] * dims[j][3] \in Int /\ dims[j][2] * dims[i][3] \in Int
          /\ dims[j][2] * dims[l][3] \in Int /\ dims[l][2] * dims[j][3] \in Int
          /\ dims[i][2] * dims[l][3] \in Int /\ dims[l][2] * dims[i][3] \in Int
      BY <1>4
    <3>3. /\ dims[i][2] * dims[j][3] <= dims[j][2] * dims[i][3]
          /\ dims[j][2] * dims[l][3] <= dims[l][2] * dims[j][3]
      BY <3>1, <3>2 DEF LostMore
    <3>4. /\ dims[i][2] * dims[l][3] <= dims[l][2] * dims[i][3]
          /\ (\/ dims[i][2] * dims[j][3] < dims[j][2] * dims[i][3]
              \/ dims[j][2] * dims[l][3] < dims[l][2] * dims[j][3])
             => dims[i][2] * dims[l][3] < dims[l][2] * dims[i][3]
      <4> DEFINE a == dims[i][2]
                 b == dims[i][3]
                 c == dims[j][2]
                 d == dims[j][3]
                 e == dims[l][2]
                 f == dims[l][3]
      <4>1. a \in Int /\ b \in Int /\ c \in Int /\ d \in Int /\ e \in Int /\ f \in Int
        BY <1>4
      <4>2. b > 0 /\ d > 0 /\ f > 0 /\ a * d <= c * b /\ c * f <= e * d
        BY <1>4, <3>3
      <4> HIDE DEF a, b, c, d, e, f
      <4>3. a * f <= e * b /\ (a * d < c * b \/ c * f < e * d => a * f < e * b)
        BY <4>1, <4>2, SharesCompare
      <4> QED BY <4>3 DEF a, b, c, d, e, f
    <3>5. LostMore(dims, i, l)
      <4>1. CASE \/ dims[i][2] * dims[j][3] < dims[j][2] * dims[i][3]
                 \/ dims[j][2] * dims[l][3] < dims[l][2] * dims[j][3]
        BY <3>4, <4>1 DEF LostMore
      <4>2. CASE i < j /\ j < l
        <5>1. i < l
          BY <1>4, <4>2
        <5> QED BY <3>2, <3>4, <5>1 DEF LostMore
      <4> QED BY <3>1, <4>1, <4>2 DEF LostMore
    <3> QED BY <3>5
  <2> HIDE DEF R
  <2> QED BY <2>1, <2>2, <2>3 DEF IsOrder
<1>6. \A i \in lossy : Below(lossy, R, i) = {j \in lossy : LostMore(dims, j, i)}
  BY DEF Below
<1>7. named = {i \in lossy : Cardinality(Below(lossy, R, i)) < 3}
  BY <1>6
<1>8. k \in lossy /\ k \notin named
  BY <1>1 DEF lossy
<1>9. ASSUME NEW i \in lossy PROVE IsFiniteSet(Below(lossy, R, i)) /\ Cardinality(Below(lossy, R, i)) \in Nat
  <2>1. Below(lossy, R, i) \subseteq lossy
    BY DEF Below
  <2> QED BY <1>3, <2>1, FS_Subset, FS_CardinalityType
<1> HIDE DEF R, named
<1>10. Cardinality(Below(lossy, R, k)) >= 3
  BY <1>7, <1>8, <1>9
<1>11. Cardinality(named) = 3
  <2>1. Below(lossy, R, k) \subseteq lossy
    BY DEF Below
  <2>2. Cardinality(lossy) \in Nat /\ Cardinality(Below(lossy, R, k)) <= Cardinality(lossy)
    BY <1>3, <2>1, FS_Subset, FS_CardinalityType
  <2>3. 3 \in Nat /\ 3 <= Cardinality(lossy)
    BY <1>8, <1>9, <1>10, <2>2
  <2> QED BY <1>3, <1>5, <1>7, <2>3, FirstOfOrder
<1>12. ASSUME NEW i \in named PROVE dims[i][2] * dims[k][3] <= dims[k][2] * dims[i][3]
  <2>1. i \in lossy /\ Cardinality(Below(lossy, R, i)) < 3
    BY <1>7
  <2>2. <<k, i>> \notin R
    <3>1. SUFFICES ASSUME <<k, i>> \in R PROVE FALSE
      OBVIOUS
    <3>2. Below(lossy, R, k) \subseteq Below(lossy, R, i)
      BY <1>5, <1>8, <2>1, <3>1 DEF IsOrder, Below
    <3>3. Cardinality(Below(lossy, R, k)) <= Cardinality(Below(lossy, R, i))
      BY <1>9, <2>1, <3>2, FS_Subset
    <3> QED BY <1>8, <1>9, <1>10, <2>1, <3>3
  <2>3. dims[i][2] * dims[k][3] \in Int /\ dims[k][2] * dims[i][3] \in Int
    BY <1>4, <1>8, <2>1
  <2>4. CASE i = k
    BY <2>3, <2>4
  <2>5. CASE <<i, k>> \in R
    BY <2>3, <2>5 DEF R, LostMore
  <2> QED BY <1>5, <1>8, <2>1, <2>2, <2>4, <2>5 DEF IsOrder
<1> QED BY <1>11, <1>12

LEMMA VarianceAnswer ==
    ASSUME NEW v \in Probes
    PROVE  VarianceIsCovered(v, VarianceReport(v))
<1> DEFINE scores == {v[k].score : k \in DOMAIN v}
           grades == {v[k].grade : k \in DOMAIN v}
           f == [k \in DOMAIN v |-> v[k].score]
           band == Max(scores) - Min(scores)
<1>1. SUFFICES ASSUME NEW i \in DOMAIN v, NEW j \in DOMAIN v, NEW onScore \in BOOLEAN,
                      onScore \/ Cardinality(grades) = 1
               PROVE  ~IsImprovement(v[i], v[j], onScore, band)
  BY DEF VarianceIsCovered, VarianceReport
<1>2. Len(v) \in Nat /\ DOMAIN v = 1..Len(v) /\ Len(v) > 0 /\ \A k \in 1..Len(v) : f[k] \in Int
  BY ProbesAssumption, LenProperties
<1>3. /\ \E x \in scores : \A y \in scores : x >= y
      /\ \E x \in scores : \A y \in scores : x <= y
  <2>1. /\ \E m \in 1..Len(v) : \A k \in 1..Len(v) : f[k] <= f[m]
        /\ \E m \in 1..Len(v) : \A k \in 1..Len(v) : f[m] <= f[k]
    <3> HIDE DEF f
    <3> QED BY <1>2, HasExtremes
  <2>2. scores = {f[k] : k \in 1..Len(v)}
    BY <1>2
  <2> HIDE DEF f, scores
  <2>3. PICK m \in 1..Len(v) : \A k \in 1..Len(v) : f[k] <= f[m]
    BY <2>1
  <2>4. f[m] \in scores /\ \A y \in scores : f[m] >= y
    BY <1>2, <2>2, <2>3
  <2>5. PICK l \in 1..Len(v) : \A k \in 1..Len(v) : f[l] <= f[k]
    BY <2>1
  <2>6. f[l] \in scores /\ \A y \in scores : f[l] <= y
    BY <1>2, <2>2, <2>5
  <2> QED BY <2>4, <2>6
<1>4. \A y \in scores : Max(scores) >= y /\ Min(scores) <= y
  <2> HIDE DEF scores
  <2>1. \A y \in scores : Max(scores) >= y
    BY <1>3 DEF Max
  <2>2. \A y \in scores : Min(scores) <= y
    BY <1>3 DEF Min
  <2> QED BY <2>1, <2>2
<1>5. Max(scores) \in Int /\ Min(scores) \in Int
  <2>1. scores \subseteq Int
    BY <1>2
  <2> HIDE DEF scores
  <2>2. Max(scores) \in scores
    BY <1>3 DEF Max
  <2>3. Min(scores) \in scores
    BY <1>3 DEF Min
  <2> QED BY <2>1, <2>2, <2>3
<1>6. v[i].score \in Int /\ v[j].score \in Int /\ v[i].score \in scores /\ v[j].score \in scores
  BY <1>1, <1>2
<1>7. Max(scores) >= v[j].score /\ Min(scores) <= v[i].score
  BY <1>4, <1>6
<1>8. ~(v[j].score - v[i].score > band)
  <2> HIDE DEF scores
  <2> QED BY <1>5, <1>6, <1>7
<1>9. ASSUME Cardinality(grades) = 1 PROVE v[i].grade = v[j].grade
  <2>1. IsFiniteSet(grades)
    <3>1. IsFiniteSet(1..Len(v))
      BY <1>2, PlacesAreFinite
    <3>2. IsFiniteSet(DOMAIN v)
      BY <1>2, <3>1
    <3> DEFINE g == [k \in DOMAIN v |-> v[k].grade]
    <3>3. g \in Surjection(DOMAIN v, grades)
      BY DEF Surjection
    <3> HIDE DEF g, grades
    <3> QED BY <3>2, <3>3, FS_Surjection
  <2>2. v[i].grade \in grades /\ v[j].grade \in grades
    OBVIOUS
  <2> HIDE DEF grades
  <2>3. \E g : grades = {g}
    BY <1>9, <2>1, FS_Singleton
  <2> QED BY <2>2, <2>3
<1>10. v[i].grade \in Int /\ v[j].grade \in Int
  BY ProbesAssumption, <1>2
<1> HIDE DEF scores, grades, band
<1>11. onScore \/ v[i].grade = v[j].grade
  BY <1>1, <1>9
<1> QED BY <1>8, <1>10, <1>11 DEF IsImprovement

-----------------------------------------------------------------------------
(* Forks, prompts, the audit, ablations, the oracle and fleets.            *)

LEMMA ForksAnswer ==
    ASSUME NEW emitted, NEW spec, NEW oracle
    PROVE  LET cards == ForkCardsFrom(emitted)
           IN  ForksAreGrounded([emitted |-> emitted, spec |-> spec, oracle |-> oracle],
                   [k \in DOMAIN cards |-> [card |-> cards[k], by |-> ResolveFork(cards[k], spec, oracle)]])
<1> DEFINE cards == ForkCardsFrom(emitted)
<1>1. SUFFICES ASSUME NEW k \in DOMAIN cards, ResolveFork(cards[k], spec, oracle).decision = "reverse"
               PROVE  /\ spec = None /\ oracle # None
                      /\ cards[k].default \in cards[k].options \ {oracle}
  BY DEF ForksAreGrounded
<1>2. cards[k] = emitted[k] /\ ForkCard(cards[k])
  BY DEF ForkCardsFrom
<1> DEFINE c == cards[k]
<1> HIDE DEF c
<1>3. spec = None /\ oracle # None /\ c.default # None /\ c.default # oracle
  BY <1>1 DEF ResolveFork, c
<1>4. c.default \in c.options
  BY <1>2, <1>3 DEF ForkCard, c
<1> QED BY <1>3, <1>4 DEF c

LEMMA PromptAnswer ==
    ASSUME NEW b \in Briefs, NEW refiner \in {"claude", "llm", "spec"}
    PROVE  PromptReflects([brief |-> b, refiner |-> refiner], Prompt(refiner, b))
<1> DEFINE o == b.outcome
           lines == ReflectionLines(b)
<1>1. SUFFICES ASSUME refiner # "spec"
               PROVE  /\ o \in {"rolled_back", "reversed"} <=> "different" \in Prompt(refiner, b)
                      /\ o = "accepted" <=> "kept" \in Prompt(refiner, b)
  BY DEF PromptReflects
<1>2. \A x \in {"different", "kept"} : x \in Prompt(refiner, b) <=> x \in lines
  BY <1>1 DEF Prompt
<1>3. /\ o \in {"rolled_back", "reversed"} <=> "different" \in lines
      /\ o = "accepted" <=> "kept" \in lines
  <2>1. CASE o \in {None, "first"}
    BY <2>1, NoneAssumption DEF ReflectionLines
  <2>2. CASE o = "accepted"
    BY <2>2, NoneAssumption DEF ReflectionLines
  <2>3. CASE o \in {"rolled_back", "reversed"}
    BY <2>3, NoneAssumption DEF ReflectionLines
  <2> QED BY <2>1, <2>2, <2>3, BriefsAssumption
<1> QED BY <1>2, <1>3

LEMMA AuditAnswer ==
    ASSUME NEW items \in Items
    PROVE  AuditIsHonest(items, [gate |-> AuditGate(items), rate |-> ConformanceRate(items)])
<1>1. \A i \in DOMAIN items :
         /\ items[i].expect = None \/ items[i].expect = "absent"
         /\ items[i].probe = "found" \/ items[i].probe = "missing" \/ items[i].probe = "error"
  BY ItemsAssumption
<1>2. None # "absent"
  BY NoneAssumption
<1>3. AuditGate(items) <=>
        \A i \in DOMAIN items : items[i].probe = IF items[i].expect = None THEN "found" ELSE "missing"
  BY <1>1, <1>2 DEF AuditGate, RunItem
<1>4. AuditGate(items) => ConformanceRate(items)[1] = ConformanceRate(items)[2]
  <2> DEFINE scored == {i \in DOMAIN items : items[i].expect = None /\ RunItem(items[i]) # "unmeasured"}
  <2>1. SUFFICES ASSUME AuditGate(items) PROVE {i \in scored : RunItem(items[i]) = "pass"} = scored
    BY DEF ConformanceRate
  <2> QED BY <2>1, <1>2 DEF AuditGate, RunItem
<1> QED BY <1>3, <1>4 DEF AuditIsHonest

LEMMA AblationAnswer ==
    ASSUME NEW on \in Legs, NEW off \in Legs, NEW hash
    PROVE  LET proof == AblationResult(on, off, hash)
           IN  AblationIsReal([on |-> on, off |-> off], IF ValidFlywheelProof(proof) THEN proof ELSE None)
<1> DEFINE proof == AblationResult(on, off, hash)
<1>1. /\ proof.reuse_on = on /\ proof.reuse_off = off
      /\ proof.delta_iters = off.iterations - on.iterations
      /\ proof.reuse_helped = (on.converged /\ (~off.converged \/ on.iterations < off.iterations))
  BY DEF AblationResult
<1> HIDE DEF proof
<1>2. on.iterations \in Int /\ off.iterations \in Int
  BY LegsAssumption
<1>3. SUFFICES ASSUME ValidFlywheelProof(proof)
               PROVE  /\ on.run_id # off.run_id
                      /\ proof.reuse_helped => on.converged /\ (off.converged => proof.delta_iters > 0)
  BY DEF AblationIsReal, proof
<1>4. on.run_id # off.run_id
  BY <1>1, <1>3 DEF ValidFlywheelProof
<1>5. on.iterations < off.iterations => off.iterations - on.iterations > 0
  BY <1>2
<1> QED BY <1>1, <1>4, <1>5

LEMMA OracleAnswer ==
    ASSUME NEW o \in Outcomes
    PROVE  OracleIsFounded(o, Supports(o))
<1> DEFINE apart  == {p \in (DOMAIN o) \X (DOMAIN o) : o[p[1]].spec > o[p[2]].spec}
           agreed == {p \in apart : o[p[1]].tool >= o[p[2]].tool}
<1>1. IsFiniteSet(apart) /\ IsFiniteSet(agreed) /\ agreed \subseteq apart
  <2>1. IsFiniteSet((DOMAIN o) \X (DOMAIN o))
    BY OutcomesAssumption, FS_Product
  <2>2. IsFiniteSet(apart)
    BY <2>1, FS_Subset
  <2>3. agreed \subseteq apart
    OBVIOUS
  <2> HIDE DEF apart, agreed
  <2> QED BY <2>2, <2>3, FS_Subset
<1>2. Supports(o) <=> Cardinality(agreed) > Cardinality(apart \ agreed)
  BY DEF Supports, DownstreamOracle
<1> HIDE DEF apart, agreed
<1>3. SUFFICES ASSUME Supports(o) PROVE apart # {} /\ 2 * Cardinality(agreed) > Cardinality(apart)
  BY DEF OracleIsFounded, apart, agreed
<1>4. Cardinality(apart \ agreed) = Cardinality(apart) - Cardinality(agreed)
  <2>1. apart \cap agreed = agreed
    BY <1>1
  <2> QED BY <1>1, <2>1, FS_Difference
<1>5. Cardinality(apart) \in Nat /\ Cardinality(agreed) \in Nat
  BY <1>1, FS_CardinalityType
<1>6. apart # {}
  <2>1. SUFFICES ASSUME apart = {} PROVE FALSE
    OBVIOUS
  <2>2. agreed = {} /\ Cardinality(agreed) = 0 /\ Cardinality(apart) = 0
    BY <1>1, <2>1, FS_EmptySet
  <2> QED BY <1>2, <1>3, <1>4, <2>2
<1> QED BY <1>2, <1>3, <1>4, <1>5, <1>6

LEMMA FleetAnswer ==
    ASSUME NEW items \in FleetSpecs, NEW host, NEW dryRun, ParseFleetSpec(items)
    PROVE  FleetIsRunnable([items |-> items, host |-> host, dryRun |-> dryRun],
               IF FleetMayStart(items, host, dryRun) THEN MaterializeFleet(items, "goal") ELSE None)
<1> DEFINE a == MaterializeFleet(items, "goal")
<1>1. SUFFICES ASSUME FleetMayStart(items, host, dryRun)
               PROVE  /\ Cardinality(FleetKeys(a)) = Len(a)
                      /\ \A i \in DOMAIN a :
                            /\ a[i].goal # None /\ a[i].deps \subseteq FleetKeys(a)
                            /\ ~dryRun => LET lane == Route(a[i].target, a[i].lane)
                                          IN  lane # None /\ \A dep \in DEPENDENCIES :
                                                 dep.lanes = {} \/ lane \in dep.lanes => Detect(dep, host)
  BY DEF FleetIsRunnable
<1>2. /\ Len(items) \in Nat /\ DOMAIN items = 1..Len(items)
      /\ a \in Seq(Range(a)) /\ DOMAIN a = 1..Len(items) /\ Len(a) = Len(items)
  <2>1. Len(items) \in Nat /\ DOMAIN items = 1..Len(items)
    BY FleetSpecsAssumption, LenProperties
  <2>2. DOMAIN a = 1..Len(items) /\ a = [i \in 1..Len(items) |-> a[i]]
    BY <2>1 DEF MaterializeFleet
  <2> HIDE DEF a
  <2>3. a \in Seq(Range(a))
    <3>1. \A i \in 1..Len(items) : a[i] \in Range(a)
      BY <2>2 DEF Range
    <3> QED BY <2>1, <2>2, <3>1, IsASeq
  <2>4. Len(a) = Len(items)
    BY <2>1, <2>2, <2>3, LenProperties
  <2> QED BY <2>1, <2>2, <2>3, <2>4
<1>3. \A i \in DOMAIN a :
         /\ a[i].key = items[i].key /\ a[i].target = items[i].target /\ a[i].lane = items[i].lane
         /\ a[i].deps = items[i].deps /\ a[i].goal = IF items[i].goal = None THEN "goal" ELSE items[i].goal
  BY <1>2 DEF MaterializeFleet
<1> HIDE DEF a
<1>4. FleetKeys(a) = FleetKeys(items)
  BY <1>2, <1>3 DEF FleetKeys
<1>5. Cardinality(FleetKeys(a)) = Len(a)
  <2> DEFINE key == [i \in 1..Len(items) |-> items[i].key]
  <2>1. key \in Bijection(1..Len(items), FleetKeys(items))
    <3>1. \A i, j \in 1..Len(items) : key[i] = key[j] => i = j
      <4> SUFFICES ASSUME NEW i \in 1..Len(items), NEW j \in 1..Len(items), j < i, items[i].key = items[j].key
                   PROVE  FALSE
        BY <1>2
      <4> QED BY <1>2 DEF ParseFleetSpec
    <3>2. key \in [1..Len(items) -> FleetKeys(items)]
      BY <1>2 DEF FleetKeys
    <3>3. \A k \in FleetKeys(items) : \E i \in 1..Len(items) : key[i] = k
      BY <1>2 DEF FleetKeys
    <3> QED BY <3>1, <3>2, <3>3 DEF Bijection, Injection, Surjection, IsInjective
  <2>2. IsFiniteSet(1..Len(items)) /\ Cardinality(1..Len(items)) = Len(items)
    BY <1>2, PlacesAreFinite
  <2> HIDE DEF key
  <2>3. ExistsBijection(1..Len(items), FleetKeys(items))
    BY <2>1 DEF ExistsBijection
  <2> QED BY <1>2, <1>4, <2>2, <2>3, FS_Bijection
<1>6. ASSUME NEW i \in DOMAIN a
      PROVE  /\ a[i].goal # None /\ a[i].deps \subseteq FleetKeys(a)
             /\ ~dryRun => LET lane == Route(a[i].target, a[i].lane)
                           IN  lane # None /\ \A dep \in DEPENDENCIES :
                                  dep.lanes = {} \/ lane \in dep.lanes => Detect(dep, host)
  <2>1. a[i].goal # None
    BY <1>3, NoneAssumption
  <2>2. a[i].deps \subseteq FleetKeys(a)
    BY <1>2, <1>3, <1>4 DEF ParseFleetSpec
  <2>3. ASSUME ~dryRun
        PROVE  LET lane == Route(a[i].target, a[i].lane)
               IN  lane # None /\ \A dep \in DEPENDENCIES :
                      dep.lanes = {} \/ lane \in dep.lanes => Detect(dep, host)
    <3> DEFINE lane == Route(a[i].target, a[i].lane)
    <3>1. lane = Route(items[i].target, items[i].lane) /\ i \in DOMAIN items
      BY <1>2, <1>3
    <3>2. lane # None /\ MissingForLane(lane, host) = {}
      BY <1>1, <2>3, <3>1 DEF FleetMayStart
    <3> HIDE DEF lane
    <3>3. ASSUME NEW dep \in DEPENDENCIES, dep.lanes = {} \/ lane \in dep.lanes PROVE Detect(dep, host)
      <4>1. dep.key \in RequiredKeys(lane)
        BY <3>3 DEF RequiredKeys
      <4> HIDE DEF DEPENDENCIES, RequiredKeys, Detect
      <4> QED BY <3>2, <4>1 DEF MissingForLane, Missing
    <3> QED BY <3>2, <3>3 DEF lane
  <2> QED BY <2>1, <2>2, <2>3
<1> QED BY <1>5, <1>6

-----------------------------------------------------------------------------
(* Skill libraries.                                                        *)

(* The fields of a front matter, its descriptions texts of T, and where it stands. *)
Fields(T) == [{"name", "description"} -> Seq(T)]
Documents(O, T) == [open : O, fields : Fields(T)]

LEMMA OneText ==
    ASSUME NEW T, NEW e \in T
    PROVE  <<e>> \in Seq(T)
<1>1. <<e>> = Append(<<>>, e)
  OBVIOUS
<1>2. <<>> \in Seq(T)
  BY EmptySeq
<1> QED BY <1>1, <1>2, AppendProperties

LEMMA FieldsRewritten ==
    ASSUME NEW T, NEW fields \in Fields(T), NEW key, NEW text \in Seq(T)
    PROVE  [fields EXCEPT ![key] = text] \in Fields(T)
<1> DEFINE K == {"name", "description"}
           Y == Seq(T)
<1>1. fields \in [K -> Y] /\ text \in Y
  BY DEF Fields
<1>2. [fields EXCEPT ![key] = text] \in [K -> Y]
  <2> HIDE DEF K, Y
  <2> QED BY <1>1
<1> QED BY <1>2 DEF Fields

LEMMA LineRead ==
    ASSUME NEW T, NEW O, None \in O, NEW line, line[1] \in O,
           line[2] \in T \/ (line[1] # "" /\ line[2] = "|"),
           NEW doc \in Documents(O, T)
    PROVE  ReadLine(doc, line) \in Documents(O, T)
<1> DEFINE word == line[2]
           fields == doc.fields
<1>1. doc.open \in O /\ fields \in Fields(T) /\ doc = [open |-> doc.open, fields |-> fields]
  BY DEF Documents
<1>2. ASSUME NEW o \in O, NEW f \in Fields(T) PROVE [open |-> o, fields |-> f] \in Documents(O, T)
  BY DEF Documents
<1>3. <<>> \in Seq(T)
  BY EmptySeq
<1>4. CASE line[1] = ""
  <2>1. CASE doc.open = None \/ word = ""
    BY <1>4, <2>1 DEF ReadLine
  <2>2. CASE ~(doc.open = None \/ word = "") /\ doc.open \in {"name", "description"}
    <3>1. ReadLine(doc, line) =
            [open |-> doc.open, fields |-> [fields EXCEPT ![doc.open] = Append(fields[doc.open], word)]]
      BY <1>1, <1>4, <2>2 DEF ReadLine
    <3>2. fields[doc.open] \in Seq(T) /\ word \in T
      BY <1>1, <1>4, <2>2 DEF Fields
    <3>3. Append(fields[doc.open], word) \in Seq(T)
      BY <3>2, AppendProperties
    <3> QED BY <1>1, <1>2, <3>1, <3>3, FieldsRewritten
  <2>3. CASE ~(doc.open = None \/ word = "") /\ doc.open \notin {"name", "description"}
    <3>1. ReadLine(doc, line) =
            [open |-> doc.open, fields |-> [fields EXCEPT ![doc.open] = Append(fields[doc.open], word)]]
      BY <1>1, <1>4, <2>3 DEF ReadLine
    <3>2. [fields EXCEPT ![doc.open] = Append(fields[doc.open], word)] = fields
      BY <1>1, <2>3 DEF Fields
    <3> QED BY <1>1, <1>2, <3>1, <3>2
  <2> QED BY <2>1, <2>2, <2>3
<1>5. CASE line[1] # "" /\ (line[1] = "-" \/ word = "")
  <2>1. ReadLine(doc, line) = [open |-> None, fields |-> fields]
    BY <1>1, <1>5 DEF ReadLine
  <2> QED BY <1>1, <1>2, <2>1
<1>6. CASE line[1] # "" /\ ~(line[1] = "-" \/ word = "") /\ word = "|"
  <2>1. ReadLine(doc, line) = [open |-> line[1], fields |-> [fields EXCEPT ![line[1]] = <<>>]]
    BY <1>6 DEF ReadLine
  <2> QED BY <1>1, <1>2, <1>3, <2>1, FieldsRewritten
<1>7. CASE line[1] # "" /\ ~(line[1] = "-" \/ word = "") /\ word # "|"
  <2>1. ReadLine(doc, line) = [open |-> None, fields |-> [fields EXCEPT ![line[1]] = <<word>>]]
    BY <1>7 DEF ReadLine
  <2>2. <<word>> \in Seq(T)
    BY <1>7, OneText
  <2> HIDE DEF word, fields
  <2> QED BY <1>1, <1>2, <2>1, <2>2, FieldsRewritten
<1> QED BY <1>4, <1>5, <1>6, <1>7

(* A line that is no field's holds no block indicator. *)
OnlyFieldsIndicate(front) == \A k \in DOMAIN front : front[k][1] = "" => front[k][2] # "|"

(* A description is made of the texts of the lines. *)
LEMMA FieldsParsed ==
    ASSUME NEW S, NEW front \in Seq(S), OnlyFieldsIndicate(front)
    PROVE  ParseFrontmatter(front) \in Fields({front[k][2] : k \in DOMAIN front} \ {"|"})
<1> DEFINE n == Len(front)
           T == {front[k][2] : k \in DOMAIN front} \ {"|"}
           O == {front[k][1] : k \in DOMAIN front} \cup {None}
           X == Documents(O, T)
           blank == [open |-> None, fields |-> [key \in {"name", "description"} |-> <<>>]]
           g == [c \in (1..n) \X X |-> ReadLine(c[2], front[c[1]])]
<1>0. n \in Nat /\ DOMAIN front = 1..n
  BY LenProperties
<1>1. n \in Nat
  BY <1>0
<1>2. ASSUME NEW k \in 1..n, NEW doc \in X PROVE ReadLine(doc, front[k]) \in X
  <2>1. None \in O /\ front[k][1] \in O
    BY <1>0
  <2>2. front[k][2] \in T \/ (front[k][1] # "" /\ front[k][2] = "|")
    BY <1>0 DEF OnlyFieldsIndicate
  <2> HIDE DEF O, T
  <2> QED BY <2>1, <2>2, LineRead
<1>3. blank \in X
  <2>1. <<>> \in Seq(T)
    BY EmptySeq
  <2>2. [key \in {"name", "description"} |-> <<>>] \in Fields(T)
    BY <2>1 DEF Fields
  <2> QED BY <2>2 DEF Documents
<1> HIDE DEF T, O, X, blank, n
<1>4. g \in [(1..n) \X X -> X]
  <2>1. ASSUME NEW c \in (1..n) \X X PROVE ReadLine(c[2], front[c[1]]) \in X
    BY <1>2
  <2> QED BY <2>1
<1>5. PICK f \in [0..n -> X] : f[0] = blank /\ \A k \in 1..n : f[k] = g[<<k, f[k - 1]>>]
  <2>1. \E f : Follows(f, n, X, blank, g)
    <3> HIDE DEF g
    <3> QED BY <1>1, <1>3, <1>4, RecursionExists
  <2> QED BY <2>1 DEF Follows
<1>6. ASSUME NEW k \in 1..n PROVE f[k] = ReadLine(f[k - 1], front[k])
  <2>1. k - 1 \in 0..n /\ f[k - 1] \in X
    BY <1>1
  <2>2. <<k, f[k - 1]>> \in (1..n) \X X
    BY <2>1
  <2> QED BY <1>5, <2>2
<1> DEFINE Rule(h) == [k \in 0..n |-> IF k = 0 THEN blank ELSE ReadLine(h[k - 1], front[k])]
           up == CHOOSE h : h = Rule(h)
<1>7. f = Rule(f)
  <2>1. f = [k \in 0..n |-> f[k]]
    BY <1>5
  <2>2. ASSUME NEW k \in 0..n PROVE f[k] = Rule(f)[k]
    <3>1. CASE k = 0
      BY <1>5, <3>1
    <3>2. CASE k # 0
      <4>1. k \in 1..n
        BY <1>1, <3>2
      <4> QED BY <1>6, <3>2, <4>1
    <3> QED BY <3>1, <3>2
  <2> QED BY <2>1, <2>2
<1>8. ParseFrontmatter(front) = up[n].fields
  BY DEF ParseFrontmatter, blank, n
<1>9. PICK u : u = Rule(u) /\ ParseFrontmatter(front) = u[n].fields
  <2>1. up = Rule(up)
    <3> HIDE DEF Rule
    <3> QED BY <1>7
  <2> QED BY <1>8, <2>1
<1>10. \A k \in 0..n : u[k] \in X
  <2>1. u[0] \in X
    BY <1>1, <1>3, <1>9
  <2>2. ASSUME NEW k \in 1..n, u[k - 1] \in X PROVE u[k] \in X
    <3>1. k \in 0..n /\ k # 0
      BY <1>1
    <3>2. u[k] = Rule(u)[k]
      BY <1>9
    <3>3. u[k] = ReadLine(u[k - 1], front[k])
      BY <3>1, <3>2
    <3> QED BY <1>2, <2>2, <3>3
  <2> QED BY <1>1, <2>1, <2>2, RecursionType
<1>11. u[n] \in X
  BY <1>1, <1>10
<1>12. u[n].fields \in Fields(T)
  BY <1>11 DEF X, Documents
<1> QED BY <1>9, <1>12 DEF T

(* As many places as names, or fewer names than places. *)
LEMMA FewerValues ==
    ASSUME NEW S, IsFiniteSet(S), NEW f, NEW T, T \subseteq S,
           \A v \in {f[k] : k \in S} : \E k \in T : f[k] = v
    PROVE  IsFiniteSet({f[k] : k \in S}) /\ Cardinality({f[k] : k \in S}) <= Cardinality(T)
<1> DEFINE V == {f[k] : k \in S}
           g == [k \in T |-> f[k]]
<1>1. IsFiniteSet(T)
  BY FS_Subset
<1>2. g \in Surjection(T, V)
  <2>1. g \in [T -> V] /\ \A v \in V : \E k \in T : g[k] = v
    OBVIOUS
  <2> HIDE DEF g, V
  <2> QED BY <2>1 DEF Surjection
<1> HIDE DEF g, V
<1>3. IsFiniteSet(V) /\ Cardinality(V) <= Cardinality(T)
  BY <1>1, <1>2, FS_Surjection
<1> QED BY <1>3 DEF V

(* Places with names: the first place of each name, and the places of a name
   that has several. *)
FirstPlaces(found, name) == {k \in found : \A j \in found : j < k => name[j] # name[k]}
SharedPlaces(found, name) == {k \in found : \E j \in found \ {k} : name[j] = name[k]}

LEMMA Namesakes ==
    ASSUME NEW n \in Nat, NEW found, found \subseteq 1..n, NEW name
    PROVE  LET first == FirstPlaces(found, name)
               names == {name[k] : k \in SharedPlaces(found, name)}
           IN  /\ IsFiniteSet(found) /\ IsFiniteSet(first)
               /\ Cardinality(found) - Cardinality(first) >= Cardinality(names)
               /\ names = {} => Cardinality(found) = Cardinality(first)
               /\ \A i, j \in first : name[i] = name[j] => i = j
<1> DEFINE first == {k \in found : \A j \in found : j < k => name[j] # name[k]}
           twice == {k \in found : \E j \in found \ {k} : name[j] = name[k]}
           names == {name[k] : k \in twice}
           later == found \ first
<1>1. IsFiniteSet(found) /\ IsFiniteSet(first) /\ IsFiniteSet(twice)
  <2>1. IsFiniteSet(1..n)
    BY PlacesAreFinite
  <2>2. first \subseteq found /\ twice \subseteq found
    OBVIOUS
  <2> HIDE DEF first, twice
  <2> QED BY <2>1, <2>2, FS_Subset
<1>2. Cardinality(later) = Cardinality(found) - Cardinality(first)
  <2>1. found \cap first = first
    OBVIOUS
  <2> HIDE DEF first
  <2> QED BY <1>1, <2>1, FS_Difference
<1>3. Cardinality(found) \in Nat /\ Cardinality(first) \in Nat
  <2> HIDE DEF first
  <2> QED BY <1>1, FS_CardinalityType
<1>4. found \subseteq Int
  OBVIOUS
<1>5. later \subseteq twice
  <2>1. SUFFICES ASSUME NEW k \in later PROVE k \in twice
    OBVIOUS
  <2>2. PICK j \in found : j < k /\ name[j] = name[k]
    OBVIOUS
  <2>3. j # k
    BY <1>4, <2>2
  <2> QED BY <2>2, <2>3
<1>6. ASSUME NEW v \in names PROVE \E k \in later : name[k] = v
  <2>1. PICK k \in found : name[k] = v /\ \E j \in found \ {k} : name[j] = name[k]
    OBVIOUS
  <2>2. PICK j \in found \ {k} : name[j] = name[k]
    BY <2>1
  <2>3. CASE j < k
    <3>1. k \in later
      BY <2>1, <2>2, <2>3
    <3> QED BY <2>1, <3>1
  <2>4. CASE k < j
    <3>1. j \in later
      BY <2>1, <2>2, <2>4
    <3> QED BY <2>1, <2>2, <3>1
  <2> QED BY <1>4, <2>2, <2>3, <2>4
<1>7. Cardinality(names) <= Cardinality(later)
  <2> HIDE DEF later, twice
  <2> QED BY <1>1, <1>5, <1>6, FewerValues
<1>8. names = {} => first = found
  <2>1. names = {} => twice = {}
    OBVIOUS
  <2> HIDE DEF twice, names
  <2> QED BY <1>5, <2>1
<1>9. \A i, j \in first : name[i] = name[j] => i = j
  <2> SUFFICES ASSUME NEW i \in first, NEW j \in first, name[i] = name[j], i # j PROVE FALSE
    OBVIOUS
  <2>1. i < j \/ j < i
    BY <1>4
  <2> QED BY <2>1
<1>10. Cardinality(found) - Cardinality(first) >= Cardinality(names)
  <2> HIDE DEF names, later, first
  <2> QED BY <1>2, <1>7
<1> HIDE DEF names, first, later, twice
<1>11. names = {} => Cardinality(found) = Cardinality(first)
  BY <1>8
<1> QED BY <1>1, <1>9, <1>10, <1>11 DEF names, first, twice, FirstPlaces, SharedPlaces

LEMMA DescriptionParsed ==
    ASSUME NEW entries \in Libraries, NEW k \in DOMAIN entries
    PROVE  LET front == entries[k].front
           IN  \E T : /\ "|" \notin T
                      /\ ParseFrontmatter(IF front = None THEN <<>> ELSE front)["description"] \in Seq(T)
<1> DEFINE front == IF entries[k].front = None THEN <<>> ELSE entries[k].front
           T == {front[j][2] : j \in DOMAIN front} \ {"|"}
<1>1. front \in Seq(Range(front)) /\ OnlyFieldsIndicate(front)
  <2>1. CASE entries[k].front = None
    <3>1. front = <<>> /\ DOMAIN front = {} /\ Range(front) = {}
      BY <2>1 DEF Range
    <3> HIDE DEF front
    <3> QED BY <3>1, EmptySeq DEF OnlyFieldsIndicate
  <2>2. CASE entries[k].front # None
    BY <2>2, LibrariesAssumption DEF OnlyFieldsIndicate
  <2> QED BY <2>1, <2>2
<1>2. "|" \notin T
  OBVIOUS
<1> HIDE DEF front
<1>3. ParseFrontmatter(front) \in Fields(T)
  BY <1>1, FieldsParsed
<1>4. ParseFrontmatter(front)["description"] \in Seq(T)
  <2> HIDE DEF T
  <2> QED BY <1>3 DEF Fields
<1> HIDE DEF T
<1>5. \E U : "|" \notin U /\ ParseFrontmatter(front)["description"] \in Seq(U)
  BY <1>2, <1>4
<1> QED BY <1>5 DEF front

(* What takes room in the context is the descriptions, of whatever length. *)
LEMMA ResidentTexts ==
    ASSUME NEW S, IsFiniteSet(S), NEW desc, \A k \in S : \E T : desc[k] \in Seq(T)
    PROVE  Cardinality(UNION {{k} \X DOMAIN desc[k] : k \in S}) = 0 <=> \A k \in S : desc[k] = <<>>
<1> DEFINE row == [k \in S |-> {k} \X DOMAIN desc[k]]
           rows == {row[k] : k \in S}
<1>1. ASSUME NEW k \in S
      PROVE  IsFiniteSet({k} \X DOMAIN desc[k]) /\ (DOMAIN desc[k] = {} <=> desc[k] = <<>>)
  <2>1. PICK T : desc[k] \in Seq(T)
    OBVIOUS
  <2>2. Len(desc[k]) \in Nat /\ DOMAIN desc[k] = 1..Len(desc[k])
    BY <2>1, LenProperties
  <2>3. IsFiniteSet(DOMAIN desc[k]) /\ IsFiniteSet({k})
    BY <2>2, PlacesAreFinite, FS_Singleton
  <2>4. DOMAIN desc[k] = {} => desc[k] = <<>>
    <3>1. desc[k] # <<>> => Len(desc[k]) \in Nat \ {0}
      BY <2>1, EmptySeq
    <3>2. Len(desc[k]) \in Nat \ {0} => 1 \in DOMAIN desc[k]
      BY <2>2
    <3> QED BY <3>1, <3>2
  <2> QED BY <2>3, <2>4, FS_Product
<1>2. IsFiniteSet(rows)
  <2> HIDE DEF row
  <2> QED BY FewerValues
<1>3. IsFiniteSet(UNION rows)
  <2>1. \A r \in rows : IsFiniteSet(r)
    BY <1>1
  <2> HIDE DEF rows
  <2> QED BY <1>2, <2>1, FS_UNION
<1>4. UNION rows = {} <=> \A k \in S : desc[k] = <<>>
  <2>1. ASSUME \A k \in S : DOMAIN desc[k] = {} PROVE UNION rows = {}
    BY <2>1
  <2>2. ASSUME UNION rows = {}, NEW k \in S, NEW x \in DOMAIN desc[k] PROVE FALSE
    <3>1. <<k, x>> \in row[k] /\ row[k] \in rows
      OBVIOUS
    <3> HIDE DEF rows, row
    <3> QED BY <2>2, <3>1
  <2> HIDE DEF rows
  <2> QED BY <1>1, <2>1, <2>2
<1>5. rows = {{k} \X DOMAIN desc[k] : k \in S}
  OBVIOUS
<1> HIDE DEF rows
<1>6. Cardinality(UNION rows) = 0 <=> UNION rows = {}
  BY <1>3, FS_EmptySet
<1> QED BY <1>4, <1>5, <1>6

LEMMA LibraryAnswer ==
    ASSUME NEW entries \in Libraries
    PROVE  LibraryAddsUp(entries, ResidencyAudit(entries, 1))
<1> DEFINE n == Len(entries)
           found == {k \in DOMAIN entries : entries[k].readable}
           parsed(k) == ParseFrontmatter(IF entries[k].front = None THEN <<>> ELSE entries[k].front)
           readable == LoadSkills(entries).readable
           name == [k \in found |-> readable[k].name]
           desc == [k \in found |-> readable[k].desc]
           first == FirstPlaces(found, name)
           twice == SharedPlaces(found, name)
           bare == {k \in first : desc[k] = <<>>}
           a == ResidencyAudit(entries, 1)
<1>1. n \in Nat /\ DOMAIN entries = 1..n
  BY LibrariesAssumption, LenProperties
<1>2. /\ DOMAIN readable = found /\ LoadSkills(entries).phantom = DOMAIN entries \ found
      /\ \A k \in found : readable[k].desc = parsed(k)["description"]
  BY DEF LoadSkills
<1>3. \A k \in found : \E T : "|" \notin T /\ desc[k] \in Seq(T)
  <2> SUFFICES ASSUME NEW k \in found PROVE \E T : "|" \notin T /\ desc[k] \in Seq(T)
    OBVIOUS
  <2>1. \E T : "|" \notin T /\ parsed(k)["description"] \in Seq(T)
    BY DescriptionParsed
  <2> HIDE DEF parsed, readable
  <2> QED BY <1>2, <2>1
<1> HIDE DEF parsed, readable
<1>4. /\ a.readable = Cardinality(found) /\ a.phantom = Cardinality(DOMAIN entries \ found)
      /\ a.distinct = Cardinality(first) /\ a.duplicates = {name[k] : k \in twice}
      /\ a.resident = Cardinality(UNION {{k} \X DOMAIN desc[k] : k \in first})
      /\ a.untriggered = {name[k] : k \in bare}
  <2> DEFINE distinct == Distinct(readable)
  <2>1. DOMAIN distinct = first /\ \A k \in first : distinct[k] = readable[k]
    BY <1>2 DEF Distinct, FirstPlaces
  <2>2. /\ a.readable = Cardinality(DOMAIN readable) /\ a.phantom = Cardinality(LoadSkills(entries).phantom)
        /\ a.distinct = Cardinality(DOMAIN distinct)
        /\ a.duplicates = {readable[k].name : k \in {k \in DOMAIN readable :
                               \E j \in DOMAIN readable \ {k} : readable[j].name = readable[k].name}}
        /\ a.resident = Cardinality(UNION {{k} \X DOMAIN distinct[k].desc : k \in DOMAIN distinct})
        /\ a.untriggered = {readable[k].name : k \in {k \in DOMAIN distinct : distinct[k].desc = <<>>}}
    BY DEF ResidencyAudit, readable
  <2> HIDE DEF a, distinct, found
  <2>3. a.readable = Cardinality(found) /\ a.phantom = Cardinality(DOMAIN entries \ found)
    BY <1>2, <2>2
  <2>4. a.distinct = Cardinality(first)
    BY <2>1, <2>2
  <2>5. a.duplicates = {name[k] : k \in twice}
    BY <1>2, <2>2 DEF SharedPlaces
  <2>6. UNION {{k} \X DOMAIN distinct[k].desc : k \in DOMAIN distinct} = UNION {{k} \X DOMAIN desc[k] : k \in first}
    <3>1. \A k \in first : distinct[k].desc = desc[k]
      BY <2>1 DEF FirstPlaces
    <3> HIDE DEF first, desc
    <3> QED BY <2>1, <3>1
  <2>7. a.untriggered = {name[k] : k \in bare}
    <3>1. first \subseteq found
      BY DEF FirstPlaces
    <3> HIDE DEF first
    <3>2. {k \in DOMAIN distinct : distinct[k].desc = <<>>} = bare
      BY <2>1, <3>1
    <3>3. {readable[k].name : k \in bare} = {name[k] : k \in bare}
      BY <3>1
    <3> QED BY <2>2, <3>2, <3>3
  <2> QED BY <2>2, <2>3, <2>4, <2>5, <2>6, <2>7
<1> HIDE DEF a, name
<1>5. /\ IsFiniteSet(found) /\ IsFiniteSet(first)
      /\ Cardinality(found) - Cardinality(first) >= Cardinality(a.duplicates)
      /\ a.duplicates = {} => Cardinality(found) = Cardinality(first)
      /\ \A i, j \in first : name[i] = name[j] => i = j
  <2>1. found \subseteq 1..n
    BY <1>1
  <2> HIDE DEF found, n
  <2>2. /\ IsFiniteSet(found) /\ IsFiniteSet(first)
        /\ Cardinality(found) - Cardinality(first) >= Cardinality({name[k] : k \in twice})
        /\ {name[k] : k \in twice} = {} => Cardinality(found) = Cardinality(first)
        /\ \A i, j \in first : name[i] = name[j] => i = j
    BY <1>1, <2>1, Namesakes
  <2> HIDE DEF first, twice
  <2> QED BY <1>4, <2>2
<1>6. a.phantom + a.readable = n
  <2>1. IsFiniteSet(1..n) /\ Cardinality(1..n) = n
    BY <1>1, PlacesAreFinite
  <2>2. (1..n) \cap found = found
    BY <1>1
  <2>3. Cardinality(found) \in Nat
    BY <1>5, FS_CardinalityType
  <2> HIDE DEF found, n
  <2>4. Cardinality((1..n) \ found) = n - Cardinality(found)
    BY <2>1, <2>2, FS_Difference
  <2> QED BY <1>1, <1>4, <2>3, <2>4
<1>7. a.resident = 0 <=> Cardinality(a.untriggered) = a.distinct
  <2>1. first \subseteq found /\ bare \subseteq first /\ (bare = first <=> \A k \in first : desc[k] = <<>>)
    BY DEF FirstPlaces
  <2> HIDE DEF found, first, bare, desc
  <2>2. a.resident = 0 <=> bare = first
    <3>1. \A k \in first : \E T : desc[k] \in Seq(T)
      BY <1>3, <2>1
    <3>2. Cardinality(UNION {{k} \X DOMAIN desc[k] : k \in first}) = 0 <=> \A k \in first : desc[k] = <<>>
      BY <1>5, <3>1, ResidentTexts
    <3> QED BY <1>4, <2>1, <3>2
  <2>3. IsFiniteSet(bare) /\ (Cardinality(bare) = Cardinality(first) <=> bare = first)
    BY <1>5, <2>1, FS_Subset
  <2>4. Cardinality(a.untriggered) = Cardinality(bare)
    <3>1. \A i, j \in bare : name[i] = name[j] => i = j
      BY <1>5, <2>1
    <3> QED BY <1>4, <2>3, <3>1, AsManyValues
  <2> QED BY <1>4, <2>2, <2>3, <2>4
<1>8. ASSUME NEW k \in DOMAIN entries, entries[k].readable, entries[k].front # None
      PROVE  "|" \notin Range(ParseFrontmatter(entries[k].front)["description"])
  <2> DEFINE text == ParseFrontmatter(entries[k].front)["description"]
  <2>1. PICK T : "|" \notin T /\ text \in Seq(T)
    BY <1>8, DescriptionParsed
  <2> HIDE DEF text
  <2>2. Range(text) \subseteq T
    BY <2>1, LenProperties, ElementOfSeq DEF Range
  <2> QED BY <2>1, <2>2 DEF text
<1> HIDE DEF found, first, n
<1>9. a.readable - a.distinct >= Cardinality(a.duplicates) /\ (a.duplicates = {} => a.readable = a.distinct)
  BY <1>4, <1>5
<1> QED BY <1>6, <1>7, <1>8, <1>9 DEF LibraryAddsUp, a, n

-----------------------------------------------------------------------------
(* The theorems.                                                           *)

LEMMA ReachNext ==
    ASSUME asked' = "adapter" => AdapterIsOutside(about', answer'),
           asked' = "install" => ConnectorIsOutside(about', answer'),
           asked' = "adopt" => ToolIsPinned(about', answer')
    PROVE  OutOfReach'
BY DEF OutOfReach, AdapterIsOutside, ConnectorIsOutside, ToolIsPinned, Exists, Real, IsPrefix, Norm, Front

(* The judge adapter a run is given really lies outside the tool it judges, and
   third-party code is handed what it declares only, whatever the paths, the
   links and the environment are. *)
THEOREM ReachTheorem == Spec => []OutOfReach
<1>1. Init => OutOfReach
  BY DEF Init, OutOfReach
<1>2. OutOfReach /\ [Next]_vars => OutOfReach'
  <2> SUFFICES ASSUME OutOfReach, [Next]_vars PROVE OutOfReach'
    OBVIOUS
  <2>1. CASE UNCHANGED vars
    <3>1. /\ asked = "adapter" => AdapterIsOutside(about, answer)
          /\ asked = "install" => ConnectorIsOutside(about, answer)
          /\ asked = "adopt" => ToolIsPinned(about, answer)
      BY DEF OutOfReach
    <3>2. asked' = asked /\ about' = about /\ answer' = answer
      BY <2>1 DEF vars
    <3> QED BY <3>1, <3>2, ReachNext
  <2>2. CASE FindAdapter
    <3>1. PICK q \in Adapters, refiner \in {"claude", "llm", "chain"} :
             LET adapter == ResolveJudgeAdapter(q.gen, q.override, q.registry)
                 deps    == BuildLoopDeps(refiner, TRUE)
                 wiring  == [refiner |-> Last(deps.refiners), judge |-> "CLIJudge", oracle |-> "NoGroundingOracle",
                             referees |-> {adapter}, writes |-> {q.gen.tool}, dev |-> q.dev, heldout |-> q.heldout]
             IN  Ask("adapter", q, IF adapter # None /\ LoopIntegrity(wiring) THEN adapter ELSE None)
      BY <2>2 DEF FindAdapter
    <3> DEFINE adapter == ResolveJudgeAdapter(q.gen, q.override, q.registry)
               wiring  == [refiner |-> Last(BuildLoopDeps(refiner, TRUE).refiners), judge |-> "CLIJudge",
                           oracle |-> "NoGroundingOracle", referees |-> {adapter}, writes |-> {q.gen.tool},
                           dev |-> q.dev, heldout |-> q.heldout]
    <3>2. wiring.dev = q.dev /\ wiring.heldout = q.heldout
      OBVIOUS
    <3>3. /\ asked' = "adapter" /\ about' = q
          /\ answer' = IF adapter # None /\ LoopIntegrity(wiring) THEN adapter ELSE None
      BY <3>1 DEF Ask
    <3>4. AdapterIsOutside(q, IF adapter # None /\ LoopIntegrity(wiring) THEN adapter ELSE None)
      <4> HIDE DEF wiring
      <4> QED BY <3>2, AdapterAnswer
    <3> HIDE DEF adapter, wiring
    <3> QED BY <3>3, <3>4, ReachNext
  <2>3. CASE Install
    <3>1. PICK spec \in Installs, env \in Environments, root \in {<<"c">>, <<"w">>, <<"link">>} :
             Ask("install", [spec |-> spec, root |-> root], InstallConnector(spec, root, <<"w">>, env))
      BY <2>3 DEF Install
    <3> QED BY <3>1, ConnectorAnswer, ReachNext DEF Ask
  <2>4. CASE AdoptTool
    <3>1. PICK spec \in Installs, env \in Environments, root \in {<<"c">>, <<"w">>, <<"link">>} :
             Ask("adopt", [spec |-> spec, root |-> root],
                 IF Adopt(spec, root, TRUE) = None THEN None ELSE PrunedEnv(env, spec.required))
      BY <2>4 DEF AdoptTool
    <3> QED BY <3>1, AdoptedAnswer, ReachNext DEF Ask
  <2>5. CASE asked' \notin {"adapter", "install", "adopt"}
    BY <2>5 DEF OutOfReach
  <2>6. Next => \/ FindAdapter \/ Install \/ AdoptTool
                \/ asked' \notin {"adapter", "install", "adopt"}
    BY DEF Next, Ask, JudgeSkill, JudgeGenerated, JudgeSpec, JudgePolicy, DrawSeeds, ReadReport,
           ProbeVariance, ResolveCards, BuildPrompt, AuditLibrary, Audit, RunAblationPair,
           AskOracle, SubmitFleet, Return
  <2> QED BY <2>1, <2>2, <2>3, <2>4, <2>5, <2>6
<1> QED BY <1>1, <1>2, PTL DEF Spec

LEMMA PassesNext ==
    ASSUME asked' = "skill"    => SkillIsSound(about', answer'),
           asked' = "spec"     => SpecIsSound(about', answer'),
           asked' = "policy"   => PolicyIsSound(about', answer'),
           asked' = "seeds"    => SeedsAreHeldOut(about', answer'),
           asked' = "report"   => PassIsSaid(about', answer') /\ WeakestAreNamed(about', answer'),
           asked' = "variance" => VarianceIsCovered(about', answer'),
           asked' = "forks"    => ForksAreGrounded(about', answer'),
           asked' = "prompt"   => PromptReflects(about', answer'),
           asked' = "library"  => LibraryAddsUp(about', answer'),
           asked' = "audit"    => AuditIsHonest(about', answer'),
           asked' = "ablation" => AblationIsReal(about', answer'),
           asked' = "fleet"    => FleetIsRunnable(about', answer'),
           asked' = "oracle"   => OracleIsFounded(about', answer')
    PROVE  PassesAreSound'
<1>1. (asked = "skill" => SkillIsSound(about, answer))'
  BY DEF SkillIsSound, F
<1>2. (asked = "spec" => SpecIsSound(about, answer))'
  BY DEF SpecIsSound, UnitIds, TestedBlocks, F
<1>3. (asked = "policy" => PolicyIsSound(about, answer))'
  BY DEF PolicyIsSound, F, Within
<1>4. (asked = "seeds" => SeedsAreHeldOut(about, answer))'
  BY DEF SeedsAreHeldOut, Range
<1>5. (asked = "report" => PassIsSaid(about, answer) /\ WeakestAreNamed(about, answer))'
  BY DEF PassIsSaid, WeakestAreNamed
<1>6. (asked = "variance" => VarianceIsCovered(about, answer))'
  BY DEF VarianceIsCovered, IsImprovement
<1>7. (asked = "forks" => ForksAreGrounded(about, answer))'
  BY DEF ForksAreGrounded
<1>8. (asked = "prompt" => PromptReflects(about, answer))'
  BY DEF PromptReflects
<1>9. (asked = "library" => LibraryAddsUp(about, answer))'
  BY DEF LibraryAddsUp, ParseFrontmatter, ReadLine, Range
<1>10. (asked = "audit" => AuditIsHonest(about, answer))'
  BY DEF AuditIsHonest
<1>11. (asked = "ablation" => AblationIsReal(about, answer))'
  BY DEF AblationIsReal
<1>12. (asked = "fleet" => FleetIsRunnable(about, answer))'
  BY DEF FleetIsRunnable, FleetKeys, DEPENDENCIES, Detect, Route, ResolveDomain, REGISTRY, Classifies,
         ClassifySoftware, IsToolingTarget, Blank, SelectInSeq, Min
<1>13. (asked = "oracle" => OracleIsFounded(about, answer))'
  BY DEF OracleIsFounded
<1> QED BY <1>1, <1>2, <1>3, <1>4, <1>5, <1>6, <1>7, <1>8, <1>9, <1>10, <1>11, <1>12, <1>13 DEF PassesAreSound

(* A grade, a report, an audit or a written fleet lets through what it says it
   does: an unsafe or unreadable skill is never more than an F, a judged pass was
   said, a reversed fork was grounded, a library adds up, and so on, whatever the
   artefacts are. *)
THEOREM PassesTheorem == Spec => []PassesAreSound
<1>1. Init => PassesAreSound
  BY DEF Init, PassesAreSound
<1>2. PassesAreSound /\ [Next]_vars => PassesAreSound'
  <2> SUFFICES ASSUME PassesAreSound, [Next]_vars PROVE PassesAreSound'
    OBVIOUS
  <2>1. CASE UNCHANGED vars
    <3>1. asked' = asked /\ about' = about /\ answer' = answer
      BY <2>1 DEF vars
    <3> QED BY <3>1, PassesNext DEF PassesAreSound
  <2>2. CASE JudgeSkill
    <3>1. PICK a \in Skills :
             Ask("skill", a, ToolingJudge(a))
      BY <2>2 DEF JudgeSkill
    <3> QED BY <3>1, SkillAnswer, PassesNext DEF Ask
  <2>3. CASE JudgeGenerated
    <3>1. PICK goal \in Texts, summary \in Summaries :
             Ask("skill", Generate(goal, summary), ToolingJudge(Generate(goal, summary)))
      BY <2>3 DEF JudgeGenerated
    <3> QED BY <3>1, SkillAnswer, PassesNext DEF Ask
  <2>4. CASE JudgeSpec
    <3>0. PICK s \in Specs : \E q \in {s, SynthesizeSpec(s)} : Ask("spec", q, SpecJudge(q))
      BY <2>4 DEF JudgeSpec
    <3>1. PICK q \in {s, SynthesizeSpec(s)} : Ask("spec", q, SpecJudge(q))
      BY <3>0
    <3>2. q.file \in {"text", "gone", "bytes"} /\ Len(q.blocks) \in Nat /\ DOMAIN q.blocks = 1..Len(q.blocks)
      <4>1. CASE q = s \/ ~s.blank
        <5>0. {"file", "blocks"} \subseteq DOMAIN s /\ s.file \in {"text", "gone", "bytes"}
          BY SpecsAssumption DEF Scaffold
        <5>3. q = s \/ q = [s EXCEPT !.file = "text"]
          BY <3>1, <4>1 DEF SynthesizeSpec
        <5>4. [s EXCEPT !.file = "text"].file = "text" /\ [s EXCEPT !.file = "text"].blocks = s.blocks
          BY <5>0
        <5>1. q.file \in {"text", "gone", "bytes"} /\ q.blocks = s.blocks
          BY <5>0, <5>3, <5>4
        <5>2. s.blocks \in Seq(Range(s.blocks))
          BY SpecsAssumption
        <5> QED BY <5>1, <5>2, LenProperties
      <4>2. CASE q = Scaffold
        BY <4>2 DEF Scaffold
      <4> QED BY <3>1, <4>1, <4>2 DEF SynthesizeSpec
    <3>3. SpecIsSound(q, SpecJudge(q))
      BY <3>2, SpecAnswer
    <3> QED BY <3>1, <3>3, PassesNext DEF Ask
  <2>5. CASE JudgePolicy
    <3>1. PICK r \in Rollouts :
             Ask("policy", r, SimJudge(r))
      BY <2>5 DEF JudgePolicy
    <3> QED BY <3>1, PolicyAnswer, PassesNext DEF Ask
  <2>6. CASE DrawSeeds
    <3>1. PICK draws \in Draws, n \in 0..2, dev \in SUBSET {1, 2} :
             Ask("seeds", [n |-> n, dev |-> dev], HeldoutSeeds(draws, n, dev))
      BY <2>6 DEF DrawSeeds
    <3> QED BY <3>1, SeedsAnswer, PassesNext DEF Ask
  <2>7. CASE ReadReport
    <3>1. PICK r \in Reports, strict \in BOOLEAN :
             Ask("report", [report |-> r, strict |-> strict],
                 [verdict |-> JudgeReport(r, strict), failing |-> IF r = None THEN {} ELSE Failing(r),
                  feedback |-> IF r = None THEN None ELSE DistillFeedback(r)])
      BY <2>7 DEF ReadReport
    <3> QED BY <3>1, PassAnswer, WeakestAnswer, PassesNext DEF Ask
  <2>8. CASE ProbeVariance
    <3>1. PICK v \in Probes :
             Ask("variance", v, VarianceReport(v))
      BY <2>8 DEF ProbeVariance
    <3> QED BY <3>1, VarianceAnswer, PassesNext DEF Ask
  <2>9. CASE ResolveCards
    <3>1. PICK emitted \in Cards, spec \in {None, 1}, oracle \in {None, 1, 2} :
             Ask("forks", [emitted |-> emitted, spec |-> spec, oracle |-> oracle],
                 LET cards == ForkCardsFrom(emitted)
                 IN  [k \in DOMAIN cards |-> [card |-> cards[k], by |-> ResolveFork(cards[k], spec, oracle)]])
      BY <2>9 DEF ResolveCards
    <3> QED BY <3>1, ForksAnswer, PassesNext DEF Ask
  <2>10. CASE BuildPrompt
    <3>1. PICK b \in Briefs, refiner \in {"claude", "llm", "spec"} :
             Ask("prompt", [brief |-> b, refiner |-> refiner], Prompt(refiner, b))
      BY <2>10 DEF BuildPrompt
    <3> QED BY <3>1, PromptAnswer, PassesNext DEF Ask
  <2>11. CASE AuditLibrary
    <3>1. PICK entries \in Libraries :
             Ask("library", entries, ResidencyAudit(entries, 1))
      BY <2>11 DEF AuditLibrary
    <3> QED BY <3>1, LibraryAnswer, PassesNext DEF Ask
  <2>12. CASE Audit
    <3>1. PICK items \in Items :
             Ask("audit", items, [gate |-> AuditGate(items), rate |-> ConformanceRate(items)])
      BY <2>12 DEF Audit
    <3> QED BY <3>1, AuditAnswer, PassesNext DEF Ask
  <2>13. CASE RunAblationPair
    <3>1. PICK on \in Legs, off \in Legs, hash \in {None, "hash"} :
             LET proof == AblationResult(on, off, hash)
             IN  Ask("ablation", [on |-> on, off |-> off], IF ValidFlywheelProof(proof) THEN proof ELSE None)
      BY <2>13 DEF RunAblationPair
    <3> QED BY <3>1, AblationAnswer, PassesNext DEF Ask
  <2>14. CASE AskOracle
    <3>1. PICK o \in Outcomes :
             Ask("oracle", o, Supports(o))
      BY <2>14 DEF AskOracle
    <3> QED BY <3>1, OracleAnswer, PassesNext DEF Ask
  <2>15. CASE SubmitFleet
    <3>1. PICK items \in FleetSpecs, host \in Hosts, dryRun \in BOOLEAN :
             /\ ParseFleetSpec(items)
             /\ Ask("fleet", [items |-> items, host |-> host, dryRun |-> dryRun],
                    IF FleetMayStart(items, host, dryRun) THEN MaterializeFleet(items, "goal") ELSE None)
      BY <2>15 DEF SubmitFleet
    <3> QED BY <3>1, FleetAnswer, PassesNext DEF Ask
  <2>16. CASE asked' \notin {"skill", "spec", "policy", "seeds", "report", "variance", "forks", "prompt",
                         "library", "audit", "ablation", "fleet", "oracle"}
    BY <2>16 DEF PassesAreSound
  <2>17. Next => \/ JudgeSkill \/ JudgeGenerated \/ JudgeSpec \/ JudgePolicy \/ DrawSeeds \/ ReadReport
                 \/ ProbeVariance \/ ResolveCards \/ BuildPrompt \/ AuditLibrary \/ Audit
                 \/ RunAblationPair \/ AskOracle \/ SubmitFleet
                 \/ asked' \notin {"skill", "spec", "policy", "seeds", "report", "variance", "forks", "prompt",
                         "library", "audit", "ablation", "fleet", "oracle"}
    BY DEF Next, FindAdapter, Install, AdoptTool, Return, Ask
  <2> QED BY <2>1, <2>2, <2>3, <2>4, <2>5, <2>6, <2>7, <2>8, <2>9, <2>10, <2>11, <2>12, <2>13, <2>14, <2>15, <2>16, <2>17
<1> QED BY <1>1, <1>2, PTL DEF Spec
=============================================================================
