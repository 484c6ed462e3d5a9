-------------------------- MODULE RunRecordsProofs --------------------------
(***************************************************************************)
(* What is reported shippable, for any requests, verdicts, corpus and      *)
(* number of rows: Spec => []ShippableIsConfirmed.  The property speaks of *)
(* the end of a run only; the invariant follows the row from where the     *)
(* loop closes it (Settled) over the other two processes (Apart: the       *)
(* importer closes rows of its own only) to the gate (Confirmed).          *)
(***************************************************************************)
EXTENDS RunRecords, ListLemmas, FiniteSetTheorems, WellFoundedInduction, TLAPS

IsRow(x) == x = [target |-> x.target, lane |-> x.lane, goal |-> x.goal, status |-> x.status,
                 final |-> x.final, finished |-> x.finished, injected |-> x.injected]
IsJob(x) == x = [pc |-> x.pc, req |-> x.req, run |-> x.run, budget |-> x.budget,
                 kept |-> x.kept, shippable |-> x.shippable]
IsImporter(x) == x = [pc |-> x.pc, i |-> x.i, run |-> x.run, anchors |-> x.anchors,
                      existing |-> x.existing]

Shape ==
    /\ IsList(runs) /\ IsList(iters) /\ IsList(confirms)
    /\ DOMAIN iters = DOMAIN runs
    /\ \A r \in DOMAIN runs : IsRow(runs[r])

(* The job is idle or works for an admitted request on a row that is there, and
   claims nothing before it is done. *)
JobOK ==
    job.pc # "idle" => /\ IsJob(job) /\ Admits(job.req) /\ job.run \in DOMAIN runs
                       /\ job.pc # "done" => job.shippable = FALSE

(* The row the importer is about to close is no row of the job. *)
Apart ==
    /\ importer.pc # "idle" => IsImporter(importer)
    /\ importer.pc = "close" => /\ importer.run \in DOMAIN runs
                                /\ job.pc # "idle" => importer.run # job.run

(* A converged row ended on the kept verdict, safe and at target. *)
Settled ==
    job.pc \in {"stamp", "gate", "done"} /\ runs[job.run].status = "converged" =>
        runs[job.run].final = Kept.grade /\ Reached

(* What passed the gate was confirmed, and on record where it asks for it. *)
Confirmed ==
    job.pc = "done" /\ job.shippable =>
        /\ runs[job.run].status = "converged"
        /\ ConfirmConvergence(job.req.gate, job.req.scheduled, job.req.ci, job.req.confirmed)
        /\ GateRequiresConfirmation(job.req.gate, job.req.scheduled, job.req.ci) =>
              [run |-> job.run, confirmed |-> TRUE] \in Range(confirms)

Inv == Shape /\ JobOK /\ Apart /\ Settled /\ Confirmed

-----------------------------------------------------------------------------
(* What stays of a row when one is added or one field of a row is set. *)
LEMMA RowAdded ==
    ASSUME Shape, NEW target, NEW lane, NEW goal, CreateRun(NewRun(target, lane, goal))
    PROVE  /\ IsList(runs') /\ IsList(iters') /\ DOMAIN iters' = DOMAIN runs'
           /\ \A r \in DOMAIN runs' : IsRow(runs'[r])
           /\ \A r \in DOMAIN runs : r \in DOMAIN runs' /\ runs'[r] = runs[r] /\ iters'[r] = iters[r]
           /\ Len(runs) + 1 \in DOMAIN runs' /\ Len(runs) + 1 \notin DOMAIN runs
           /\ runs'[Len(runs) + 1].status = "running" /\ runs'[Len(runs) + 1].target = target
           /\ runs'[Len(runs) + 1].lane = lane /\ iters'[Len(runs) + 1] = <<>>
           /\ DOMAIN runs' = DOMAIN runs \cup {Len(runs) + 1} /\ Len(runs) \in Nat
           /\ DOMAIN runs = 1..Len(runs)
  <1> DEFINE row == NewRun(target, lane, goal)
  <1>1. IsRow(row) /\ row.status = "running" /\ row.target = target /\ row.lane = lane
    BY DEF IsRow, NewRun
  <1>2. runs' = Append(runs, row) /\ iters' = Append(iters, <<>>)
    BY DEF CreateRun
  <1> HIDE DEF row
  <1>3. Len(runs) \in Nat /\ DOMAIN runs = 1..Len(runs) /\ Len(iters) = Len(runs)
    BY Appended DEF Shape
  <1> QED BY <1>1, <1>2, <1>3, Appended DEF Shape

LEMMA RowFinished ==
    ASSUME Shape, NEW r \in DOMAIN runs, NEW status, NEW final, FinishRun(r, status, final)
    PROVE  /\ IsList(runs') /\ DOMAIN runs' = DOMAIN runs
           /\ \A o \in DOMAIN runs' : IsRow(runs'[o])
           /\ runs'[r].status = status /\ runs'[r].final = final
           /\ runs'[r].target = runs[r].target /\ runs'[r].lane = runs[r].lane
           /\ \A o \in DOMAIN runs \ {r} : runs'[o] = runs[o]
  <1> DEFINE row == [runs[r] EXCEPT !.status = status, !.final = final]
  <1>1. runs' = [runs EXCEPT ![r] = row]
    BY DEF FinishRun
  <1>2. /\ IsRow(row) /\ row.status = status /\ row.final = final
        /\ row.target = runs[r].target /\ row.lane = runs[r].lane
    <2> DEFINE x == runs[r]
               y == [target |-> x.target, lane |-> x.lane, goal |-> x.goal, status |-> status,
                     final |-> final, finished |-> x.finished, injected |-> x.injected]
    <2>1. x = [target |-> x.target, lane |-> x.lane, goal |-> x.goal, status |-> x.status,
               final |-> x.final, finished |-> x.finished, injected |-> x.injected]
      BY DEF Shape, IsRow
    <2>2. row = y
      <3> DEFINE z == [x EXCEPT !.status = status]
      <3>1. row = [z EXCEPT !.final = final]
        OBVIOUS
      <3>2. z = [target |-> x.target, lane |-> x.lane, goal |-> x.goal, status |-> status,
                 final |-> x.final, finished |-> x.finished, injected |-> x.injected]
        <4> HIDE DEF x
        <4> QED BY <2>1
      <3> HIDE DEF x, z, row
      <3> QED BY <3>1, <3>2
    <2>3. /\ IsRow(y) /\ y.status = status /\ y.final = final
          /\ y.target = x.target /\ y.lane = x.lane
      BY DEF IsRow
    <2> QED BY <2>2, <2>3
  <1> HIDE DEF row
  <1>3. IsList(runs')
    BY <1>1, ListExcept DEF Shape
  <1> QED BY <1>1, <1>2, <1>3 DEF Shape

LEMMA RowStamped ==
    ASSUME Shape, NEW r \in DOMAIN runs, NEW x,
           runs' = [runs EXCEPT ![r].finished = x] \/ runs' = [runs EXCEPT ![r].injected = x]
    PROVE  /\ IsList(runs') /\ DOMAIN runs' = DOMAIN runs
           /\ \A o \in DOMAIN runs' : IsRow(runs'[o])
           /\ \A o \in DOMAIN runs : /\ runs'[o].status = runs[o].status /\ runs'[o].final = runs[o].final
                                     /\ runs'[o].target = runs[o].target /\ runs'[o].lane = runs[o].lane
           /\ \A o \in DOMAIN runs \ {r} : runs'[o] = runs[o]
  <1>1. PICK row : /\ IsRow(row) /\ row.status = runs[r].status /\ row.final = runs[r].final
                   /\ row.target = runs[r].target /\ row.lane = runs[r].lane
                   /\ runs' = [runs EXCEPT ![r] = row]
    <2>1. CASE runs' = [runs EXCEPT ![r].finished = x]
      <3> WITNESS [runs[r] EXCEPT !.finished = x]
      <3> QED BY <2>1 DEF Shape, IsRow
    <2>2. CASE runs' = [runs EXCEPT ![r].injected = x]
      <3> WITNESS [runs[r] EXCEPT !.injected = x]
      <3> QED BY <2>2 DEF Shape, IsRow
    <2> QED BY <2>1, <2>2
  <1>2. IsList(runs')
    BY <1>1, ListExcept DEF Shape
  <1> QED BY <1>1, <1>2 DEF Shape

LEMMA IterationsSet ==
    ASSUME Shape, NEW r \in DOMAIN runs, NEW x, iters' = [iters EXCEPT ![r] = x]
    PROVE  IsList(iters') /\ DOMAIN iters' = DOMAIN runs
  BY ListExcept DEF Shape

(* The facts a step of the job starts from. *)
LEMMA JobAt ==
    ASSUME Inv, job.pc # "idle"
    PROVE  /\ IsJob(job) /\ Admits(job.req) /\ job.run \in DOMAIN runs
           /\ job.pc # "done" => job.shippable = FALSE
  BY DEF Inv, JobOK

LEMMA Initial == Init => Inv
  <1>1. IsList(<<>>)
    BY DEF IsList
  <1> QED BY <1>1 DEF Init, Idle, Inv, Shape, JobOK, Apart, Settled, Confirmed

(* A step of the job that keeps its request and its row: three of the parts. *)
LEMMA MovesOn ==
    ASSUME Inv, job.pc # "idle", importer' = importer,
           IsJob(job'), job'.pc # "idle", job'.req = job.req, job'.run = job.run,
           job'.pc # "done" => job'.shippable = FALSE,
           IsList(runs'), DOMAIN runs' = DOMAIN runs, \A r \in DOMAIN runs' : IsRow(runs'[r]),
           IsList(iters'), DOMAIN iters' = DOMAIN runs, IsList(confirms')
    PROVE  Shape' /\ JobOK' /\ Apart'
  <1>1. Admits(job.req) /\ job.run \in DOMAIN runs
    BY JobAt
  <1>2. Shape'
    BY DEF Shape
  <1>3. JobOK'
    BY <1>1 DEF JobOK, Admits
  <1>4. Apart'
    BY <1>1 DEF Inv, Apart
  <1> QED BY <1>2, <1>3, <1>4

LEMMA JobSteps ==
    ASSUME Inv, RunNext
    PROVE  Inv'
  <1> USE DEF Inv
  <1>0. Shape
    OBVIOUS
  <1>a. IsList(runs) /\ IsList(iters) /\ IsList(confirms) /\ DOMAIN iters = DOMAIN runs
        /\ \A r \in DOMAIN runs : IsRow(runs[r])
    BY DEF Shape
  <1>1. ASSUME NEW req \in Requests, Start(req)
        PROVE  Inv'
    <2>1. /\ job'.pc \in {"nothing", "judge"} /\ IsJob(job') /\ job'.req = req
          /\ job'.run = Len(runs) + 1 /\ job'.shippable = FALSE
          /\ Admits(req) /\ UNCHANGED <<confirms, importer>>
      BY <1>1, Zenon DEF Start, IsJob
    <2>2. PICK target, lane, goal : CreateRun(NewRun(target, lane, goal))
      BY <1>1, Zenon DEF Start
    <2>3. Shape'
      BY <2>1, <2>2, RowAdded DEF Shape
    <2>4. JobOK'
      <3>1. Admits(req)'
        BY <2>1 DEF Admits
      <3> QED BY <2>1, <2>2, <3>1, RowAdded DEF JobOK
    <2>5. Apart'
      BY <2>1, <2>2, RowAdded DEF Apart
    <2> QED BY <2>1, <2>3, <2>4, <2>5 DEF Settled, Confirmed
  <1>2. CASE NothingGenerated
    <2>1. /\ At("nothing") /\ job' = [job EXCEPT !.pc = "done"]
          /\ FinishRun(job.run, "stopped", None) /\ UNCHANGED <<iters, confirms>>
      BY <1>2 DEF NothingGenerated, Goto
    <2>2. IsJob(job) /\ job.run \in DOMAIN runs /\ job.shippable = FALSE
          /\ job.pc # "idle" /\ importer' = importer
      BY <2>1, JobAt DEF At
    <2>3. /\ IsJob(job') /\ job'.pc = "done" /\ job'.req = job.req /\ job'.run = job.run
          /\ job'.shippable = FALSE
      BY <2>1, <2>2 DEF IsJob
    <2>4. Shape' /\ JobOK' /\ Apart'
      BY <1>a, <2>1, <2>2, <2>3, RowFinished, MovesOn
    <2>5. runs'[job'.run].status = "stopped"
      BY <2>1, <2>2, <2>3, RowFinished
    <2> QED BY <2>3, <2>4, <2>5 DEF Settled, Confirmed
  <1>3. ASSUME NEW v \in Verdicts, RecordBaseline(v)
        PROVE  Inv'
    <2>1. /\ At("judge") /\ iters' = [iters EXCEPT ![job.run] = <<v>>]
          /\ job' = [job EXCEPT !.kept = 1, !.pc = "context"] /\ UNCHANGED <<runs, confirms>>
      BY <1>3 DEF RecordBaseline
    <2>2. IsJob(job) /\ job.run \in DOMAIN runs /\ job.shippable = FALSE
          /\ job.pc # "idle" /\ importer' = importer
      BY <2>1, JobAt DEF At
    <2>3. /\ IsJob(job') /\ job'.pc = "context" /\ job'.req = job.req /\ job'.run = job.run
          /\ job'.shippable = FALSE
      BY <2>1, <2>2 DEF IsJob
    <2>4. IsList(iters') /\ DOMAIN iters' = DOMAIN runs
      BY <2>1, <2>2, IterationsSet
    <2>5. Shape' /\ JobOK' /\ Apart'
      BY <1>a, <2>1, <2>2, <2>3, <2>4, MovesOn
    <2> QED BY <2>3, <2>5 DEF Settled, Confirmed
  <1>4. CASE ReadContext
    <2>1. PICK x : /\ At("context") /\ job' = [job EXCEPT !.pc = "loop"]
                   /\ runs' = [runs EXCEPT ![job.run].injected = x] /\ UNCHANGED <<iters, confirms>>
      BY <1>4 DEF ReadContext, Goto
    <2>2. IsJob(job) /\ job.run \in DOMAIN runs /\ job.shippable = FALSE
          /\ job.pc # "idle" /\ importer' = importer
      BY <2>1, JobAt DEF At
    <2>3. /\ IsJob(job') /\ job'.pc = "loop" /\ job'.req = job.req /\ job'.run = job.run
          /\ job'.shippable = FALSE
      BY <2>1, <2>2 DEF IsJob
    <2>4. Shape' /\ JobOK' /\ Apart'
      BY <1>a, <2>1, <2>2, <2>3, RowStamped, MovesOn
    <2> QED BY <2>3, <2>4 DEF Settled, Confirmed
  <1>5. ASSUME NEW v \in Verdicts, RecordIteration(v)
        PROVE  Inv'
    <2>1. PICK x, kept, pc :
             /\ At("loop") /\ iters' = [iters EXCEPT ![job.run] = x] /\ UNCHANGED <<runs, confirms>>
             /\ pc \in {"halt", "keep", "loop"} /\ job' = [job EXCEPT !.kept = kept, !.pc = pc]
      <3> DEFINE x == Append(iters[job.run], v)
                 n == Len(iters[job.run]) + 1
                 kept == IF v.safe THEN job.kept ELSE n
                 pc == IF ~v.safe THEN "halt" ELSE IF v.grade > Kept.grade THEN "keep" ELSE "loop"
      <3>1. /\ At("loop") /\ iters' = [iters EXCEPT ![job.run] = x] /\ UNCHANGED <<runs, confirms>>
            /\ job' = [job EXCEPT !.kept = kept, !.pc = pc]
        BY <1>5 DEF RecordIteration
      <3>2. pc \in {"halt", "keep", "loop"}
        OBVIOUS
      <3> HIDE DEF x, kept, pc
      <3> QED BY <3>1, <3>2
    <2>2. IsJob(job) /\ job.run \in DOMAIN runs /\ job.shippable = FALSE
          /\ job.pc # "idle" /\ importer' = importer
      BY <2>1, JobAt DEF At
    <2>3. /\ IsJob(job') /\ job'.pc = pc /\ job'.req = job.req /\ job'.run = job.run
          /\ job'.shippable = FALSE
      BY <2>1, <2>2 DEF IsJob
    <2>4. IsList(iters') /\ DOMAIN iters' = DOMAIN runs
      BY <2>1, <2>2, IterationsSet
    <2>5. Shape' /\ JobOK' /\ Apart'
      BY <1>a, <2>1, <2>2, <2>3, <2>4, MovesOn
    <2> QED BY <2>1, <2>3, <2>5 DEF Settled, Confirmed
  <1>6. CASE Compound
    <2>1. PICK n : /\ At("keep") /\ job' = [job EXCEPT !.kept = n, !.pc = "loop"]
                   /\ UNCHANGED <<runs, iters, confirms>>
      BY <1>6 DEF Compound
    <2>2. IsJob(job) /\ job.run \in DOMAIN runs /\ job.shippable = FALSE
          /\ job.pc # "idle" /\ importer' = importer
      BY <2>1, JobAt DEF At
    <2>3. /\ IsJob(job') /\ job'.pc = "loop" /\ job'.req = job.req /\ job'.run = job.run
          /\ job'.shippable = FALSE
      BY <2>1, <2>2 DEF IsJob
    <2>4. Shape' /\ JobOK' /\ Apart'
      BY <1>a, <2>1, <2>2, <2>3, MovesOn
    <2> QED BY <2>3, <2>4 DEF Settled, Confirmed
  <1>7. ASSUME NEW status \in Terminal, Finish(status)
        PROVE  Inv'
    <2>1. PICK pc :
             /\ job.pc \in {"loop", "halt"} /\ At(job.pc)
             /\ status = "converged" => Reached
             /\ FinishRun(job.run, status, Kept.grade)
             /\ pc \in {"gate", "stamp"} /\ job' = [job EXCEPT !.pc = pc]
             /\ UNCHANGED <<iters, confirms>>
      <3> DEFINE pc == IF job.req.kind = "loop" THEN "gate" ELSE "stamp"
      <3>1. /\ job.pc \in {"loop", "halt"} /\ At(job.pc) /\ FinishRun(job.run, status, Kept.grade)
            /\ job' = [job EXCEPT !.pc = pc] /\ UNCHANGED <<iters, confirms>>
        BY <1>7 DEF Finish, Goto
      <3>2. status = "converged" => Reached
        BY <1>7 DEF Finish
      <3>3. pc \in {"gate", "stamp"}
        OBVIOUS
      <3> HIDE DEF pc
      <3> QED BY <3>1, <3>2, <3>3
    <2>2. IsJob(job) /\ job.run \in DOMAIN runs /\ job.shippable = FALSE
          /\ job.pc # "idle" /\ importer' = importer
      BY <2>1, JobAt DEF At
    <2>3. /\ IsJob(job') /\ job'.pc = pc /\ job'.req = job.req /\ job'.run = job.run
          /\ job'.shippable = FALSE /\ job'.kept = job.kept /\ job'.budget = job.budget
      BY <2>1, <2>2 DEF IsJob
    <2>4. Shape' /\ JobOK' /\ Apart'
      BY <1>a, <2>1, <2>2, <2>3, RowFinished, MovesOn
    <2>5. runs'[job'.run].status = status /\ runs'[job'.run].final = Kept.grade
      BY <2>1, <2>2, <2>3, RowFinished
    <2>6. Kept' = Kept /\ Reached' = Reached
      BY <2>1, <2>3 DEF Kept, Reached
    <2> QED BY <2>1, <2>3, <2>4, <2>5, <2>6 DEF Settled, Confirmed
  <1>8. CASE RecordFinished
    <2>1. /\ At("stamp") /\ job' = [job EXCEPT !.pc = "gate"]
          /\ runs' = [runs EXCEPT ![job.run].finished = TRUE] /\ UNCHANGED <<iters, confirms>>
      BY <1>8 DEF RecordFinished, Goto
    <2>2. IsJob(job) /\ job.run \in DOMAIN runs /\ job.shippable = FALSE /\ job.pc = "stamp"
          /\ job.pc # "idle" /\ importer' = importer
      BY <2>1, JobAt DEF At
    <2>3. /\ IsJob(job') /\ job'.pc = "gate" /\ job'.req = job.req /\ job'.run = job.run
          /\ job'.shippable = FALSE /\ job'.kept = job.kept /\ job'.budget = job.budget
      BY <2>1, <2>2 DEF IsJob
    <2>4. Shape' /\ JobOK' /\ Apart'
      BY <1>a, <2>1, <2>2, <2>3, RowStamped, MovesOn
    <2>5. /\ runs'[job'.run].status = runs[job.run].status
          /\ runs'[job'.run].final = runs[job.run].final
      BY <1>0, <2>1, <2>2, <2>3, RowStamped
    <2>6. Kept' = Kept /\ Reached' = Reached
      BY <2>1, <2>3 DEF Kept, Reached
    <2> QED BY <2>2, <2>3, <2>4, <2>5, <2>6 DEF Settled, Confirmed
  <1>9. CASE ApplyGate
    <2> DEFINE q == job.req
               done == runs[job.run].status = "converged"
               owed == done /\ GateRequiresConfirmation(q.gate, q.scheduled, q.ci)
               word == [run |-> job.run, confirmed |-> q.confirmed]
               passed == done /\ ConfirmConvergence(q.gate, q.scheduled, q.ci, q.confirmed)
    <2>1. /\ At("gate") /\ job' = [job EXCEPT !.pc = "done", !.shippable = passed]
          /\ confirms' = IF owed THEN Append(confirms, word) ELSE confirms
          /\ UNCHANGED <<runs, iters>>
      BY <1>9 DEF ApplyGate
    <2>2. IsJob(job) /\ job.run \in DOMAIN runs /\ job.pc = "gate"
          /\ job.pc # "idle" /\ importer' = importer
      BY <2>1, JobAt DEF At
    <2>3. /\ IsJob(job') /\ job'.pc = "done" /\ job'.req = job.req /\ job'.run = job.run
          /\ job'.shippable = passed /\ job'.kept = job.kept /\ job'.budget = job.budget
      <3> HIDE DEF passed
      <3> QED BY <2>1, <2>2 DEF IsJob
    <2>4. /\ IsList(confirms')
          /\ owed => word \in Range(confirms')
      <3> HIDE DEF owed, word
      <3>1. CASE owed
        BY <1>a, <2>1, <3>1, Appended DEF Range
      <3>2. CASE ~owed
        BY <1>a, <2>1, <3>2
      <3> QED BY <3>1, <3>2
    <2>5. Shape' /\ JobOK' /\ Apart'
      <3> HIDE DEF owed, word, passed
      <3> QED BY <1>a, <2>1, <2>2, <2>3, <2>4, MovesOn
    <2>6. Kept' = Kept /\ Reached' = Reached
      BY <2>1, <2>3 DEF Kept, Reached
    <2>7. Settled'
      <3> HIDE DEF passed
      <3> QED BY <2>1, <2>2, <2>3, <2>6 DEF Settled
    <2>8. Confirmed'
      BY <2>1, <2>3, <2>4 DEF Confirmed, ConfirmConvergence, GateRequiresConfirmation
    <2> QED BY <2>5, <2>7, <2>8
  <1>10. CASE KillJob
    BY <1>10 DEF KillJob, At, store, Idle, Shape, JobOK, Apart, Settled, Confirmed
  <1> QED BY <1>1, <1>2, <1>3, <1>4, <1>5, <1>6, <1>7, <1>8, <1>9, <1>10 DEF RunNext
(* The process that publishes writes files only; a proof it begins is the end
   of the job. *)
LEMMA PublishSteps ==
    ASSUME Inv, PublishNext
    PROVE  Inv'
  <1>1. UNCHANGED <<runs, iters, confirms, importer>> /\ (job' = job \/ job' = Idle)
    BY Zenon DEF PublishNext, BeginProof, BeginRecord, ReadRow, WriteCard, RefuseCard, WriteReport,
                 KillRecorder, RecorderAt, store
  <1>2. CASE job' = job
    BY <1>1, <1>2 DEF Inv, Shape, JobOK, Apart, Settled, Confirmed, Kept, Reached, Admits
  <1>3. CASE job' = Idle
    BY <1>1, <1>3 DEF Inv, Shape, JobOK, Apart, Settled, Confirmed, Idle
  <1> QED BY <1>1, <1>2, <1>3

(* A step of the importer: the job's row, and its iterations, stay as they are. *)
LEMMA ImportSteps ==
    ASSUME Inv, ImportNext
    PROVE  Inv'
  <1> USE DEF Inv
  <1>1. job' = job /\ confirms' = confirms
    BY Zenon DEF ImportNext, BeginImport, SkipRecord, FindAnchor, CloseAnchor, ImportRecord,
                 KillImporter, ImporterAt
  <1>2. ASSUME Shape', \A r \in DOMAIN runs : /\ r \in DOMAIN runs'
                                              /\ job.pc # "idle" /\ r = job.run =>
                                                    runs'[r] = runs[r] /\ iters'[r] = iters[r]
        PROVE  JobOK' /\ Settled' /\ Confirmed'
    <2>1. JobOK'
      BY <1>1, <1>2 DEF JobOK, Admits
    <2>2. job.pc # "idle" => job.run \in DOMAIN runs
      BY JobAt
    <2>3. job.pc # "idle" => Kept' = Kept /\ Reached' = Reached
      BY <1>1, <1>2, <2>2 DEF Kept, Reached
    <2>4. Settled'
      BY <1>1, <1>2, <2>2, <2>3 DEF Settled
    <2>5. Confirmed'
      BY <1>1, <1>2, <2>2 DEF Confirmed
    <2> QED BY <2>1, <2>4, <2>5
  <1>3. CASE BeginImport
    <2>1. /\ UNCHANGED <<runs, iters>> /\ importer'.pc = "next" /\ IsImporter(importer')
      BY <1>3 DEF BeginImport, IsImporter
    <2>2. Shape' /\ Apart'
      BY <1>1, <2>1 DEF Shape, Apart
    <2> QED BY <1>2, <2>1, <2>2
  <1>4. CASE SkipRecord
    <2>1. /\ UNCHANGED <<runs, iters>> /\ importer.pc = "next"
          /\ importer' = Idle \/ importer' = [importer EXCEPT !.i = @ + 1]
      BY <1>4 DEF SkipRecord, ImporterAt
    <2>2. importer'.pc = "idle" \/ (importer'.pc = "next" /\ IsImporter(importer'))
      BY <2>1 DEF Apart, Idle, IsImporter
    <2>3. Shape' /\ Apart'
      BY <1>1, <2>1, <2>2 DEF Shape, Apart
    <2> QED BY <1>2, <2>1, <2>3
  <1>5. CASE FindAnchor
    <2>1. importer.pc = "next" /\ IsImporter(importer)
      BY <1>5 DEF FindAnchor, ImporterAt, Apart
    <2>2. CASE UNCHANGED <<runs, iters>> /\ \E r : ImportGoto("learn", r)
      <3>1. importer'.pc = "learn" /\ IsImporter(importer')
        BY <2>1, <2>2 DEF ImportGoto, IsImporter
      <3>2. Shape' /\ Apart'
        BY <1>1, <2>2, <3>1 DEF Shape, Apart
      <3> QED BY <1>2, <2>2, <3>2
    <2>3. CASE \E target, lane : /\ CreateRun(NewRun(target, lane, Anchor))
                                 /\ ImportGoto("close", Len(runs) + 1)
      <3>1. PICK target, lane : /\ CreateRun(NewRun(target, lane, Anchor))
                                /\ ImportGoto("close", Len(runs) + 1)
        BY <2>3
      <3>2. importer'.pc = "close" /\ importer'.run = Len(runs) + 1 /\ IsImporter(importer')
        BY <2>1, <3>1 DEF ImportGoto, IsImporter
      <3>3. Shape'
        BY <1>1, <3>1, RowAdded DEF Shape
      <3>4. Apart'
        BY <1>1, <3>1, <3>2, RowAdded, JobAt DEF Apart
      <3>5. \A r \in DOMAIN runs : r \in DOMAIN runs' /\ runs'[r] = runs[r] /\ iters'[r] = iters[r]
        BY <3>1, RowAdded
      <3> QED BY <1>2, <3>3, <3>4, <3>5
    <2> QED BY <1>5, <2>2, <2>3 DEF FindAnchor
  <1>6. CASE CloseAnchor
    <2>1. /\ importer.pc = "close" /\ IsImporter(importer) /\ importer.run \in DOMAIN runs
          /\ job.pc # "idle" => importer.run # job.run
          /\ FinishRun(importer.run, "imported", None) /\ ImportGoto("learn", importer.run)
          /\ iters' = iters
      BY <1>6 DEF CloseAnchor, ImporterAt, Apart
    <2>2. importer'.pc = "learn" /\ IsImporter(importer')
      BY <2>1 DEF ImportGoto, IsImporter
    <2>3. Shape'
      BY <1>1, <2>1, RowFinished DEF Shape
    <2>4. Apart'
      BY <2>2 DEF Apart
    <2>5. \A r \in DOMAIN runs : r # importer.run => runs'[r] = runs[r]
      BY <2>1, RowFinished
    <2>6. DOMAIN runs' = DOMAIN runs
      BY <2>1, RowFinished
    <2> QED BY <1>2, <2>1, <2>3, <2>4, <2>5, <2>6
  <1>7. CASE ImportRecord
    <2>1. /\ UNCHANGED <<runs, iters>> /\ importer.pc = "learn" /\ IsImporter(importer)
      BY <1>7 DEF ImportRecord, ImporterAt, Apart
    <2>2. importer'.pc = "next" /\ IsImporter(importer')
      BY <1>7, <2>1 DEF ImportRecord, IsImporter
    <2>3. Shape' /\ Apart'
      BY <1>1, <2>1, <2>2 DEF Shape, Apart
    <2> QED BY <1>2, <2>1, <2>3
  <1>8. CASE KillImporter
    <2>1. UNCHANGED <<runs, iters>> /\ importer'.pc = "idle"
      BY <1>8 DEF KillImporter, Idle
    <2>2. Shape' /\ Apart'
      BY <1>1, <2>1 DEF Shape, Apart
    <2> QED BY <1>2, <2>1, <2>2
  <1> QED BY <1>3, <1>4, <1>5, <1>6, <1>7, <1>8 DEF ImportNext

LEMMA Stutter ==
    ASSUME Inv, UNCHANGED vars
    PROVE  Inv'
  BY DEF vars, store, Inv, Shape, JobOK, Apart, Settled, Confirmed, Kept, Reached, Admits

LEMMA Invariant == Spec => []Inv
  <1>1. Inv /\ [Next]_vars => Inv'
    BY JobSteps, PublishSteps, ImportSteps, Stutter DEF Next
  <1> QED BY Initial, <1>1, PTL DEF Spec

(* An admitted request of a command that is marked scheduled was not confirmed. *)
LEMMA ScheduledIsUnconfirmed ==
    ASSUME NEW req, Admits(req), req.kind = "run", req.scheduled
    PROVE  ~req.confirmed
  BY DEF Admits, RunAdmits

(* A run is reported shippable only when its row converged on a safe verdict at
   the target of its budget, with the confirmation on record wherever the gate
   asks for one, and never when its command was marked scheduled: whatever the
   other processes write in between, and wherever they are killed. *)
THEOREM ShippableTheorem == Spec => []ShippableIsConfirmed
  <1>1. ASSUME Inv, job.pc = "done", job.shippable
        PROVE  /\ runs[job.run].status = "converged" /\ runs[job.run].final = Kept.grade
               /\ Kept.safe /\ Kept.grade >= job.budget.target_grade
               /\ GateRequiresConfirmation(job.req.gate, job.req.scheduled, job.req.ci) =>
                     [run |-> job.run, confirmed |-> TRUE] \in Range(confirms)
               /\ ~(job.req.kind = "run" /\ job.req.scheduled /\ job.req.gate)
    <2>1. /\ runs[job.run].status = "converged"
          /\ ConfirmConvergence(job.req.gate, job.req.scheduled, job.req.ci, job.req.confirmed)
          /\ GateRequiresConfirmation(job.req.gate, job.req.scheduled, job.req.ci) =>
                [run |-> job.run, confirmed |-> TRUE] \in Range(confirms)
      BY <1>1 DEF Inv, Confirmed
    <2>2. runs[job.run].final = Kept.grade /\ Reached
      BY <1>1, <2>1 DEF Inv, Settled
    <2>3. ~(job.req.kind = "run" /\ job.req.scheduled /\ job.req.gate)
      BY <1>1, <2>1, JobAt, ScheduledIsUnconfirmed DEF ConfirmConvergence, GateRequiresConfirmation
    <2> QED BY <2>1, <2>2, <2>3 DEF Reached
  <1>2. Inv => ShippableIsConfirmed
    BY <1>1 DEF ShippableIsConfirmed
  <1> QED BY Invariant, <1>2, PTL
-----------------------------------------------------------------------------
(* What a step of each process does to the rows, in the terms that the other
   two theorems need.                                                        *)

Early == {"nothing", "judge", "context", "loop", "keep", "halt"}
Late == {"stamp", "gate", "done"}

Opens ==
    /\ \E target, lane, goal : CreateRun(NewRun(target, lane, goal))
    /\ UNCHANGED <<learned, importer, recorder, card>>
    /\ job'.run = Len(runs) + 1 /\ job'.pc \in {"nothing", "judge"}
    /\ job'.req.kind = "proof" => job'.pc = "judge"

Works ==
    /\ UNCHANGED <<importer, recorder, card>> /\ job.pc \in (Early \cup Late) \ {"done"}
    /\ job'.run = job.run /\ job'.req = job.req /\ job.run \in DOMAIN runs
    /\ DOMAIN runs' = DOMAIN runs /\ DOMAIN iters' = DOMAIN iters
    /\ \A r \in DOMAIN runs \ {job.run} : runs'[r] = runs[r] /\ iters'[r] = iters[r]
    /\ runs'[job.run].target = runs[job.run].target /\ runs'[job.run].lane = runs[job.run].lane
    /\ iters[job.run] \in Seq(Verdicts) => iters'[job.run] \in Seq(Verdicts)

(* The steps of the loop, those that close the row, and those after it. *)
Loops ==
    /\ job.pc \in Early \ {"nothing"} /\ job'.pc \in Early \ {"nothing", "judge"}
    /\ runs'[job.run].status = runs[job.run].status
    /\ iters[job.run] \in Seq(Verdicts) => (job.pc = "judge" \/ iters[job.run] # <<>> => iters'[job.run] # <<>>)
    /\ \/ learned' = learned
       \/ job.pc = "keep" /\ \E l : l.run = job.run /\ learned' = Append(learned, l)

Closes ==
    /\ job.pc \in {"nothing", "loop", "halt"} /\ job'.pc \in Late
    /\ runs'[job.run].status \in Terminal /\ UNCHANGED <<iters, learned>>

Settles ==
    /\ job.pc \in {"stamp", "gate"} /\ job'.pc \in Late /\ UNCHANGED <<iters, learned>>
    /\ runs'[job.run].status = runs[job.run].status /\ runs'[job.run].final = runs[job.run].final

Killed == job' = Idle /\ UNCHANGED <<runs, iters, learned, importer, recorder, card>>

LEMMA RowOf ==
    ASSUME Inv, job.pc # "idle"
    PROVE  Shape /\ IsJob(job) /\ job.run \in DOMAIN runs /\ DOMAIN iters = DOMAIN runs
  BY DEF Inv, JobOK, Shape

LEMMA JobDelta ==
    ASSUME Inv, RunNext
    PROVE  Opens \/ (Works /\ (Loops \/ Closes \/ Settles)) \/ Killed
  <1>1. ASSUME NEW req \in Requests, Start(req)
        PROVE  Opens
    <2>1. /\ job'.pc = IF req.kind = "loop" /\ ~req.gen.ok THEN "nothing" ELSE "judge"
          /\ job'.req = req /\ job'.run = Len(runs) + 1
          /\ UNCHANGED <<learned, importer, recorder, card>>
          /\ \E target, lane, goal : CreateRun(NewRun(target, lane, goal))
      BY <1>1, Zenon DEF Start
    <2> QED BY <2>1 DEF Opens
  <1>2. CASE NothingGenerated
    <2>1. /\ job.pc = "nothing" /\ job' = [job EXCEPT !.pc = "done"]
          /\ FinishRun(job.run, "stopped", None)
          /\ UNCHANGED <<iters, learned, importer, recorder, card>>
      BY <1>2 DEF NothingGenerated, At, Goto
    <2>2. Shape /\ IsJob(job) /\ job.run \in DOMAIN runs
      BY <2>1, RowOf
    <2>3. job'.pc = "done" /\ job'.req = job.req /\ job'.run = job.run
      BY <2>1, <2>2 DEF IsJob
    <2>4. Works
      BY <2>1, <2>2, <2>3, RowFinished DEF Works, Early, Late
    <2>5. Closes
      BY <2>1, <2>2, <2>3, RowFinished DEF Closes, Late, Terminal
    <2> QED BY <2>4, <2>5
  <1>3. ASSUME NEW v \in Verdicts, RecordBaseline(v)
        PROVE  Works /\ Loops
    <2>1. /\ job.pc = "judge" /\ iters' = [iters EXCEPT ![job.run] = <<v>>]
          /\ job' = [job EXCEPT !.kept = 1, !.pc = "context"]
          /\ UNCHANGED <<runs, learned, importer, recorder, card>>
      BY <1>3 DEF RecordBaseline, At
    <2>2. Shape /\ IsJob(job) /\ job.run \in DOMAIN runs /\ DOMAIN iters = DOMAIN runs
      BY <2>1, RowOf
    <2>3. job'.pc = "context" /\ job'.req = job.req /\ job'.run = job.run
      BY <2>1, <2>2 DEF IsJob
    <2>4. <<v>> \in Seq(Verdicts) /\ <<v>> # <<>>
      OBVIOUS
    <2>5. Works
      BY <2>1, <2>2, <2>3, <2>4 DEF Works, Early, Late
    <2>6. Loops
      BY <2>1, <2>2, <2>3, <2>4 DEF Loops, Early
    <2> QED BY <2>5, <2>6
  <1>4. CASE ReadContext
    <2>1. PICK x : /\ job.pc = "context" /\ job' = [job EXCEPT !.pc = "loop"]
                   /\ runs' = [runs EXCEPT ![job.run].injected = x]
                   /\ UNCHANGED <<iters, learned, importer, recorder, card>>
      BY <1>4 DEF ReadContext, Goto, At
    <2>2. Shape /\ IsJob(job) /\ job.run \in DOMAIN runs
      BY <2>1, RowOf
    <2>3. job'.pc = "loop" /\ job'.req = job.req /\ job'.run = job.run
      BY <2>1, <2>2 DEF IsJob
    <2>4. Works
      BY <2>1, <2>2, <2>3, RowStamped DEF Works, Early, Late
    <2>5. Loops
      BY <2>1, <2>2, <2>3, RowStamped DEF Loops, Early
    <2> QED BY <2>4, <2>5
  <1>5. ASSUME NEW v \in Verdicts, RecordIteration(v)
        PROVE  Works /\ Loops
    <2> DEFINE x == Append(iters[job.run], v)
    <2>1. PICK kept, pc :
             /\ job.pc = "loop" /\ iters' = [iters EXCEPT ![job.run] = x]
             /\ UNCHANGED <<runs, learned, importer, recorder, card>>
             /\ pc \in {"halt", "keep", "loop"} /\ job' = [job EXCEPT !.kept = kept, !.pc = pc]
      <3> DEFINE n == Len(iters[job.run]) + 1
                 kept == IF v.safe THEN job.kept ELSE n
                 pc == IF ~v.safe THEN "halt" ELSE IF v.grade > Kept.grade THEN "keep" ELSE "loop"
      <3>1. /\ job.pc = "loop" /\ iters' = [iters EXCEPT ![job.run] = x]
            /\ UNCHANGED <<runs, learned, importer, recorder, card>>
            /\ job' = [job EXCEPT !.kept = kept, !.pc = pc]
        BY <1>5 DEF RecordIteration, At
      <3>2. pc \in {"halt", "keep", "loop"}
        OBVIOUS
      <3> HIDE DEF x, kept, pc
      <3> QED BY <3>1, <3>2
    <2>2. Shape /\ IsJob(job) /\ job.run \in DOMAIN runs /\ DOMAIN iters = DOMAIN runs
      BY <2>1, RowOf
    <2>3. job'.pc = pc /\ job'.req = job.req /\ job'.run = job.run
      BY <2>1, <2>2 DEF IsJob
    <2>4. iters[job.run] \in Seq(Verdicts) => x \in Seq(Verdicts) /\ x # <<>>
      OBVIOUS
    <2> HIDE DEF x
    <2>5. iters'[job.run] = x
      BY <2>1, <2>2
    <2>6. Works
      BY <2>1, <2>2, <2>3, <2>4, <2>5 DEF Works, Early, Late
    <2>7. Loops
      BY <2>1, <2>2, <2>3, <2>4, <2>5 DEF Loops, Early
    <2> QED BY <2>6, <2>7
  <1>6. CASE Compound
    <2>1. PICK n : /\ job.pc = "keep" /\ job' = [job EXCEPT !.kept = n, !.pc = "loop"]
                   /\ UNCHANGED <<runs, iters, importer, recorder, card>>
                   /\ \/ learned' = learned
                      \/ \E d : learned' = Append(learned,
                               [run |-> job.run, note |-> "fix", ref |-> n, delta |-> d])
      BY <1>6, Zenon DEF Compound, At
    <2>2. Shape /\ IsJob(job) /\ job.run \in DOMAIN runs /\ DOMAIN iters = DOMAIN runs
      BY <2>1, RowOf
    <2>3. job'.pc = "loop" /\ job'.req = job.req /\ job'.run = job.run
      BY <2>1, <2>2 DEF IsJob
    <2>4. Works
      BY <2>1, <2>2, <2>3 DEF Works, Early, Late
    <2>5. learned' = learned \/ \E l : l.run = job.run /\ learned' = Append(learned, l)
      BY <2>1
    <2>6. Loops
      BY <2>1, <2>2, <2>3, <2>5 DEF Loops, Early
    <2> QED BY <2>4, <2>6
  <1>7. ASSUME NEW status \in Terminal, Finish(status)
        PROVE  Works /\ Closes
    <2>1. /\ job.pc \in {"loop", "halt"} /\ FinishRun(job.run, status, Kept.grade)
          /\ job' = [job EXCEPT !.pc = IF job.req.kind = "loop" THEN "gate" ELSE "stamp"]
          /\ UNCHANGED <<iters, learned, importer, recorder, card>>
      BY <1>7 DEF Finish, Goto, At
    <2>2. Shape /\ IsJob(job) /\ job.run \in DOMAIN runs
      BY <2>1, RowOf
    <2>3. job'.pc \in {"gate", "stamp"} /\ job'.req = job.req /\ job'.run = job.run
      BY <2>1, <2>2 DEF IsJob
    <2>4. Works
      BY <2>1, <2>2, <2>3, RowFinished DEF Works, Early, Late
    <2>5. Closes
      BY <2>1, <2>2, <2>3, RowFinished DEF Closes, Late
    <2> QED BY <2>4, <2>5
  <1>8. CASE RecordFinished
    <2>1. /\ job.pc = "stamp" /\ job' = [job EXCEPT !.pc = "gate"]
          /\ runs' = [runs EXCEPT ![job.run].finished = TRUE]
          /\ UNCHANGED <<iters, learned, importer, recorder, card>>
      BY <1>8 DEF RecordFinished, Goto, At
    <2>2. Shape /\ IsJob(job) /\ job.run \in DOMAIN runs
      BY <2>1, RowOf
    <2>3. job'.pc = "gate" /\ job'.req = job.req /\ job'.run = job.run
      BY <2>1, <2>2 DEF IsJob
    <2>4. Works
      BY <2>1, <2>2, <2>3, RowStamped DEF Works, Early, Late
    <2>5. Settles
      BY <2>1, <2>2, <2>3, RowStamped DEF Settles, Late
    <2> QED BY <2>4, <2>5
  <1>9. CASE ApplyGate
    <2>1. PICK x : /\ job.pc = "gate" /\ job' = [job EXCEPT !.pc = "done", !.shippable = x]
                   /\ UNCHANGED <<runs, iters, learned, importer, recorder, card>>
      BY <1>9 DEF ApplyGate, At
    <2>2. Shape /\ IsJob(job) /\ job.run \in DOMAIN runs
      BY <2>1, RowOf
    <2>3. job'.pc = "done" /\ job'.req = job.req /\ job'.run = job.run
      BY <2>1, <2>2 DEF IsJob
    <2>4. Works
      BY <2>1, <2>2, <2>3 DEF Works, Early, Late
    <2>5. Settles
      BY <2>1, <2>2, <2>3 DEF Settles, Late
    <2> QED BY <2>4, <2>5
  <1>10. CASE KillJob
    BY <1>10 DEF KillJob, At, store, Killed
  <1> QED BY <1>1, <1>2, <1>3, <1>4, <1>5, <1>6, <1>7, <1>8, <1>9, <1>10 DEF RunNext
-----------------------------------------------------------------------------
(* Imported once.                                                            *)

(* The job's row is running until the loop closes it, and the row of a proof
   has its iterations from the baseline on; so is the row of an anchor. *)
Rows ==
    /\ \A r \in DOMAIN runs : iters[r] \in Seq(Verdicts)
    /\ job.pc # "idle" =>
          /\ job.pc \in Early \cup Late
          /\ job.pc \in Early => runs[job.run].status = "running"
          /\ job.pc \in Late => runs[job.run].status \in Terminal
          /\ job.req.kind = "proof" => /\ job.pc # "nothing"
                                       /\ job.pc # "judge" => iters[job.run] # <<>>
    /\ importer.pc = "close" => runs[importer.run].status = "running"

(* A learning belongs to a row that is there, and none to an open anchor. *)
Learned ==
    /\ IsList(learned) /\ \A k \in DOMAIN learned : learned[k].run \in DOMAIN runs
    /\ importer.pc = "close" => \A k \in DOMAIN learned : learned[k].run # importer.run

(* What the importer remembers: the keys of all that was imported, by anyone,
   and anchors of its own that are closed; the record at hand is not known. *)
Remembers ==
    /\ importer.pc \in {"next", "close", "learn"}
    /\ \A k \in DOMAIN learned :
          runs[learned[k].run].status = "imported" => Key(learned[k]) \in importer.existing
    /\ \A r \in importer.anchors : r \in DOMAIN runs /\ runs[r].status = "imported"
    /\ importer.pc \in {"close", "learn"} =>
          /\ importer.run \in DOMAIN runs /\ ~Known(importer.i)
          /\ <<runs[importer.run].target, runs[importer.run].lane>> = RunKey(importer.i)
    /\ importer.pc = "learn" => runs[importer.run].status = "imported"

Books == Rows /\ Learned /\ (importer.pc # "idle" => Remembers) /\ ImportedOnce

LEMMA BooksInitially == Init => Books
  <1>1. IsList(<<>>)
    BY DEF IsList
  <1> QED BY <1>1 DEF Init, Idle, Books, Rows, Learned, ImportedOnce

(* A set of numbers up to n has a greatest one: the finite sets of the numbers
   above its elements are well-founded under inclusion. *)
LEMMA Greatest ==
    ASSUME NEW n \in Nat, NEW T \in SUBSET (1..n), T # {}
    PROVE  LastOf(T) \in T
  <1> DEFINE R == StrictSubsetOrdering(1..n)
             above(x) == (x + 1)..n
             U == {above(x) : x \in T}
  <1>1. IsWellFoundedOn(R, FiniteSubsetsOf(1..n))
    BY FS_StrictSubsetOrderingWellFounded
  <1>2. U \subseteq FiniteSubsetsOf(1..n) /\ U # {}
    <2>1. \A x \in T : above(x) \subseteq 1..n /\ IsFiniteSet(above(x))
      BY FS_Interval
    <2> QED BY <2>1 DEF FiniteSubsetsOf
  <1>3. PICK u \in U : \A v \in U : ~(<<v, u>> \in R)
    <2> HIDE DEF R, U
    <2> QED BY <1>1, <1>2, WFMin
  <1>4. PICK x \in T : u = above(x)
    OBVIOUS
  <1>5. ASSUME NEW y \in T, x < y
        PROVE  FALSE
    <2>1. above(y) \subseteq above(x) /\ above(y) # above(x)
      <3>1. x \in 1..n /\ y \in 1..n
        BY <1>4, <1>5
      <3>2. y \in above(x) /\ y \notin above(y)
        BY <1>5, <3>1
      <3>3. \A z \in above(y) : z \in above(x)
        BY <1>5, <3>1
      <3> QED BY <3>2, <3>3
    <2> QED BY <1>2, <1>3, <1>4, <2>1 DEF StrictSubsetOrdering, FiniteSubsetsOf
  <1>6. \E g \in T : \A o \in T : o <= g
    BY <1>5
  <1> QED BY <1>6 DEF LastOf

(* The anchor that is found is one of the set it is looked for in. *)
LEMMA AnchorFound ==
    ASSUME Inv, Books, importer.pc = "next", Cached \cup Anchors(importer.i) # {},
           NEW r, r = LastOf(IF Cached # {} THEN Cached ELSE Anchors(importer.i))
    PROVE  /\ r \in DOMAIN runs /\ runs[r].status = "imported"
           /\ <<runs[r].target, runs[r].lane>> = RunKey(importer.i)
  <1> DEFINE S == IF Cached # {} THEN Cached ELSE Anchors(importer.i)
  <1>1. Remembers
    BY DEF Books
  <1>2. \A s \in S : /\ s \in DOMAIN runs /\ runs[s].status = "imported"
                     /\ <<runs[s].target, runs[s].lane>> = RunKey(importer.i)
    BY <1>1 DEF Cached, Anchors, Remembers
  <1>3. S # {}
    OBVIOUS
  <1>4. Len(runs) \in Nat /\ DOMAIN runs = 1..Len(runs)
    BY Appended DEF Inv, Shape
  <1> HIDE DEF S
  <1>5. LastOf(S) \in S
    BY <1>2, <1>3, <1>4, Greatest
  <1>6. r = LastOf(S)
    BY DEF S
  <1> QED BY <1>2, <1>5, <1>6

(* Keys stay what they are while rows keep their targets. *)
LEMMA KeysStay ==
    ASSUME Books, \A r \in DOMAIN runs : runs'[r].target = runs[r].target,
           NEW k \in DOMAIN learned
    PROVE  (<<runs[learned[k].run].target, learned[k].note, learned[k].ref>>
              = <<runs'[learned[k].run].target, learned[k].note, learned[k].ref>>)
  BY DEF Books, Learned

LEMMA JobKeepsBooks ==
    ASSUME Inv, Books, RunNext
    PROVE  Books'
  <1> USE DEF Books
  <1>1. CASE Opens
    <2>1. PICK target, lane, goal : CreateRun(NewRun(target, lane, goal))
      BY <1>1 DEF Opens
    <2>2. /\ \A r \in DOMAIN runs : r \in DOMAIN runs' /\ runs'[r] = runs[r] /\ iters'[r] = iters[r]
          /\ DOMAIN runs' = DOMAIN runs \cup {Len(runs) + 1}
          /\ runs'[Len(runs) + 1].status = "running" /\ iters'[Len(runs) + 1] = <<>>
      BY <2>1, RowAdded DEF Inv
    <2>3. importer.pc = "close" => importer.run \in DOMAIN runs
      BY DEF Inv, Apart
    <2>4. Rows'
      <3>1. \A r \in DOMAIN runs' : iters'[r] \in Seq(Verdicts)
        <4>1. <<>> \in Seq(Verdicts)
          OBVIOUS
        <4>2. \A r \in DOMAIN runs : iters[r] \in Seq(Verdicts)
          BY DEF Rows
        <4> QED BY <2>2, <4>1, <4>2
      <3>2. /\ job'.run = Len(runs) + 1 /\ job'.pc \in {"nothing", "judge"}
            /\ job'.req.kind = "proof" => job'.pc = "judge"
            /\ importer' = importer
        BY <1>1 DEF Opens
      <3>3. importer'.pc = "close" => runs'[importer'.run].status = "running"
        BY <2>2, <2>3, <3>2 DEF Rows
      <3> QED BY <2>2, <3>1, <3>2, <3>3 DEF Rows, Early, Late
    <2>5. Learned'
      BY <1>1, <2>2 DEF Opens, Learned
    <2>6. (importer.pc # "idle" => Remembers)'
      BY <1>1, <2>2 DEF Opens, Learned, Remembers, Known, CorpusKey, RunKey, Key
    <2>7. ImportedOnce'
      BY <1>1, <2>2 DEF Opens, Learned, ImportedOnce, Key
    <2> QED BY <2>4, <2>5, <2>6, <2>7
  <1>2. CASE Works /\ (Loops \/ Closes \/ Settles)
    <2> USE <1>2
    <2>1. /\ job.pc \in Early \cup Late /\ job.pc # "idle" /\ job'.pc \in Early \cup Late
          /\ job.run \in DOMAIN runs /\ job'.run = job.run /\ DOMAIN runs' = DOMAIN runs
          /\ importer' = importer
      BY DEF Works, Loops, Closes, Settles, Early, Late
    <2>2. importer.pc = "close" => importer.run \in DOMAIN runs /\ importer.run # job.run
      BY <2>1 DEF Inv, Apart
    <2>3. runs[job.run].status # "imported" /\ runs'[job.run].status # "imported"
      BY <2>1 DEF Rows, Loops, Closes, Settles, Early, Late, Terminal
    <2>4. \A r \in DOMAIN runs : /\ runs'[r].target = runs[r].target /\ runs'[r].lane = runs[r].lane
                                 /\ runs'[r].status = "imported" <=> runs[r].status = "imported"
      BY <2>3 DEF Works
    <2>5. Rows'
      <3>1. \A r \in DOMAIN runs' : iters'[r] \in Seq(Verdicts)
        BY <2>1 DEF Rows, Works
      <3>2. job'.pc \in Early => runs'[job'.run].status = "running"
        BY <2>1 DEF Rows, Loops, Closes, Settles, Early, Late
      <3>3. job'.pc \in Late => runs'[job'.run].status \in Terminal
        BY <2>1 DEF Rows, Loops, Closes, Settles, Early, Late
      <3>4. job'.req.kind = "proof" => /\ job'.pc # "nothing"
                                       /\ job'.pc # "judge" => iters'[job'.run] # <<>>
        <4>1. job'.req = job.req
          BY DEF Works
        <4>2. iters[job.run] \in Seq(Verdicts)
          BY <2>1 DEF Rows
        <4>3. CASE Loops
          BY <2>1, <4>1, <4>2, <4>3 DEF Rows, Loops, Early
        <4>4. CASE Closes \/ Settles
          BY <2>1, <4>1, <4>4 DEF Rows, Closes, Settles, Late
        <4> QED BY <1>2, <4>3, <4>4
      <3>5. importer'.pc = "close" => runs'[importer'.run].status = "running"
        BY <2>1, <2>2 DEF Rows, Works
      <3> QED BY <2>1, <3>1, <3>2, <3>3, <3>4, <3>5 DEF Rows
    <2>6. CASE learned' = learned
      <3>1. Learned'
        BY <2>1, <2>6 DEF Learned
      <3>2. (importer.pc # "idle" => Remembers)'
        BY <2>1, <2>4, <2>6 DEF Learned, Remembers, Known, CorpusKey, RunKey, Key
      <3>3. ImportedOnce'
        BY <2>1, <2>4, <2>6 DEF Learned, ImportedOnce, Key
      <3> QED BY <2>5, <3>1, <3>2, <3>3
    <2>7. CASE \E l : l.run = job.run /\ learned' = Append(learned, l)
      <3>1. PICK l : l.run = job.run /\ learned' = Append(learned, l)
        BY <2>7
      <3>2. /\ IsList(learned') /\ DOMAIN learned' = DOMAIN learned \cup {Len(learned) + 1}
            /\ \A k \in DOMAIN learned : learned'[k] = learned[k]
            /\ learned'[Len(learned) + 1] = l
        BY <3>1, Appended DEF Learned
      <3>3. Learned'
        BY <2>1, <2>2, <3>1, <3>2 DEF Learned
      <3>4. (importer.pc # "idle" => Remembers)'
        BY <2>1, <2>3, <2>4, <3>1, <3>2 DEF Learned, Remembers, Known, CorpusKey, RunKey, Key
      <3>5. ImportedOnce'
        BY <2>1, <2>3, <2>4, <3>1, <3>2 DEF Learned, ImportedOnce, Key
      <3> QED BY <2>5, <3>3, <3>4, <3>5
    <2> QED BY <2>6, <2>7 DEF Loops, Closes, Settles
  <1>3. CASE Killed
    BY <1>3 DEF Killed, Idle, Rows, Learned, Remembers, Known, CorpusKey, RunKey, Key, ImportedOnce
  <1> QED BY <1>1, <1>2, <1>3, JobDelta

LEMMA ImportKeepsBooks ==
    ASSUME Inv, Books, ImportNext
    PROVE  Books'
  <1> USE DEF Books
  <1>1. job' = job
    BY Zenon DEF ImportNext, BeginImport, SkipRecord, FindAnchor, CloseAnchor, ImportRecord,
                 KillImporter, ImporterAt
  <1>2. job.pc # "idle" => job.run \in DOMAIN runs
    BY JobAt
  <1>3. ASSUME UNCHANGED <<runs, iters, learned>>, importer'.pc # "close"
        PROVE  Rows' /\ Learned' /\ ImportedOnce'
    BY <1>1, <1>3 DEF Rows, Learned, ImportedOnce, Key
  <1>4. CASE BeginImport
    <2>1. /\ UNCHANGED <<runs, iters, learned>>
          /\ importer' = [pc |-> "next", i |-> 1, run |-> 0, anchors |-> {},
                          existing |-> {Key(learned[k]) : k \in DOMAIN learned}]
      BY <1>4 DEF BeginImport
    <2>2. Remembers'
      BY <2>1 DEF Remembers, Key
    <2> QED BY <1>3, <2>1, <2>2
  <1>5. CASE SkipRecord
    <2>1. /\ UNCHANGED <<runs, iters, learned>> /\ importer.pc = "next" /\ IsImporter(importer)
          /\ importer' = Idle \/ importer' = [importer EXCEPT !.i = @ + 1]
      BY <1>5 DEF SkipRecord, ImporterAt, Inv, Apart
    <2>2. CASE importer' = Idle
      BY <1>3, <2>1, <2>2 DEF Idle
    <2>3. CASE importer' = [importer EXCEPT !.i = @ + 1]
      <3>1. /\ importer'.pc = "next" /\ importer'.existing = importer.existing
            /\ importer'.anchors = importer.anchors
        BY <2>1, <2>3 DEF IsImporter
      <3>2. Remembers'
        BY <2>1, <3>1 DEF Remembers, Key
      <3> QED BY <1>3, <2>1, <3>1, <3>2
    <2> QED BY <2>1, <2>2, <2>3
  <1>6. CASE FindAnchor
    <2>1. /\ importer.pc = "next" /\ IsImporter(importer) /\ ~Known(importer.i) /\ learned' = learned
      BY <1>6 DEF FindAnchor, ImporterAt, Inv, Apart
    <2>2. CASE Cached \cup Anchors(importer.i) # {}
      <3>1. PICK r : /\ r = LastOf(IF Cached # {} THEN Cached ELSE Anchors(importer.i))
                     /\ importer' = [importer EXCEPT !.pc = "learn", !.run = r]
                     /\ UNCHANGED <<runs, iters>>
        BY <1>6, <2>2 DEF FindAnchor, ImportGoto
      <3>2. /\ r \in DOMAIN runs /\ runs[r].status = "imported"
            /\ <<runs[r].target, runs[r].lane>> = RunKey(importer.i)
        BY <2>1, <2>2, <3>1, AnchorFound
      <3>3. /\ importer'.pc = "learn" /\ importer'.run = r /\ importer'.i = importer.i
            /\ importer'.existing = importer.existing /\ importer'.anchors = importer.anchors
        BY <2>1, <3>1 DEF IsImporter
      <3>4. Remembers'
        BY <2>1, <3>1, <3>2, <3>3 DEF Remembers, Known, CorpusKey, RunKey, Key
      <3> QED BY <1>3, <2>1, <3>1, <3>3, <3>4
    <2>3. CASE Cached \cup Anchors(importer.i) = {}
      <3> DEFINE rec == Corpus[importer.i]
      <3>1. /\ CreateRun(NewRun(rec.target, rec.lane, Anchor))
            /\ importer' = [importer EXCEPT !.pc = "close", !.run = Len(runs) + 1]
        BY <1>6, <2>3 DEF FindAnchor, ImportGoto
      <3>2. /\ importer'.pc = "close" /\ importer'.run = Len(runs) + 1 /\ importer'.i = importer.i
            /\ importer'.existing = importer.existing /\ importer'.anchors = importer.anchors
        BY <2>1, <3>1 DEF IsImporter
      <3>3. /\ \A r \in DOMAIN runs : r \in DOMAIN runs' /\ runs'[r] = runs[r] /\ iters'[r] = iters[r]
            /\ DOMAIN runs' = DOMAIN runs \cup {Len(runs) + 1} /\ Len(runs) + 1 \notin DOMAIN runs
            /\ runs'[Len(runs) + 1].status = "running" /\ iters'[Len(runs) + 1] = <<>>
            /\ runs'[Len(runs) + 1].target = rec.target /\ runs'[Len(runs) + 1].lane = rec.lane
        BY <3>1, RowAdded DEF Inv
      <3>4. Rows'
        <4>1. <<>> \in Seq(Verdicts)
          OBVIOUS
        <4>2. \A r \in DOMAIN runs' : iters'[r] \in Seq(Verdicts)
          BY <3>3, <4>1 DEF Rows
        <4> QED BY <1>1, <1>2, <3>2, <3>3, <4>2 DEF Rows
      <3>5. Learned'
        BY <2>1, <3>2, <3>3 DEF Learned
      <3>6. Remembers'
        BY <2>1, <3>2, <3>3 DEF Learned, Remembers, Known, CorpusKey, RunKey, Key
      <3>7. ImportedOnce'
        BY <2>1, <3>3 DEF Learned, ImportedOnce, Key
      <3> QED BY <3>4, <3>5, <3>6, <3>7
    <2> QED BY <2>2, <2>3
  <1>7. CASE CloseAnchor
    <2>1. /\ importer.pc = "close" /\ IsImporter(importer) /\ importer.run \in DOMAIN runs
          /\ job.pc # "idle" => importer.run # job.run
          /\ FinishRun(importer.run, "imported", None)
          /\ importer' = [importer EXCEPT !.pc = "learn", !.run = importer.run]
          /\ UNCHANGED <<iters, learned>>
      BY <1>7 DEF CloseAnchor, ImporterAt, ImportGoto, Inv, Apart
    <2>2. /\ importer'.pc = "learn" /\ importer'.run = importer.run /\ importer'.i = importer.i
          /\ importer'.existing = importer.existing /\ importer'.anchors = importer.anchors
      BY <2>1 DEF IsImporter
    <2>3. /\ DOMAIN runs' = DOMAIN runs /\ runs'[importer.run].status = "imported"
          /\ runs'[importer.run].target = runs[importer.run].target
          /\ runs'[importer.run].lane = runs[importer.run].lane
          /\ \A o \in DOMAIN runs \ {importer.run} : runs'[o] = runs[o]
      BY <2>1, RowFinished DEF Inv
    <2>4. \A k \in DOMAIN learned : /\ learned[k].run \in DOMAIN runs \ {importer.run}
                                    /\ runs'[learned[k].run] = runs[learned[k].run]
      BY <2>1, <2>3 DEF Learned
    <2>5. Rows'
      BY <1>1, <1>2, <2>1, <2>2, <2>3 DEF Rows
    <2>6. Learned'
      BY <2>1, <2>2, <2>3 DEF Learned
    <2>7. Remembers'
      BY <2>1, <2>2, <2>3, <2>4 DEF Remembers, Known, CorpusKey, RunKey, Key
    <2>8. ImportedOnce'
      BY <2>1, <2>4 DEF ImportedOnce, Key
    <2> QED BY <2>5, <2>6, <2>7, <2>8
  <1>8. CASE ImportRecord
    <2> DEFINE rec == Corpus[importer.i]
               l == [run |-> importer.run, note |-> Sanitized[rec.note], ref |-> rec.ref, delta |-> rec.delta]
    <2>1. /\ importer.pc = "learn" /\ IsImporter(importer) /\ UNCHANGED <<runs, iters>>
          /\ learned' = Append(learned, l)
          /\ importer' = [importer EXCEPT !.pc = "next", !.i = @ + 1, !.anchors = @ \cup {importer.run},
                                          !.existing = @ \cup {CorpusKey(importer.i)}]
      BY <1>8 DEF ImportRecord, ImporterAt, Inv, Apart
    <2>2. /\ importer'.pc = "next" /\ importer'.anchors = importer.anchors \cup {importer.run}
          /\ importer'.existing = importer.existing \cup {CorpusKey(importer.i)}
      BY <2>1 DEF IsImporter
    <2>3. /\ importer.run \in DOMAIN runs /\ runs[importer.run].status = "imported"
          /\ ~Known(importer.i) /\ runs[importer.run].target = rec.target
      BY <2>1 DEF Remembers, RunKey
    <2>4. l.run = importer.run /\ Key(l) = CorpusKey(importer.i)
      BY <2>3 DEF Key, CorpusKey
    <2> HIDE DEF l, rec
    <2>5. /\ IsList(learned') /\ DOMAIN learned' = DOMAIN learned \cup {Len(learned) + 1}
          /\ Len(learned) + 1 \notin DOMAIN learned
          /\ \A k \in DOMAIN learned : learned'[k] = learned[k]
          /\ learned'[Len(learned) + 1] = l
      BY <2>1, Appended DEF Learned
    <2>6. Rows'
      BY <1>1, <2>1, <2>2 DEF Rows
    <2>7. Learned'
      BY <2>1, <2>2, <2>3, <2>4, <2>5 DEF Learned
    <2>8. Remembers'
      BY <2>1, <2>2, <2>3, <2>4, <2>5 DEF Remembers, Key
    <2>9. \A k \in DOMAIN learned :
             runs[learned[k].run].status = "imported" => Key(learned[k]) # Key(l)
      BY <2>1, <2>3, <2>4 DEF Remembers, Known
    <2>10. ImportedOnce'
      BY <2>1, <2>5, <2>9 DEF ImportedOnce, Key
    <2> QED BY <2>6, <2>7, <2>8, <2>10
  <1>9. CASE KillImporter
    <2>1. UNCHANGED <<runs, iters, learned>> /\ importer'.pc = "idle"
      BY <1>9 DEF KillImporter, Idle
    <2> QED BY <1>3, <2>1
  <1> QED BY <1>4, <1>5, <1>6, <1>7, <1>8, <1>9 DEF ImportNext

LEMMA PublishKeepsBooks ==
    ASSUME Inv, Books, PublishNext \/ UNCHANGED vars
    PROVE  Books'
  <1>1. UNCHANGED <<runs, iters, learned, importer>> /\ (job' = job \/ job' = Idle)
    BY Zenon DEF PublishNext, BeginProof, BeginRecord, ReadRow, WriteCard, RefuseCard, WriteReport,
                 KillRecorder, RecorderAt, store, vars
  <1> QED BY <1>1 DEF Books, Rows, Learned, Remembers, Known, CorpusKey, RunKey, Key, ImportedOnce, Idle

LEMMA BooksAreKept == Spec => [](Inv /\ Books)
  <1>1. Inv /\ Books /\ [Next]_vars => (Inv /\ Books)'
    BY JobSteps, PublishSteps, ImportSteps, Stutter, JobKeepsBooks, PublishKeepsBooks,
       ImportKeepsBooks DEF Next
  <1> QED BY Initial, BooksInitially, <1>1, PTL DEF Spec

(* Over repeated imports of any corpus, killed anywhere and interleaved with
   runs that write learnings of their own, no two imported learnings are the
   same once sanitized. *)
THEOREM ImportedOnceTheorem == Spec => []ImportedOnce
  <1>1. Books => ImportedOnce
    BY DEF Books
  <1> QED BY BooksAreKept, <1>1, PTL

-----------------------------------------------------------------------------
(* Published is settled.                                                     *)

Over(r) == r \in DOMAIN runs /\ runs[r].status \in Terminal

(* Nobody works on the run any more. *)
Left(r) == Over(r) /\ (job.pc # "idle" => job.run # r)

ProofTrue(r, p) ==
    /\ Left(r) /\ iters[r] # <<>> /\ p.status = runs[r].status
    /\ p.before = Head(Grades(r)) /\ p.after = Last(Grades(r)) /\ p.carried = ProofFields(r)

(* What the recorder has read, and what it wrote, is what the store says. *)
Reads ==
    /\ recorder.pc \in {"row", "rows"} =>
          /\ recorder.run \in DOMAIN runs
          /\ recorder.proof # None => ProofTrue(recorder.run, recorder.proof)
    /\ recorder.pc = "rows" =>
          /\ Over(recorder.run)
          /\ recorder.status = runs[recorder.run].status /\ recorder.final = runs[recorder.run].final

Wrote ==
    card.run # 0 =>
        /\ Over(card.run)
        /\ card.status = runs[card.run].status /\ card.final = FinalOrF(runs[card.run].final)
        /\ card.traj = TrajectoryOr(card.run, runs[card.run].final)
        /\ card.proof # None => ProofTrue(card.run, card.proof)

(* No step changes a row that is over but for the stamp and the learnings of the
   run that is still in its last steps. *)
LEMMA OverStays ==
    ASSUME Inv, Books, [Next]_vars, NEW r, Over(r)
    PROVE  /\ Over(r)' /\ runs'[r].status = runs[r].status /\ runs'[r].final = runs[r].final
           /\ iters'[r] = iters[r]
           /\ Left(r) => Left(r)' /\ runs'[r] = runs[r]
                         /\ \/ learned' = learned
                            \/ \E l : l.run # r /\ learned' = Append(learned, l)
  <1> USE DEF Books
  <1>0. r \in DOMAIN runs /\ runs[r].status \in Terminal
    BY DEF Over
  <1>1. CASE Opens
    <2>1. PICK target, lane, goal : CreateRun(NewRun(target, lane, goal))
      BY <1>1 DEF Opens
    <2>2. /\ r \in DOMAIN runs' /\ runs'[r] = runs[r] /\ iters'[r] = iters[r]
          /\ Len(runs) + 1 \notin DOMAIN runs
      BY <1>0, <2>1, RowAdded DEF Inv
    <2> QED BY <1>0, <1>1, <2>2 DEF Opens, Over, Left
  <1>2. CASE Works /\ (Loops \/ Closes \/ Settles)
    <2>1. /\ job.pc # "idle" /\ job'.run = job.run /\ DOMAIN runs' = DOMAIN runs
      BY <1>2 DEF Works, Early, Late
    <2>2. CASE r # job.run
      <3>1. runs'[r] = runs[r] /\ iters'[r] = iters[r]
        BY <1>0, <1>2, <2>2 DEF Works
      <3>2. learned' = learned \/ \E l : l.run # r /\ learned' = Append(learned, l)
        BY <1>2, <2>2 DEF Loops, Closes, Settles
      <3> QED BY <1>0, <2>1, <2>2, <3>1, <3>2 DEF Over, Left
    <2>3. CASE r = job.run
      <3>1. Settles
        BY <1>0, <1>2, <2>1, <2>3 DEF Rows, Loops, Closes, Early, Terminal
      <3>2. ~Left(r)
        BY <2>1, <2>3 DEF Left
      <3> QED BY <1>0, <2>1, <2>3, <3>1, <3>2 DEF Over, Settles
    <2> QED BY <2>2, <2>3
  <1>3. CASE UNCHANGED <<runs, iters, learned>> /\ (job' = job \/ job' = Idle)
    BY <1>0, <1>3 DEF Over, Left, Idle
  <1>4. CASE FindAnchor
    <2>1. job' = job /\ learned' = learned
      BY <1>4 DEF FindAnchor, ImporterAt
    <2>2. CASE UNCHANGED <<runs, iters>>
      BY <1>3, <2>1, <2>2
    <2>3. CASE \E target, lane : CreateRun(NewRun(target, lane, Anchor))
      <3>1. r \in DOMAIN runs' /\ runs'[r] = runs[r] /\ iters'[r] = iters[r]
        BY <1>0, <2>3, RowAdded DEF Inv
      <3> QED BY <1>0, <2>1, <3>1 DEF Over, Left
    <2> QED BY <1>4, <2>2, <2>3 DEF FindAnchor
  <1>5. CASE CloseAnchor
    <2>1. /\ importer.pc = "close" /\ importer.run \in DOMAIN runs
          /\ FinishRun(importer.run, "imported", None)
          /\ UNCHANGED <<job, iters, learned>>
      BY <1>5 DEF CloseAnchor, ImporterAt, Inv, Apart
    <2>2. r # importer.run
      BY <1>0, <2>1 DEF Rows, Terminal
    <2>3. DOMAIN runs' = DOMAIN runs /\ runs'[r] = runs[r]
      BY <1>0, <2>1, <2>2, RowFinished DEF Inv
    <2> QED BY <1>0, <2>1, <2>3 DEF Over, Left
  <1>6. CASE ImportRecord
    <2> DEFINE l == [run |-> importer.run, note |-> Sanitized[Corpus[importer.i].note],
                     ref |-> Corpus[importer.i].ref, delta |-> Corpus[importer.i].delta]
    <2>1. importer.pc = "learn" /\ UNCHANGED <<job, runs, iters>> /\ learned' = Append(learned, l)
      BY <1>6 DEF ImportRecord, ImporterAt
    <2>2. l.run # r
      BY <1>0, <2>1 DEF Remembers, Terminal
    <2> HIDE DEF l
    <2> QED BY <1>0, <2>1, <2>2 DEF Over, Left
  <1>7. BeginImport \/ SkipRecord \/ KillImporter \/ PublishNext \/ UNCHANGED vars =>
           UNCHANGED <<runs, iters, learned>> /\ (job' = job \/ job' = Idle)
    BY Zenon DEF BeginImport, SkipRecord, KillImporter, ImporterAt, PublishNext, BeginProof, BeginRecord,
                 ReadRow, WriteCard, RefuseCard, WriteReport, KillRecorder, RecorderAt, store, vars
  <1>8. CASE RunNext
    BY <1>1, <1>2, <1>3, <1>8, JobDelta DEF Killed
  <1> QED BY <1>3, <1>4, <1>5, <1>6, <1>7, <1>8 DEF Next, ImportNext

LEMMA RowsStay ==
    ASSUME Inv, Books, [Next]_vars, NEW r \in DOMAIN runs
    PROVE  r \in DOMAIN runs'
  <1>1. CASE \E target, lane, goal : CreateRun(NewRun(target, lane, goal))
    BY <1>1, RowAdded DEF Inv
  <1>2. CASE RunNext
    BY <1>1, <1>2, JobDelta DEF Opens, Works, Killed
  <1>3. CASE CloseAnchor
    BY <1>3, RowFinished DEF CloseAnchor, ImporterAt, Inv, Apart
  <1>4. CASE UNCHANGED runs
    BY <1>4
  <1>5. FindAnchor => UNCHANGED runs \/ \E target, lane : CreateRun(NewRun(target, lane, Anchor))
    BY Zenon DEF FindAnchor
  <1>6. BeginImport \/ SkipRecord \/ ImportRecord \/ KillImporter \/ PublishNext \/ UNCHANGED vars =>
           UNCHANGED runs
    BY Zenon DEF BeginImport, SkipRecord, ImportRecord, KillImporter, ImporterAt, PublishNext, BeginProof,
                 BeginRecord, ReadRow, WriteCard, RefuseCard, WriteReport, KillRecorder, RecorderAt, store, vars
  <1> QED BY <1>1, <1>2, <1>3, <1>4, <1>5, <1>6 DEF Next, ImportNext

(* So what a proof pack was made of stays true of a run that was left. *)
LEMMA ProofStays ==
    ASSUME Inv, Books, [Next]_vars, NEW r, NEW p, ProofTrue(r, p)
    PROVE  ProofTrue(r, p)'
  <1>1. Over(r) /\ Left(r)
    BY DEF ProofTrue, Left
  <1>2. /\ Left(r)' /\ runs'[r] = runs[r] /\ iters'[r] = iters[r]
        /\ learned' = learned \/ \E l : l.run # r /\ learned' = Append(learned, l)
    BY <1>1, OverStays
  <1>3. Grades(r)' = Grades(r)
    BY <1>2 DEF Grades
  <1>4. (\E i \in DOMAIN learned : learned[i].run = r /\ learned[i].ref # None)'
          <=> (\E i \in DOMAIN learned : learned[i].run = r /\ learned[i].ref # None)
    <2>1. CASE learned' = learned
      BY <2>1
    <2>2. CASE \E l : l.run # r /\ learned' = Append(learned, l)
      <3>1. PICK l : l.run # r /\ learned' = Append(learned, l)
        BY <2>2
      <3>2. /\ DOMAIN learned' = DOMAIN learned \cup {Len(learned) + 1}
            /\ \A k \in DOMAIN learned : learned'[k] = learned[k]
            /\ learned'[Len(learned) + 1] = l
        BY <3>1, Appended DEF Books, Learned
      <3> QED BY <3>1, <3>2
    <2> QED BY <1>2, <2>1, <2>2
  <1>5. ProofFields(r)' = ProofFields(r)
    BY <1>2, <1>4 DEF ProofFields
  <1> QED BY <1>2, <1>3, <1>5 DEF ProofTrue

Publishing == Reads /\ Wrote

(* A step that leaves the recorder and the card alone. *)
LEMMA OthersKeepPublishing ==
    ASSUME Inv, Books, Publishing, [Next]_vars, UNCHANGED <<recorder, card>>
    PROVE  Publishing'
  <1> USE DEF Publishing
  <1>1. PICK r, p : r = recorder.run /\ p = recorder.proof
    OBVIOUS
  <1>2. PICK c, q : c = card.run /\ q = card.proof
    OBVIOUS
  <1>3. recorder.pc \in {"row", "rows"} => r \in DOMAIN runs'
    <2>1. \A o \in DOMAIN runs : o \in DOMAIN runs'
      BY RowsStay
    <2> QED BY <1>1, <2>1 DEF Reads
  <1>4. recorder.pc \in {"row", "rows"} /\ p # None => ProofTrue(r, p)'
    BY <1>1, ProofStays DEF Reads
  <1>5. recorder.pc = "rows" => /\ Over(r)' /\ runs'[r].status = runs[r].status
                                /\ runs'[r].final = runs[r].final
    BY <1>1, OverStays DEF Reads
  <1>6. Reads'
    BY <1>1, <1>3, <1>4, <1>5 DEF Reads, Over, ProofTrue, Left, Grades, ProofFields
  <1>7. c # 0 => /\ Over(c)' /\ runs'[c].status = runs[c].status /\ runs'[c].final = runs[c].final
                 /\ iters'[c] = iters[c]
    BY <1>2, OverStays DEF Wrote
  <1>8. c # 0 /\ q # None => ProofTrue(c, q)'
    BY <1>2, ProofStays DEF Wrote
  <1>9. Wrote'
    BY <1>2, <1>7, <1>8 DEF Wrote, Over, ProofTrue, Left, Grades, ProofFields, TrajectoryOr, FinalOrF
  <1> QED BY <1>6, <1>9

LEMMA PublishKeepsPublishing ==
    ASSUME Inv, Books, Publishing, PublishNext
    PROVE  Publishing'
  <1> USE DEF Publishing
  <1>1. UNCHANGED <<runs, iters, learned>> /\ (job' = job \/ job' = Idle)
    BY Zenon DEF PublishNext, BeginProof, BeginRecord, ReadRow, WriteCard, RefuseCard, WriteReport,
                 KillRecorder, RecorderAt, store
  <1>2. ASSUME NEW r, Over(r)
        PROVE  Over(r)'
    BY <1>1, <1>2 DEF Over
  <1>3. ASSUME NEW r, NEW p, ProofTrue(r, p)
        PROVE  ProofTrue(r, p)'
    <2>1. Left(r)'
      BY <1>1, <1>3 DEF ProofTrue, Left, Over, Idle
    <2>2. Grades(r)' = Grades(r) /\ ProofFields(r)' = ProofFields(r)
      BY <1>1 DEF Grades, ProofFields
    <2> QED BY <1>1, <1>3, <2>1, <2>2 DEF ProofTrue
  <1>4. ASSUME card' = card
        PROVE  Wrote'
    <2>1. PICK c, q : c = card.run /\ q = card.proof
      OBVIOUS
    <2>2. c # 0 /\ q # None => ProofTrue(c, q)'
      BY <1>3, <2>1 DEF Wrote
    <2>3. c # 0 => Over(c)'
      BY <1>2, <2>1 DEF Wrote
    <2> QED
      BY <1>1, <1>4, <2>1, <2>2, <2>3
      DEF Wrote, Over, ProofTrue, Left, Grades, ProofFields, TrajectoryOr, FinalOrF
  <1>5. CASE BeginProof
    <2> DEFINE proof == [status |-> runs[job.run].status, before |-> Head(Grades(job.run)),
                         after |-> Last(Grades(job.run)), carried |-> ProofFields(job.run)]
    <2>1. /\ job.pc = "done" /\ job.req.kind = "proof" /\ job' = Idle /\ card' = card
          /\ recorder' = [pc |-> "row", run |-> job.run, proof |-> proof]
      BY <1>5 DEF BeginProof
    <2>2. /\ job.run \in DOMAIN runs /\ runs[job.run].status \in Terminal /\ iters[job.run] # <<>>
      BY <2>1, JobAt DEF Books, Rows, Late
    <2>3. PICK r, p : r = job.run /\ p = proof
      OBVIOUS
    <2>4. ProofTrue(r, p)'
      <3>1. Left(r)'
        BY <1>1, <2>1, <2>2, <2>3 DEF Left, Over, Idle
      <3>2. /\ p.status = runs[r].status /\ p.before = Head(Grades(r))
            /\ p.after = Last(Grades(r)) /\ p.carried = ProofFields(r)
        BY <2>3
      <3>3. iters'[r] # <<>> /\ runs'[r].status = runs[r].status
        BY <1>1, <2>2, <2>3
      <3>4. Head(Grades(r))' = Head(Grades(r)) /\ Last(Grades(r))' = Last(Grades(r))
            /\ ProofFields(r)' = ProofFields(r)
        BY <1>1 DEF Grades, ProofFields
      <3> QED BY <3>1, <3>2, <3>3, <3>4 DEF ProofTrue
    <2>5. recorder'.pc = "row" /\ recorder'.run = r /\ recorder'.proof = p
      <3> HIDE DEF proof
      <3> QED BY <2>1, <2>3
    <2>6. Reads'
      BY <1>1, <2>2, <2>3, <2>4, <2>5 DEF Reads, ProofTrue, Left, Over, Grades, ProofFields
    <2> QED BY <1>4, <2>1, <2>6
  <1>6. ASSUME NEW r \in DOMAIN runs, BeginRecord(r)
        PROVE  Publishing'
    <2>1. recorder' = [pc |-> "row", run |-> r, proof |-> None] /\ card' = card
      BY <1>6 DEF BeginRecord
    <2>2. Reads'
      BY <1>1, <2>1 DEF Reads
    <2> QED BY <1>4, <2>1, <2>2
  <1>7. CASE ReadRow
    <2>1. /\ recorder.pc = "row" /\ card' = card
          /\ \/ /\ runs[recorder.run].status \in Terminal
                /\ recorder' = [pc |-> "rows", run |-> recorder.run, proof |-> recorder.proof,
                                status |-> runs[recorder.run].status, final |-> runs[recorder.run].final]
             \/ recorder' = Idle
      BY <1>7 DEF ReadRow, RecorderAt
    <2>2. CASE recorder' = Idle
      <3>1. Reads'
        BY <2>2 DEF Reads, Idle
      <3> QED BY <1>4, <2>1, <3>1
    <2>3. CASE recorder' # Idle
      <3>1. PICK r, p : r = recorder.run /\ p = recorder.proof
        OBVIOUS
      <3>2. /\ recorder'.pc = "rows" /\ recorder'.run = r /\ recorder'.proof = p
            /\ recorder'.status = runs[r].status /\ recorder'.final = runs[r].final
        BY <2>1, <2>3, <3>1
      <3>3. r \in DOMAIN runs /\ runs[r].status \in Terminal
        BY <2>1, <2>3, <3>1 DEF Reads
      <3>4. p # None => ProofTrue(r, p)'
        BY <1>3, <2>1, <3>1 DEF Reads
      <3>5. Reads'
        BY <1>1, <3>2, <3>3, <3>4 DEF Reads, Over, ProofTrue, Left, Grades, ProofFields
      <3> QED BY <1>4, <2>1, <3>5
    <2> QED BY <2>2, <2>3
  <1>8. CASE WriteCard
    <2>1. PICK r, p : r = recorder.run /\ p = recorder.proof
      OBVIOUS
    <2>2. /\ recorder.pc = "rows" /\ recorder' = [pc |-> "report", run |-> r]
          /\ card' = [run |-> r, status |-> recorder.status, final |-> FinalOrF(recorder.final),
                      traj |-> TrajectoryOr(r, recorder.final), proof |-> p]
      BY <1>8, <2>1 DEF WriteCard, RecorderAt
    <2>3. /\ Over(r) /\ recorder.status = runs[r].status /\ recorder.final = runs[r].final
          /\ p # None => ProofTrue(r, p)
      BY <2>1, <2>2 DEF Reads
    <2>4. Over(r)' /\ (p # None => ProofTrue(r, p)')
      BY <1>2, <1>3, <2>3
    <2>5. /\ card'.run = r /\ card'.proof = p /\ card'.status = runs[r].status
          /\ card'.final = FinalOrF(runs[r].final) /\ card'.traj = TrajectoryOr(r, runs[r].final)
      BY <2>2, <2>3
    <2>6. Wrote'
      BY <1>1, <2>4, <2>5 DEF Wrote, Over, ProofTrue, Left, Grades, ProofFields, TrajectoryOr, FinalOrF
    <2>7. Reads'
      BY <2>2 DEF Reads
    <2> QED BY <2>6, <2>7
  <1>9. CASE RefuseCard \/ WriteReport \/ KillRecorder
    <2>1. recorder' = Idle /\ card' = card
      BY <1>9 DEF RefuseCard, WriteReport, KillRecorder
    <2>2. Reads'
      BY <2>1 DEF Reads, Idle
    <2> QED BY <1>4, <2>1, <2>2
  <1> QED BY <1>5, <1>6, <1>7, <1>8, <1>9 DEF PublishNext

LEMMA PublishingIsKept == Spec => [](Inv /\ Books /\ Publishing)
  <1>1. Init => Publishing
    BY DEF Init, Idle, Publishing, Reads, Wrote
  <1>2. ASSUME Inv, Books, Publishing, RunNext \/ ImportNext \/ UNCHANGED vars
        PROVE  Publishing'
    <2>1. CASE RunNext
      <3>1. UNCHANGED <<recorder, card>>
        BY <1>2, <2>1, JobDelta DEF Opens, Works, Killed
      <3> QED BY <1>2, <2>1, <3>1, OthersKeepPublishing DEF Next
    <2>2. CASE ImportNext \/ UNCHANGED vars
      <3>1. UNCHANGED <<recorder, card>>
        BY <2>2, Zenon DEF vars, ImportNext, BeginImport, SkipRecord, FindAnchor, CloseAnchor,
                           ImportRecord, KillImporter, ImporterAt
      <3> QED BY <1>2, <2>2, <3>1, OthersKeepPublishing DEF Next
    <2> QED BY <1>2, <2>1, <2>2
  <1>3. Inv /\ Books /\ Publishing /\ [Next]_vars => Publishing'
    BY <1>2, PublishKeepsPublishing DEF Next
  <1> QED BY BooksAreKept, <1>1, <1>3, PTL DEF Spec

(* A published card stays true of the run it is of, its proof pack included:
   the recorder reads a row that is over, and no process changes the row, its
   iterations or, once it was left, what the proof pack was made of. *)
THEOREM PublishedTheorem == Spec => []PublishedIsSettled
  <1>1. Wrote => PublishedIsSettled
    <2>1. ASSUME Wrote, card.run # 0, card.proof # None
          PROVE  /\ card.proof.status = card.status
                 /\ card.proof.before = Head(card.traj) /\ card.proof.after = Last(card.traj)
                 /\ card.proof.carried = ProofFields(card.run)
      BY <2>1 DEF Wrote, ProofTrue, TrajectoryOr
    <2> QED BY <2>1 DEF Wrote, PublishedIsSettled
  <1> QED BY PublishingIsKept, <1>1, PTL DEF Publishing

-----------------------------------------------------------------------------
(* Types.                                                                    *)

StatusesOK ==
    \A r \in DOMAIN runs : runs[r].status \in Statuses /\ runs[r].finished \in BOOLEAN

ConfirmsOK ==
    \A k \in DOMAIN confirms : /\ confirms[k].run \in DOMAIN runs
                               /\ confirms[k].confirmed \in BOOLEAN

(* The kept verdict is none, or one of those on record. *)
KeptOK == job.pc # "idle" => job.req \in Requests /\ job.kept \in 0..Len(iters[job.run])

(* The importer is at a record of the file, or past the last. *)
PlaceOK ==
    /\ importer.pc # "idle" => importer.i \in Nat \ {0}
    /\ importer.pc \in {"close", "learn"} => importer.i <= Len(Corpus)

RecorderOK ==
    /\ recorder.pc \in {"idle", "row", "rows", "report"}
    /\ recorder.pc # "idle" => recorder.run \in DOMAIN runs
    /\ card.run \in {0} \cup DOMAIN runs /\ report.run \in {0} \cup DOMAIN runs

Typed == StatusesOK /\ ConfirmsOK /\ KeptOK /\ PlaceOK /\ RecorderOK

(* The ways the rows change. *)
RowsChange ==
    \/ UNCHANGED runs
    \/ \E target, lane, goal : CreateRun(NewRun(target, lane, goal))
    \/ \E r \in DOMAIN runs : \E status \in Statuses : \E final : FinishRun(r, status, final)
    \/ \E r \in DOMAIN runs : runs' = [runs EXCEPT ![r].finished = TRUE]
    \/ \E r \in DOMAIN runs : \E x : runs' = [runs EXCEPT ![r].injected = x]

LEMMA RowsChanged ==
    ASSUME Inv, [Next]_vars
    PROVE  RowsChange
  <1>1. ASSUME NEW req \in Requests, Start(req)
        PROVE  RowsChange
    <2>1. \E target, lane, goal : CreateRun(NewRun(target, lane, goal))
      BY <1>1, Zenon DEF Start
    <2> QED BY <2>1 DEF RowsChange
  <1>2. CASE NothingGenerated
    BY <1>2, JobAt DEF NothingGenerated, At, RowsChange, Statuses, Terminal
  <1>3. ASSUME NEW status \in Terminal, Finish(status)
        PROVE  RowsChange
    BY <1>3, JobAt DEF Finish, At, RowsChange, Statuses
  <1>4. CASE ReadContext
    BY <1>4, JobAt DEF ReadContext, At, RowsChange
  <1>5. CASE RecordFinished
    BY <1>5, JobAt DEF RecordFinished, At, RowsChange
  <1>6. CASE FindAnchor
    <2>1. UNCHANGED runs \/ \E target, lane : CreateRun(NewRun(target, lane, Anchor))
      BY <1>6, Zenon DEF FindAnchor
    <2> QED BY <2>1 DEF RowsChange
  <1>7. CASE CloseAnchor
    BY <1>7 DEF CloseAnchor, ImporterAt, Inv, Apart, RowsChange, Statuses
  <1>8. ASSUME NEW v \in Verdicts, RecordBaseline(v) \/ RecordIteration(v)
        PROVE  RowsChange
    BY <1>8, Zenon DEF RecordBaseline, RecordIteration, RowsChange
  <1>9. CASE Compound \/ ApplyGate \/ KillJob \/ PublishNext \/ BeginImport \/ SkipRecord
             \/ ImportRecord \/ KillImporter \/ UNCHANGED vars
    <2>1. UNCHANGED runs
      BY <1>9, Zenon DEF Compound, ApplyGate, KillJob, PublishNext, BeginImport, SkipRecord, ImportRecord,
                KillImporter, BeginProof, BeginRecord, ReadRow, WriteCard, RefuseCard, WriteReport,
                KillRecorder, RecorderAt, store, vars
    <2> QED BY <2>1 DEF RowsChange
  <1> QED BY <1>1, <1>2, <1>3, <1>4, <1>5, <1>6, <1>7, <1>8, <1>9
          DEF Next, RunNext, ImportNext

(* No row goes, and its status and its stamp are what the schema allows. *)
LEMMA StatusesStep ==
    ASSUME Inv, StatusesOK, [Next]_vars
    PROVE  StatusesOK' /\ DOMAIN runs \subseteq DOMAIN runs'
  <1>0. Shape /\ \A r \in DOMAIN runs : IsRow(runs[r])
    BY DEF Inv, Shape
  <1>1. CASE UNCHANGED runs
    BY <1>1 DEF StatusesOK
  <1>2. ASSUME NEW target, NEW lane, NEW goal, CreateRun(NewRun(target, lane, goal))
        PROVE  StatusesOK' /\ DOMAIN runs \subseteq DOMAIN runs'
    <2> DEFINE row == NewRun(target, lane, goal)
    <2>1. row.status = "running" /\ row.finished = FALSE
      BY DEF NewRun
    <2>2. runs' = Append(runs, row)
      BY <1>2 DEF CreateRun
    <2> HIDE DEF row
    <2>3. /\ DOMAIN runs' = 1..(Len(runs) + 1) /\ DOMAIN runs = 1..Len(runs) /\ Len(runs) \in Nat
          /\ \A k \in DOMAIN runs : runs'[k] = runs[k]
          /\ runs'[Len(runs) + 1] = row
      BY <1>0, <2>2, Appended DEF Shape
    <2>4. ASSUME NEW r \in DOMAIN runs'
          PROVE  runs'[r].status \in Statuses /\ runs'[r].finished \in BOOLEAN
      <3>1. CASE r \in DOMAIN runs
        BY <2>3, <3>1 DEF StatusesOK
      <3>2. CASE r \notin DOMAIN runs
        <4>1. r = Len(runs) + 1
          BY <2>3, <3>2
        <4> QED BY <2>1, <2>3, <4>1 DEF Statuses
      <3> QED BY <3>1, <3>2
    <2> QED BY <2>3, <2>4 DEF StatusesOK
  <1>3. ASSUME NEW r \in DOMAIN runs, NEW row, runs' = [runs EXCEPT ![r] = row],
               row.status \in Statuses, row.finished \in BOOLEAN
        PROVE  StatusesOK' /\ DOMAIN runs \subseteq DOMAIN runs'
    BY <1>3 DEF StatusesOK
  <1>4. ASSUME NEW r \in DOMAIN runs, NEW status \in Statuses, NEW final, FinishRun(r, status, final)
        PROVE  StatusesOK' /\ DOMAIN runs \subseteq DOMAIN runs'
    <2> DEFINE x == runs[r]
               y == [x EXCEPT !.status = status]
               row == [y EXCEPT !.final = final]
    <2>1. x = [target |-> x.target, lane |-> x.lane, goal |-> x.goal, status |-> x.status,
               final |-> x.final, finished |-> x.finished, injected |-> x.injected]
      BY <1>0 DEF IsRow
    <2>2. y = [target |-> x.target, lane |-> x.lane, goal |-> x.goal, status |-> status,
               final |-> x.final, finished |-> x.finished, injected |-> x.injected]
      <3> HIDE DEF x
      <3> QED BY <2>1
    <2>3. row.status = status /\ row.finished = x.finished
      <3> HIDE DEF x, y
      <3> QED BY <2>2
    <2>4. runs' = [runs EXCEPT ![r] = row]
      BY <1>4 DEF FinishRun
    <2>5. x.finished \in BOOLEAN
      BY DEF StatusesOK
    <2> HIDE DEF x, y, row
    <2> QED BY <1>3, <2>3, <2>4, <2>5
  <1>5. ASSUME NEW r \in DOMAIN runs, NEW x,
               \/ runs' = [runs EXCEPT ![r].finished = TRUE]
               \/ runs' = [runs EXCEPT ![r].injected = x]
        PROVE  StatusesOK' /\ DOMAIN runs \subseteq DOMAIN runs'
    <2> DEFINE w == runs[r]
    <2>1. w = [target |-> w.target, lane |-> w.lane, goal |-> w.goal, status |-> w.status,
               final |-> w.final, finished |-> w.finished, injected |-> w.injected]
      BY <1>0 DEF IsRow
    <2>2. w.status \in Statuses /\ w.finished \in BOOLEAN
      BY DEF StatusesOK
    <2>3. PICK row : /\ runs' = [runs EXCEPT ![r] = row]
                     /\ row = [w EXCEPT !.finished = TRUE] \/ row = [w EXCEPT !.injected = x]
      BY <1>5
    <2>4. row.status \in Statuses /\ row.finished \in BOOLEAN
      <3> HIDE DEF w
      <3> QED BY <2>1, <2>2, <2>3
    <2> QED BY <1>3, <2>3, <2>4
  <1> QED BY <1>1, <1>2, <1>4, <1>5, RowsChanged DEF RowsChange

(* A confirmation is written by the gate only, for the row of its job. *)
LEMMA ConfirmsStep ==
    ASSUME Inv, Typed, [Next]_vars
    PROVE  ConfirmsOK'
  <1>0. DOMAIN runs \subseteq DOMAIN runs' /\ IsList(confirms)
    BY StatusesStep DEF Typed, Inv, Shape
  <1>1. CASE UNCHANGED confirms
    BY <1>0, <1>1 DEF Typed, ConfirmsOK
  <1>2. CASE ApplyGate
    <2> DEFINE word == [run |-> job.run, confirmed |-> job.req.confirmed]
    <2>1. job.pc = "gate" /\ (confirms' = Append(confirms, word) \/ confirms' = confirms)
      BY <1>2 DEF ApplyGate, At
    <2>2. word.run \in DOMAIN runs /\ word.confirmed \in BOOLEAN
      BY <2>1, JobAt, RequestsAssumption DEF Typed, KeptOK
    <2> HIDE DEF word
    <2>3. CASE confirms' = Append(confirms, word)
      <3>1. /\ DOMAIN confirms' = 1..(Len(confirms) + 1) /\ DOMAIN confirms = 1..Len(confirms)
            /\ Len(confirms) \in Nat /\ \A k \in DOMAIN confirms : confirms'[k] = confirms[k]
            /\ confirms'[Len(confirms) + 1] = word
        BY <1>0, <2>3, Appended
      <3>2. ASSUME NEW k \in DOMAIN confirms'
            PROVE  confirms'[k].run \in DOMAIN runs' /\ confirms'[k].confirmed \in BOOLEAN
        <4>1. CASE k \in DOMAIN confirms
          BY <1>0, <3>1, <4>1 DEF Typed, ConfirmsOK
        <4>2. CASE k \notin DOMAIN confirms
          <5>1. k = Len(confirms) + 1
            BY <3>1, <4>2
          <5> QED BY <1>0, <2>2, <3>1, <5>1
        <4> QED BY <4>1, <4>2
      <3> QED BY <3>2 DEF ConfirmsOK
    <2> QED BY <1>1, <2>1, <2>3
  <1>3. ASSUME NEW v \in Verdicts, RecordBaseline(v) \/ RecordIteration(v)
        PROVE  UNCHANGED confirms
    BY <1>3, Zenon DEF RecordBaseline, RecordIteration
  <1>4. ASSUME NEW req \in Requests, Start(req)
        PROVE  UNCHANGED confirms
    BY <1>4, Zenon DEF Start
  <1>5. ASSUME NEW status \in Terminal, Finish(status)
        PROVE  UNCHANGED confirms
    BY <1>5, Zenon DEF Finish
  <1>6. NothingGenerated \/ ReadContext \/ Compound \/ RecordFinished \/ KillJob
        \/ PublishNext \/ ImportNext \/ UNCHANGED vars
           => UNCHANGED confirms
    BY Zenon DEF NothingGenerated, ReadContext, Compound, RecordFinished, KillJob, PublishNext,
                 ImportNext, BeginProof, BeginRecord, ReadRow, WriteCard, RefuseCard, WriteReport,
                 KillRecorder, RecorderAt, BeginImport, SkipRecord, FindAnchor, CloseAnchor,
                 ImportRecord, KillImporter, ImporterAt, store, vars
  <1> QED BY <1>1, <1>2, <1>3, <1>4, <1>5, <1>6 DEF Next, RunNext

(* The job keeps its request, and what it keeps is on record by then. *)
LEMMA KeptStep ==
    ASSUME Inv, Books, Typed, [Next]_vars
    PROVE  KeptOK'
  <1>0. /\ job.pc # "idle" => IsJob(job) /\ job.run \in DOMAIN runs /\ job.req \in Requests
                              /\ Len(iters[job.run]) \in Nat /\ job.kept \in 0..Len(iters[job.run])
        /\ DOMAIN iters = DOMAIN runs /\ Shape
    <2>1. job.pc # "idle" => iters[job.run] \in Seq(Verdicts)
      BY JobAt DEF Books, Rows
    <2> QED BY <2>1, JobAt, LenProperties DEF Typed, KeptOK, Inv, Shape
  <1>1. CASE job' = Idle
    BY <1>1 DEF KeptOK, Idle
  <1>2. ASSUME job.pc # "idle", job'.req = job.req, job'.run = job.run, job'.kept = job.kept,
               iters'[job.run] = iters[job.run]
        PROVE  KeptOK'
    BY <1>0, <1>2 DEF KeptOK
  <1>3. CASE job' = job /\ (job.pc = "idle" \/ iters'[job.run] = iters[job.run])
    BY <1>2, <1>3 DEF KeptOK
  <1>4. ASSUME NEW req \in Requests, Start(req)
        PROVE  KeptOK'
    <2>1. job'.req = req /\ job'.run = Len(runs) + 1 /\ job'.kept = 0
      BY <1>4, Zenon DEF Start
    <2>2. \E target, lane, goal : CreateRun(NewRun(target, lane, goal))
      BY <1>4, Zenon DEF Start
    <2>3. iters'[Len(runs) + 1] = <<>>
      BY <1>0, <2>2, RowAdded
    <2>4. iters'[job'.run] = <<>> /\ Len(<<>>) = 0
      BY <2>1, <2>3
    <2> QED BY <2>1, <2>4 DEF KeptOK
  <1>5. ASSUME NEW v \in Verdicts, RecordBaseline(v)
        PROVE  KeptOK'
    <2>1. /\ job.pc = "judge" /\ iters' = [iters EXCEPT ![job.run] = <<v>>]
          /\ job' = [job EXCEPT !.kept = 1, !.pc = "context"]
      BY <1>5 DEF RecordBaseline, At
    <2>2. job'.req = job.req /\ job'.run = job.run /\ job'.kept = 1
      BY <1>0, <2>1 DEF IsJob
    <2>3. iters'[job.run] = <<v>> /\ Len(<<v>>) = 1
      BY <1>0, <2>1
    <2> QED BY <1>0, <2>1, <2>2, <2>3 DEF KeptOK
  <1>6. ASSUME NEW v \in Verdicts, RecordIteration(v)
        PROVE  KeptOK'
    <2> DEFINE n == Len(iters[job.run]) + 1
               kept == IF v.safe THEN job.kept ELSE n
    <2>1. /\ job.pc = "loop" /\ iters' = [iters EXCEPT ![job.run] = Append(@, v)]
          /\ \E pc : job' = [job EXCEPT !.kept = kept, !.pc = pc]
      BY <1>6 DEF RecordIteration, At
    <2>2. job'.req = job.req /\ job'.run = job.run /\ job'.kept = kept
      <3> HIDE DEF kept
      <3> QED BY <1>0, <2>1 DEF IsJob
    <2>3. iters'[job.run] = Append(iters[job.run], v)
      BY <1>0, <2>1
    <2>4. Len(iters'[job.run]) = n
      <3>1. iters[job.run] \in Seq(Verdicts)
        BY <1>0, <2>1 DEF Books, Rows
      <3> QED BY <2>3, <3>1
    <2>5. kept \in 0..n
      BY <1>0, <2>1
    <2> HIDE DEF n, kept
    <2> QED BY <1>0, <2>1, <2>2, <2>4, <2>5 DEF KeptOK
  <1>7. CASE Compound
    <2>1. job.pc = "keep" /\ iters' = iters
          /\ job' = [job EXCEPT !.kept = Len(iters[job.run]), !.pc = "loop"]
      BY <1>7 DEF Compound, At
    <2>2. job'.req = job.req /\ job'.run = job.run /\ job'.kept = Len(iters[job.run])
      BY <1>0, <2>1 DEF IsJob
    <2> QED BY <1>0, <2>1, <2>2 DEF KeptOK
  <1>8. ASSUME NEW pc, job.pc # "idle", job' = [job EXCEPT !.pc = pc], iters' = iters
        PROVE  KeptOK'
    <2>1. job'.req = job.req /\ job'.run = job.run /\ job'.kept = job.kept
      BY <1>0, <1>8 DEF IsJob
    <2> QED BY <1>2, <1>8, <2>1
  <1>9. CASE NothingGenerated \/ ReadContext \/ RecordFinished
    BY <1>8, <1>9 DEF NothingGenerated, ReadContext, RecordFinished, At, Goto
  <1>10. ASSUME NEW status \in Terminal, Finish(status)
         PROVE  KeptOK'
    BY <1>8, <1>10 DEF Finish, At, Goto
  <1>11. CASE ApplyGate
    <2>1. PICK x : job.pc = "gate" /\ job' = [job EXCEPT !.pc = "done", !.shippable = x] /\ iters' = iters
      BY <1>11 DEF ApplyGate, At
    <2>2. job'.req = job.req /\ job'.run = job.run /\ job'.kept = job.kept
      BY <1>0, <2>1 DEF IsJob
    <2> QED BY <1>2, <2>1, <2>2
  <1>12. CASE KillJob
    BY <1>1, <1>12 DEF KillJob
  <1>13. CASE PublishNext \/ UNCHANGED vars
    <2>1. iters' = iters /\ (job' = job \/ job' = Idle)
      BY <1>13, Zenon DEF PublishNext, BeginProof, BeginRecord, ReadRow, WriteCard, RefuseCard, WriteReport,
                   KillRecorder, RecorderAt, store, vars
    <2> QED BY <1>1, <1>3, <2>1
  <1>14. CASE ImportNext
    <2>1. job' = job
      BY <1>14, Zenon DEF ImportNext, BeginImport, SkipRecord, FindAnchor, CloseAnchor, ImportRecord,
                   KillImporter, ImporterAt
    <2>2. iters' = iters \/ \E target, lane : CreateRun(NewRun(target, lane, Anchor))
      BY <1>14, Zenon DEF ImportNext, BeginImport, SkipRecord, FindAnchor, CloseAnchor, ImportRecord,
                   KillImporter
    <2>3. job.pc # "idle" => iters'[job.run] = iters[job.run]
      BY <1>0, <2>2, RowAdded
    <2> QED BY <1>3, <2>1, <2>3
  <1> QED BY <1>4, <1>5, <1>6, <1>7, <1>9, <1>10, <1>11, <1>12, <1>13, <1>14 DEF Next, RunNext

(* The importer goes through the file record by record. *)
LEMMA PlaceStep ==
    ASSUME Inv, Typed, [Next]_vars
    PROVE  PlaceOK'
  <1>0. /\ importer.pc # "idle" => IsImporter(importer) /\ importer.i \in Nat \ {0}
        /\ importer.pc \in {"close", "learn"} => importer.i <= Len(Corpus)
    BY DEF Inv, Apart, Typed, PlaceOK
  <1>1. CASE importer' = Idle
    BY <1>1 DEF PlaceOK, Idle
  <1>2. CASE importer' = importer
    BY <1>2 DEF PlaceOK, Typed
  <1>3. CASE BeginImport
    BY <1>3 DEF BeginImport, PlaceOK
  <1>4. CASE SkipRecord
    <2>1. importer.pc = "next" /\ (importer' = Idle \/ importer' = [importer EXCEPT !.i = @ + 1])
      BY <1>4 DEF SkipRecord, ImporterAt
    <2>2. CASE importer' = [importer EXCEPT !.i = @ + 1]
      <3>1. importer'.pc = "next" /\ importer'.i = importer.i + 1
        BY <1>0, <2>1, <2>2 DEF IsImporter
      <3> QED BY <1>0, <2>1, <3>1 DEF PlaceOK
    <2> QED BY <1>1, <2>1, <2>2
  <1>5. ASSUME NEW pc, NEW r, ImportGoto(pc, r), importer.pc # "idle", importer.i <= Len(Corpus)
        PROVE  PlaceOK'
    <2>1. importer'.i = importer.i
      BY <1>0, <1>5 DEF ImportGoto, IsImporter
    <2> QED BY <1>0, <1>5, <2>1 DEF PlaceOK
  <1>6. CASE FindAnchor
    <2>1. /\ importer.pc = "next" /\ importer.i <= Len(Corpus)
          /\ \E pc, r : ImportGoto(pc, r)
      BY <1>6, Zenon DEF FindAnchor, ImporterAt
    <2> QED BY <1>5, <2>1
  <1>7. CASE CloseAnchor
    BY <1>0, <1>5, <1>7 DEF CloseAnchor, ImporterAt
  <1>8. CASE ImportRecord
    <2>1. importer.pc = "learn"
          /\ importer' = [importer EXCEPT !.pc = "next", !.i = @ + 1, !.anchors = @ \cup {importer.run},
                                          !.existing = @ \cup {CorpusKey(importer.i)}]
      BY <1>8 DEF ImportRecord, ImporterAt
    <2>2. importer'.pc = "next" /\ importer'.i = importer.i + 1
      BY <1>0, <2>1 DEF IsImporter
    <2> QED BY <1>0, <2>1, <2>2 DEF PlaceOK
  <1>9. CASE KillImporter
    BY <1>1, <1>9 DEF KillImporter
  <1>10. RunNext => importer' = importer
    <2>1. RunNext => Opens \/ Works \/ Killed
      BY JobDelta
    <2> QED BY <2>1 DEF Opens, Works, Killed
  <1>11. PublishNext \/ UNCHANGED vars => importer' = importer
    BY Zenon DEF PublishNext, BeginProof, BeginRecord, ReadRow, WriteCard, RefuseCard,
                 WriteReport, KillRecorder, RecorderAt, vars
  <1> QED BY <1>2, <1>3, <1>4, <1>6, <1>7, <1>8, <1>9, <1>10, <1>11 DEF Next, ImportNext

(* What is read and published are rows that are there. *)
LEMMA RecorderStep ==
    ASSUME Inv, Typed, [Next]_vars
    PROVE  RecorderOK'
  <1>0. DOMAIN runs \subseteq DOMAIN runs' /\ RecorderOK
    BY StatusesStep DEF Typed
  <1>1. CASE UNCHANGED <<recorder, card, report>>
    BY <1>0, <1>1 DEF RecorderOK
  <1>2. CASE BeginProof
    <2>1. job.run \in DOMAIN runs
      BY <1>2, JobAt DEF BeginProof
    <2> QED BY <1>0, <1>2, <2>1 DEF BeginProof, RecorderOK
  <1>3. ASSUME NEW r \in DOMAIN runs, BeginRecord(r)
        PROVE  RecorderOK'
    BY <1>0, <1>3 DEF BeginRecord, RecorderOK
  <1>4. CASE ReadRow
    <2>1. /\ recorder.pc = "row" /\ UNCHANGED <<card, report>>
          /\ \/ recorder' = Idle
             \/ recorder'.pc = "rows" /\ recorder'.run = recorder.run
      BY <1>4 DEF ReadRow, RecorderAt
    <2> QED BY <1>0, <2>1 DEF RecorderOK, Idle
  <1>5. CASE WriteCard
    <2>1. /\ recorder.pc = "rows" /\ recorder' = [pc |-> "report", run |-> recorder.run]
          /\ card'.run = recorder.run /\ report' = report
      BY <1>5 DEF WriteCard, RecorderAt
    <2> QED BY <1>0, <2>1 DEF RecorderOK
  <1>6. CASE WriteReport
    <2>1. /\ recorder.pc = "report" /\ recorder' = Idle
          /\ report'.run = recorder.run /\ card' = card
      BY <1>6 DEF WriteReport, RecorderAt
    <2> QED BY <1>0, <2>1 DEF RecorderOK, Idle
  <1>7. CASE RefuseCard \/ KillRecorder
    <2>1. recorder' = Idle /\ UNCHANGED <<card, report>>
      BY <1>7 DEF RefuseCard, KillRecorder
    <2> QED BY <1>0, <2>1 DEF RecorderOK, Idle
  <1>8. ASSUME NEW v \in Verdicts, RecordBaseline(v) \/ RecordIteration(v)
        PROVE  UNCHANGED <<recorder, card, report>>
    BY <1>8 DEF RecordBaseline, RecordIteration, At
  <1>9. ASSUME NEW req \in Requests, Start(req)
        PROVE  UNCHANGED <<recorder, card, report>>
    BY <1>9, Zenon DEF Start
  <1>10. ASSUME NEW status \in Terminal, Finish(status)
         PROVE  UNCHANGED <<recorder, card, report>>
    BY <1>10 DEF Finish, At
  <1>11. NothingGenerated \/ ReadContext \/ Compound \/ RecordFinished \/ ApplyGate \/ KillJob
         \/ ImportNext \/ UNCHANGED vars
           => UNCHANGED <<recorder, card, report>>
    BY Zenon DEF NothingGenerated, ReadContext, Compound, RecordFinished, ApplyGate, KillJob, At, vars,
                 ImportNext, BeginImport, SkipRecord, FindAnchor, CloseAnchor, ImportRecord,
                 KillImporter, ImporterAt
  <1> QED BY <1>1, <1>2, <1>3, <1>4, <1>5, <1>6, <1>7, <1>8, <1>9, <1>10, <1>11
          DEF Next, RunNext, PublishNext

(* Every row has a status of the schema, what refers to a row refers to one
   that is there, and each process is at one of its steps on such a row, with
   a kept verdict that is on record and a record that is in the file. *)
THEOREM RecordsTypeCorrect == Spec => []TypeOK
  <1>1. Init => Typed
    BY DEF Init, Idle, Typed, StatusesOK, ConfirmsOK, KeptOK, PlaceOK, RecorderOK
  <1>2. Inv /\ Books /\ Typed /\ [Next]_vars => Typed'
    BY StatusesStep, ConfirmsStep, KeptStep, PlaceStep, RecorderStep DEF Typed
  <1>3. ASSUME Inv, Books, Typed
        PROVE  TypeOK
    <2>1. /\ DOMAIN iters = DOMAIN runs
          /\ \A r \in DOMAIN runs : /\ runs[r].status \in Statuses /\ runs[r].finished \in BOOLEAN
                                    /\ iters[r] \in Seq(Verdicts)
      BY <1>3 DEF Inv, Shape, Books, Rows, Typed, StatusesOK
    <2>2. /\ \A l \in Range(learned) : l.run \in DOMAIN runs
          /\ \A c \in Range(confirms) : c.run \in DOMAIN runs /\ c.confirmed \in BOOLEAN
      BY <1>3 DEF Books, Learned, Typed, ConfirmsOK, Range
    <2>3. /\ job.pc \in {"idle", "nothing", "judge", "context", "loop", "keep", "halt", "stamp", "gate",
                         "done"}
          /\ job.pc # "idle" => /\ job.req \in Requests /\ job.run \in DOMAIN runs
                                /\ job.kept \in 0..Len(iters[job.run])
      BY <1>3, JobAt DEF Books, Rows, Early, Late, Typed, KeptOK
    <2>4. /\ importer.pc \in {"idle", "next", "close", "learn"}
          /\ importer.pc \in {"close", "learn"} =>
                importer.i \in DOMAIN Corpus /\ importer.run \in DOMAIN runs
      <3>1. DOMAIN Corpus = 1..Len(Corpus) /\ Len(Corpus) \in Nat
        BY CorpusAssumption, LenProperties
      <3> QED BY <1>3, <3>1 DEF Books, Remembers, Typed, PlaceOK
    <2>5. /\ recorder.pc \in {"idle", "row", "rows", "report"}
          /\ recorder.pc # "idle" => recorder.run \in DOMAIN runs
          /\ {card.run, report.run} \subseteq {0} \cup DOMAIN runs
      BY <1>3 DEF Typed, RecorderOK
    <2> QED BY <2>1, <2>2, <2>3, <2>4, <2>5 DEF TypeOK
  <1>4. Inv /\ Books /\ Typed => TypeOK
    BY <1>3
  <1> QED BY BooksAreKept, <1>1, <1>2, <1>4, PTL DEF Spec
-----------------------------------------------------------------------------
(* What an import does to the trends.                                      *)

(* The rows a step leaves: new ones have nothing in them, and one that changes
   does so before it is over. *)
RowsAreAnchors ==
    /\ DOMAIN runs \subseteq DOMAIN runs'
    /\ \A r \in DOMAIN runs' : r \notin DOMAIN runs => runs'[r].status = "running" /\ iters'[r] = <<>>
    /\ \A r \in DOMAIN runs :
          /\ iters'[r] = iters[r] /\ runs'[r].target = runs[r].target
          /\ runs'[r] = runs[r] \/ {runs[r].status, runs'[r].status} \cap Terminal = {}

LEMMA ImportAddsAnchors ==
    ASSUME Inv, Books, ImportNext
    PROVE  RowsAreAnchors
  <1> USE DEF RowsAreAnchors
  <1>1. CASE BeginImport \/ SkipRecord \/ ImportRecord \/ KillImporter
    BY <1>1 DEF BeginImport, SkipRecord, ImportRecord, KillImporter
  <1>2. CASE FindAnchor
    <2>1. CASE UNCHANGED <<runs, iters>>
      BY <2>1
    <2>2. CASE \E target, lane : CreateRun(NewRun(target, lane, Anchor))
      <3>1. PICK target, lane : CreateRun(NewRun(target, lane, Anchor))
        BY <2>2
      <3>2. /\ DOMAIN runs' = DOMAIN runs \cup {Len(runs) + 1}
            /\ runs'[Len(runs) + 1].status = "running" /\ iters'[Len(runs) + 1] = <<>>
            /\ \A r \in DOMAIN runs : runs'[r] = runs[r] /\ iters'[r] = iters[r]
        BY <3>1, RowAdded DEF Inv
      <3> QED BY <3>2
    <2> QED BY <1>2, <2>1, <2>2 DEF FindAnchor
  <1>3. CASE CloseAnchor
    <2> DEFINE r == importer.run
    <2>1. /\ r \in DOMAIN runs /\ runs[r].status = "running" /\ iters' = iters
          /\ FinishRun(r, "imported", None)
      BY <1>3 DEF CloseAnchor, ImporterAt, Inv, Apart, Books, Rows
    <2>2. /\ DOMAIN runs' = DOMAIN runs /\ runs'[r].status = "imported"
          /\ runs'[r].target = runs[r].target
          /\ \A o \in DOMAIN runs \ {r} : runs'[o] = runs[o]
      BY <2>1, RowFinished DEF Inv
    <2>3. {"running", "imported"} \cap Terminal = {}
      BY DEF Terminal
    <2> QED BY <2>1, <2>2, <2>3
  <1> QED BY <1>1, <1>2, <1>3 DEF ImportNext

(* A row without iterations that is not over is in none of the answers. *)
LEMMA AnchorsAreNotCounted ==
    ASSUME RowsAreAnchors, NEW t
    PROVE  /\ IterationsToConverge(t)' = IterationsToConverge(t)
           /\ FirstAttemptGrades(t)' = FirstAttemptGrades(t)
           /\ SuccessRate(t)' = SuccessRate(t)
           /\ RecurringFailures(t, 2)' = RecurringFailures(t, 2)
           /\ FinishedReuse(t)' = FinishedReuse(t)
  <1> USE DEF RowsAreAnchors, RunsOf
  <1>1. IterationsToConverge(t)' = IterationsToConverge(t)
    <2> DEFINE D == {s \in RunsOf(t) : runs[s].status = "converged" /\ iters[s] # <<>>}
    <2>1. D' = D
      BY DEF Terminal
    <2>2. \A r \in D : Len(iters'[r]) = Len(iters[r])
      OBVIOUS
    <2> QED BY <2>1, <2>2, Zenon DEF IterationsToConverge
  <1>2. FirstAttemptGrades(t)' = FirstAttemptGrades(t)
    <2> DEFINE D == {s \in RunsOf(t) : iters[s] # <<>>}
    <2>1. D' = D
      OBVIOUS
    <2>2. \A r \in D : iters'[r] = iters[r]
      OBVIOUS
    <2> QED BY <2>1, <2>2, Zenon DEF FirstAttemptGrades
  <1>3. ASSUME NEW S \in {{"converged"}, Terminal}
        PROVE  {r \in RunsOf(t) : runs[r].status \in S}' = {r \in RunsOf(t) : runs[r].status \in S}
    BY <1>3 DEF Terminal
  <1>4. SuccessRate(t)' = SuccessRate(t)
    BY <1>3, Zenon DEF SuccessRate, Count
  <1>5. RecurringFailures(t, 2)' = RecurringFailures(t, 2)
    <2>1. ASSUME NEW f
          PROVE  {r \in RunsOf(t) : \E k \in DOMAIN iters[r] : f \in iters[r][k].fails}'
                    = {r \in RunsOf(t) : \E k \in DOMAIN iters[r] : f \in iters[r][k].fails}
      OBVIOUS
    <2> QED BY <2>1, Zenon DEF RecurringFailures
  <1>6. FinishedReuse(t)' = FinishedReuse(t)
    <2> DEFINE D == {s \in RunsOf(t) : runs[s].status \in Terminal}
    <2>1. D' = D
      BY <1>3
    <2>2. \A r \in D : ReuseStats(t)'[r] = ReuseStats(t)[r]
      BY DEF ReuseStats
    <2> QED BY <2>1, <2>2, Zenon DEF FinishedReuse
  <1> QED BY <1>1, <1>2, <1>4, <1>5, <1>6

(* What an import writes moves no trend, for any corpus and whatever other
   process is under way: its rows are without iterations and never over. *)
THEOREM TrendsTheorem == Spec => ImportLeavesTrends
  <1> DEFINE A == importer' # importer => \A t \in DOMAIN Trends : Trends'[t] = Trends[t]
  <1>1. ASSUME Inv, Books, Next, importer' # importer, NEW t \in DOMAIN Trends
        PROVE  Trends'[t] = Trends[t]
    <2>1. ImportNext
      BY <1>1, Zenon DEF Next, RunNext, Start, NothingGenerated, ReadContext, RecordBaseline,
                         RecordIteration, Compound, Finish, RecordFinished, ApplyGate, KillJob, At,
                         PublishNext, BeginProof, BeginRecord, ReadRow, WriteCard, RefuseCard,
                         WriteReport, KillRecorder, RecorderAt
    <2>2. RowsAreAnchors
      BY <1>1, <2>1, ImportAddsAnchors
    <2>3. CompoundingSummary(t)' = CompoundingSummary(t)
      <3>1. PICK n, g : /\ n = IterationsToConverge(t) /\ n = IterationsToConverge(t)'
                        /\ g = FirstAttemptGrades(t) /\ g = FirstAttemptGrades(t)'
        BY <2>2, AnchorsAreNotCounted, Zenon
      <3> QED BY <3>1, Zenon DEF CompoundingSummary, FirstOf, LastOf
    <2>4. t \in {runs[r].target : r \in DOMAIN runs} /\ t \in {runs'[r].target : r \in DOMAIN runs'}
      BY <1>1, <2>2 DEF Trends, RowsAreAnchors
    <2>5. /\ Trends[t] = <<CompoundingSummary(t), SuccessRate(t), RecurringFailures(t, 2),
                           FinishedReuse(t)>>
          /\ Trends'[t] = <<CompoundingSummary(t)', SuccessRate(t)', RecurringFailures(t, 2)',
                            FinishedReuse(t)'>>
      BY <2>4, Zenon DEF Trends
    <2> QED BY <2>2, <2>3, <2>5, AnchorsAreNotCounted, Zenon
  <1>2. Inv /\ Books /\ [Next]_vars => [A]_vars
    BY <1>1
  <1>3. ImportLeavesTrends <=> [][A]_vars
    BY DEF ImportLeavesTrends
  <1> QED BY BooksAreKept, <1>2, <1>3, PTL DEF Spec
=============================================================================
