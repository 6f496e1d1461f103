-------------------------- MODULE HarborReportProofs --------------------------
(***************************************************************************)
(* What holds of a report whatever the job does meanwhile: it leaves the   *)
(* view alone, verify finds out what changed under it, and a pass@k it     *)
(* calls official counts verdicts.                                         *)
(***************************************************************************)
EXTENDS HarborReport, CampaignViewProofs, FiniteSetTheorems, WellFoundedInduction,
        NaturalsInduction, SequenceTheorems

\* A step of the composition is one of the materialisers, or one that leaves
\* everything they share alone.
LEMMA ReportStep ==
  [NextReport]_<<viewVars, reportVars>> => [NextView]_viewVars
<1> SUFFICES ASSUME [NextReport]_<<viewVars, reportVars>>, ~NextView
             PROVE  UNCHANGED viewVars
  OBVIOUS
<1>1. ASSUME NEW d \in Dirs, StartTrial(d) \/ TrialEnds(d) \/ CopyTrial(d)
      PROVE  UNCHANGED viewVars
  BY <1>1 DEF StartTrial, TrialEnds, CopyTrial
<1>2. ASSUME NEW d \in Dirs, NEW s \in setup.submissions,
             Judge(d, s) \/ Regraded(d, s)
      PROVE  UNCHANGED viewVars
  BY <1>2 DEF Judge, Regraded
<1>3. CASE JobUpdates \/ Summarize \/ HashFile \/ ParseFile \/ ListTrials
  BY <1>3 DEF JobUpdates, Summarize, HashFile, ParseFile, ListTrials
<1>4. CASE OpenTrial \/ TakeTrial \/ PlanMissing
  BY <1>4 DEF OpenTrial, TakeTrial, PlanMissing
<1>5. CASE WriteTrials \/ WriteIssues \/ WriteSummary
  BY <1>5 DEF WriteTrials, WriteIssues, WriteSummary
<1> QED
  BY <1>1, <1>2, <1>3, <1>4, <1>5 DEF NextReport

\* The composition implements the materialisers' specification: nothing a
\* running job or a report does is a step of theirs.
THEOREM ReportKeepsView == SpecReport => SpecView
<1>1. InitReport => InitView
  BY DEF InitReport
<1> QED
  BY <1>1, ReportStep, PTL DEF SpecReport, SpecView

\* The view a report reads is whole, in every state of the composition.
THEOREM ReportedViewIsWhole == SpecReport => []PublishedWhole
  BY ReportKeepsView, ViewIsWhole, PTL
-----------------------------------------------------------------------------
(***************************************************************************)
(* What verify promises.  A file is read twice, and changes in between.    *)
(* That the digest and the contents of one report agree with the file in   *)
(* the end is a question of what its earlier values were: each file only   *)
(* goes forward, so a digest that was overtaken once never fits again.     *)
(***************************************************************************)
FileKinds == {"job", "result", "lock", "reward", "manifest", "spec"}

FileNames ==
  {f \in [kind : FileKinds, dir : Dirs \cup {0}, task : Tasks \cup {"none"}] :
     f.kind \in {"result", "lock", "reward"} => f.dir \in Dirs}

Jobs == [is : {"ok"}, finished : BOOLEAN, completed : Nat, total : Nat]

\* v is what a file said before, and will not say again.
OldJob(v) ==
  /\ v \in Jobs
  /\ \/ v.completed < job.completed
     \/ v.completed = job.completed /\ ~v.finished /\ job.finished

OldResult(t, v) ==
  \/ v = Missing /\ t.result # Missing
  \/ v = Malformed /\ Ok(t.result)

OldLock(t, v) == v = Missing /\ t.lock # Missing

OldReward(t, v) ==
  \/ v = Missing /\ t.reward # Missing
  \/ Ok(t.result) /\ v = t.result.rewards /\ t.reward # v

Superseded(f, v) ==
  \/ f.kind = "job" /\ OldJob(v)
  \/ f.kind = "result" /\ OldResult(trial[f.dir], v)
  \/ f.kind = "lock" /\ OldLock(trial[f.dir], v)
  \/ f.kind = "reward" /\ OldReward(trial[f.dir], v)
  \/ f.kind = "manifest" /\ v = Missing /\ view.manifest # NoManifest
-----------------------------------------------------------------------------
(***************************************************************************)
(* The inductive invariant.                                                *)
(***************************************************************************)
TrialsOK ==
  /\ trial = [d \in Dirs |-> [lock |-> trial[d].lock, reward |-> trial[d].reward,
                              result |-> trial[d].result]]
  /\ \A d \in Dirs :
       /\ trial[d].reward = Missing \/ Ok(trial[d].reward)
       /\ \/ trial[d].result \in {Missing, Malformed}
          \/ Ok(trial[d].result) /\ trial[d].result.task \in Tasks

Ended == {d \in Planned : Ok(trial[d].result)}

JobOK ==
  /\ job \in Jobs
  /\ job.completed <= Cardinality(Ended)
  /\ job.finished => Ended = Planned

ManifestOK == view.manifest \in {NoManifest, DescribedManifest}

\* The result of the directory that is open has been read, or will be next.
ResultOf(d) == File("result", d, "none")
LockOf(d) == File("lock", d, "none")

ResultRead(d) ==
  \/ reader.todo = <<ResultOf(d), LockOf(d)>>
  \/ /\ reader.todo \in {<<LockOf(d)>>, <<>>}
     /\ \E i \in reader.inputs : i.file = ResultOf(d)

Fields == {"step", "left", "phase", "dirs", "todo", "ref", "inputs"}
Shaped(r) == r = [x \in Fields |-> r[x]]

ReaderShape ==
  /\ Shaped(reader)
  /\ reader.step \in {"idle", "reading", "parsing"}
  /\ reader.dirs \subseteq Dirs
  /\ reader.todo \in Seq(FileNames)
  /\ reader.step = "parsing" => reader.todo # <<>>
  /\ reader.phase = "opened" /\ reader.step # "idle" =>
       reader.dirs # {} /\ \A d \in {Min(reader.dirs)} : ResultRead(d)
  /\ \A i \in reader.inputs :
       i.file.kind = "result" /\ Ok(i.parsed) => i.parsed.task \in Tasks

\* An entry of a report.
Recorded(i) == i.file \in FileNames /\ (i.ref = i.parsed \/ Superseded(i.file, i.ref))

\* What is in the hands of a report that is parsing.
InHand(f, v) == f.kind # "spec" /\ (CurrentFile(f) = v \/ Superseded(f, v))

ReaderOK ==
  /\ \A i \in reader.inputs : Recorded(i)
  /\ reader.step = "parsing" =>
       \A f \in {Head(reader.todo)}, v \in {reader.ref} : InHand(f, v)

PublishedShape == published = [x \in {"trials", "issues", "summary"} |-> published[x]]

PublishedOK ==
  /\ PublishedShape
  /\ Ok(published.summary) => \A i \in published.summary.inputs : Recorded(i)

FilesOK == TrialsOK /\ JobOK /\ ManifestOK

ReportInv == ViewInv /\ FilesOK /\ ReaderShape /\ ReaderOK /\ PublishedOK
-----------------------------------------------------------------------------
(***************************************************************************)
(* What a report that is sound rests on.                                   *)
(***************************************************************************)
IsCopy(d) == setup.found = "copy" /\ d \in Leftover

\* r is what the grader said of directory d.
Verdict(d, r) == judged[d] \in setup.submissions /\ r = Metrics(judged[d])

\* A directory that is not a copy tells its own trial; one that was there
\* before shows that it is not of this job, or not of this plan.
Honest(d, t) ==
  /\ ~Ok(t.result) /\ Ok(t.reward) => Verdict(d, t.reward)
  /\ Ok(t.result) /\ Ok(t.result.rewards) => Verdict(d, t.result.rewards)
  /\ Ok(t.result) => \/ d \in Planned
                     \/ setup.found \in {"extra", "lockless"}
                     \/ t.result.job # "own"
                     \/ t.result.agent = "stranger"

DirJudged(d) ==
  /\ judged[d] # NoJudgement => Ok(trial[d].reward)
  /\ d \in Planned /\ Ok(trial[d].result) => trial[d].result.id = d
  /\ ~IsCopy(d) => Honest(d, trial[d])
  /\ IsCopy(d) /\ trial[d] # NoTrial =>
       1 \in Planned /\ Ok(trial[1].result) /\ trial[d].result.id = 1

JudgedOK ==
  /\ judged = [d \in Dirs |-> judged[d]]
  /\ \A d \in Dirs : DirJudged(d)

\* The results of a report are those of the directories, each read once, and
\* a copy is not kept.
ResultKept(i) ==
  /\ i.file = ResultOf(i.file.dir)
  /\ Ok(i.parsed) =>
       /\ i.file.dir \in Dirs /\ i.parsed = trial[i.file.dir].result
       /\ IsCopy(i.file.dir) => i.file.dir \in reader.dirs
  /\ i.file.dir \in reader.dirs =>
       /\ reader.phase = "opened" /\ Len(reader.todo) < 2
       /\ i.file.dir = Min(reader.dirs)
  /\ \A j \in reader.inputs : j.file = i.file => j = i

\* The trial that was copied is before the copies.
OriginalFirst ==
  (\E d \in reader.dirs : IsCopy(d)) =>
    /\ 1 \in Planned /\ Ok(trial[1].result)
    /\ 1 \in reader.dirs \/ \E i \in reader.inputs : i.file = ResultOf(1)
    /\ \A i \in reader.inputs : i.file = ResultOf(1) => Ok(i.parsed)

JobFile == File("job", 0, "none")

ReaderKeeps ==
  /\ reader.step = "idle" => reader.inputs = {} /\ reader.dirs = {} /\ reader.todo = <<>>
  /\ reader.step # "idle" =>
       \/ reader.todo = <<JobFile>>
       \/ \E i \in reader.inputs : i.file = JobFile
  /\ reader.phase = "job" =>
       reader.dirs = {} /\ \A i \in reader.inputs : i.file.kind # "result"
  /\ reader.phase # "opened" =>
       \A k \in 1..Len(reader.todo) : reader.todo[k].kind # "result"
  /\ \A i \in reader.inputs :
       /\ i.file.kind = "result" => ResultKept(i)
       /\ i.file = JobFile => (i.parsed.finished => job.finished)
  /\ OriginalFirst

\* The rows of the report are about directories, or about none.
RowsOK ==
  Ok(published.summary) => \A r \in published.summary.trials : r.dir \in Dirs \cup {0}

SoundInv ==
  /\ setup \in Setups /\ TrialsOK /\ JobOK /\ JudgedOK
  /\ ReaderShape /\ ReaderKeeps /\ PublishedShape /\ RowsOK /\ ReportSound
-----------------------------------------------------------------------------
(***************************************************************************)
(* The files only go forward.                                              *)
(***************************************************************************)
\* What a step may do to a directory.
Onward(t, u) ==
  /\ t.lock # Missing => u.lock = t.lock
  /\ Ok(t.result) => u.result = t.result
  /\ t.result = Malformed => u.result = Malformed \/ Ok(u.result)
  /\ t.reward # Missing => u.reward # Missing
  /\ u.reward # t.reward =>
       t.reward = IF Ok(t.result) THEN t.result.rewards ELSE Missing

JobOnward ==
  \/ job' = job
  \/ job'.completed > job.completed
  \/ job'.completed = job.completed /\ ~job.finished /\ job'.finished

FilesOnward ==
  /\ setup' = setup /\ JobOnward
  /\ \A d \in Dirs : Onward(trial[d], trial'[d])
  /\ view'.manifest \in {view.manifest, DescribedManifest}

\* Verdicts about files are told apart by their field is.
LEMMA FileValues ==
  /\ ~Ok(Missing) /\ ~Ok(Malformed) /\ Missing # Malformed
  /\ \A x : Lock(x) # Missing /\ Lock(x) = [is |-> "ok", digest |-> x]
  /\ \A s : Ok(Metrics(s)) /\ Metrics(s) # Missing
  /\ \A x : Ok(x) => x # Missing /\ x # Malformed
<1>1. Missing.is = "missing" /\ Malformed.is = "malformed"
  BY DEF Missing, Malformed
<1>2. \A x : Lock(x).is = "ok" /\ Lock(x) = [is |-> "ok", digest |-> x]
  BY DEF Lock
<1>3. \A s : Metrics(s).is = "ok"
  BY DEF Metrics
<1> QED  BY <1>1, <1>2, <1>3 DEF Ok

\* The attempts of the plan have directories, and there are finitely many.
LEMMA PlanFacts ==
  ASSUME setup \in Setups
  PROVE  /\ Planned \subseteq Dirs /\ IsFiniteSet(Planned) /\ Dirs \subseteq Nat
         /\ \A i \in Planned : setup.plan[i].task \in Tasks
         /\ Planned = {} \/ 1 \in Planned
<1>1. /\ setup.plan \in Seq([task : Tasks, agent : STRING \ {"stranger"}, digest : STRING])
      /\ Len(setup.plan) <= Cardinality(Dirs)
  BY ReportAssumption DEF ReportSetup
<1>2. Len(setup.plan) \in Nat /\ Planned = 1..Len(setup.plan)
  BY <1>1 DEF Planned
<1>3. Cardinality(Dirs) \in Nat /\ Dirs = 1..Cardinality(Dirs)
  BY ReportAssumption, FS_CardinalityType
<1>4. Planned \subseteq Dirs /\ Dirs \subseteq Nat /\ (Planned = {} \/ 1 \in Planned)
  BY <1>1, <1>2, <1>3
<1>5. IsFiniteSet(Planned)
  BY <1>4, ReportAssumption, FS_Subset
<1>6. ASSUME NEW i \in Planned PROVE setup.plan[i].task \in Tasks
  <2> DEFINE Attempts == [task : Tasks, agent : STRING \ {"stranger"}, digest : STRING]
  <2>1. setup.plan \in Seq(Attempts)
    BY <1>1
  <2> HIDE DEF Attempts
  <2>2. setup.plan[i] \in Attempts
    BY <1>2, <2>1
  <2> QED  BY <2>2 DEF Attempts
<1> QED  BY <1>4, <1>5, <1>6

LEMMA NoStrangers ==
  ASSUME setup \in Setups
  PROVE  \A i \in Planned : setup.plan[i].agent # "stranger"
<1> DEFINE Attempts == [task : Tasks, agent : STRING \ {"stranger"}, digest : STRING]
<1>1. setup.plan \in Seq(Attempts)
  BY ReportAssumption DEF ReportSetup
<1> HIDE DEF Attempts
<1>2. \A i \in Planned : setup.plan[i] \in Attempts
  BY <1>1 DEF Planned
<1> QED  BY <1>2 DEF Attempts

\* The records of a directory.
LEMMA DirectoryUpdate ==
  ASSUME NEW a, NEW b, NEW c, NEW l
  PROVE  LET t == [lock |-> a, reward |-> b, result |-> c]
         IN /\ [t EXCEPT !.lock = l] = [lock |-> l, reward |-> b, result |-> c]
            /\ [t EXCEPT !.reward = l] = [lock |-> a, reward |-> l, result |-> c]
            /\ [t EXCEPT !.result = l] = [lock |-> a, reward |-> b, result |-> l]
OBVIOUS

\* A step that replaces one directory.
LEMMA OneDirectory ==
  ASSUME TrialsOK, NEW e \in Dirs, NEW l, NEW w, NEW x,
         w = Missing \/ Ok(w),
         x \in {Missing, Malformed} \/ (Ok(x) /\ x.task \in Tasks),
         Onward(trial[e], [lock |-> l, reward |-> w, result |-> x]),
         trial' = [trial EXCEPT ![e] = [lock |-> l, reward |-> w, result |-> x]]
  PROVE  TrialsOK' /\ \A d \in Dirs : Onward(trial[d], trial'[d])
<1> DEFINE r == [lock |-> l, reward |-> w, result |-> x]
<1>1. r.lock = l /\ r.reward = w /\ r.result = x
  OBVIOUS
<1>2. r = [lock |-> r.lock, reward |-> r.reward, result |-> r.result]
  BY <1>1
<1>3. trial' = [trial EXCEPT ![e] = r] /\ Onward(trial[e], r)
  OBVIOUS
<1>4. /\ r.reward = Missing \/ Ok(r.reward)
      /\ r.result \in {Missing, Malformed} \/ (Ok(r.result) /\ r.result.task \in Tasks)
  BY <1>1
<1> HIDE DEF r
<1>5. trial' = [d \in Dirs |-> IF d = e THEN r ELSE trial[d]]
  BY <1>3 DEF TrialsOK
<1>6. \A d \in Dirs : trial'[d] = IF d = e THEN r ELSE trial[d]
  BY <1>5
<1>7. \A d \in Dirs : Onward(trial[d], trial[d])
  BY DEF Onward
<1>8. \A d \in Dirs : trial[d] = [lock |-> trial[d].lock, reward |-> trial[d].reward,
                                  result |-> trial[d].result]
  BY DEF TrialsOK
<1>9. \A d \in Dirs : trial'[d] = [lock |-> trial'[d].lock, reward |-> trial'[d].reward,
                                   result |-> trial'[d].result]
  BY <1>2, <1>6, <1>8
<1>10. trial' = [d \in Dirs |-> [lock |-> trial'[d].lock, reward |-> trial'[d].reward,
                                 result |-> trial'[d].result]]
  BY <1>5, <1>6, <1>9
<1>11. \A d \in Dirs :
        /\ trial'[d].reward = Missing \/ Ok(trial'[d].reward)
        /\ \/ trial'[d].result \in {Missing, Malformed}
           \/ Ok(trial'[d].result) /\ trial'[d].result.task \in Tasks
  BY <1>4, <1>6 DEF TrialsOK
<1> QED  BY <1>3, <1>6, <1>7, <1>10, <1>11 DEF TrialsOK

\* What Harbor and the grader write, and what somebody copies.
LEMMA TrialStep ==
  ASSUME TrialsOK, setup \in Setups, [NextReport]_<<viewVars, reportVars>>
  PROVE  TrialsOK' /\ \A d \in Dirs : Onward(trial[d], trial'[d])
<1> DEFINE Goal == TrialsOK' /\ \A d \in Dirs : Onward(trial[d], trial'[d])
           OkResult(x) == x \in {Missing, Malformed} \/ (Ok(x) /\ x.task \in Tasks)
           OkReward(w) == w = Missing \/ Ok(w)
<1>1. \A d \in Dirs : \E l, w, x :
        trial[d] = [lock |-> l, reward |-> w, result |-> x] /\ OkReward(w) /\ OkResult(x)
  <2> SUFFICES ASSUME NEW d \in Dirs
               PROVE  \E l, w, x : /\ trial[d] = [lock |-> l, reward |-> w, result |-> x]
                                   /\ OkReward(w) /\ OkResult(x)
    OBVIOUS
  <2>1. /\ trial[d] = [lock |-> trial[d].lock, reward |-> trial[d].reward,
                       result |-> trial[d].result]
        /\ OkReward(trial[d].reward) /\ OkResult(trial[d].result)
    BY DEF TrialsOK
  <2> QED  BY <2>1
<1>2. ASSUME NEW d \in Dirs, NEW l, NEW w, NEW x, OkReward(w), OkResult(x),
             Onward(trial[d], [lock |-> l, reward |-> w, result |-> x]),
             trial' = [trial EXCEPT ![d] = [lock |-> l, reward |-> w, result |-> x]]
      PROVE  Goal
  BY <1>2, OneDirectory
<1> HIDE DEF Goal, OkResult, OkReward
<1>3. ASSUME NEW d \in Dirs, StartTrial(d) PROVE Goal
  <2>1. PICK l, w, x : /\ trial[d] = [lock |-> l, reward |-> w, result |-> x]
                       /\ OkReward(w) /\ OkResult(x)
    BY <1>1
  <2> DEFINE new == Lock(setup.plan[d].digest)
  <2>2. trial[d].lock = Missing /\ trial' = [trial EXCEPT ![d].lock = new]
    BY <1>3 DEF StartTrial, NoTrial
  <2> HIDE DEF new
  <2>3. trial' = [trial EXCEPT ![d] = [lock |-> new, reward |-> w, result |-> x]]
    <3>1. [trial[d] EXCEPT !.lock = new] = [lock |-> new, reward |-> w, result |-> x]
      BY <2>1, DirectoryUpdate
    <3> QED  BY <2>2, <3>1
  <2>4. l = Missing
    BY <2>1, <2>2
  <2>5. Onward(trial[d], [lock |-> new, reward |-> w, result |-> x])
    BY <2>1, <2>4 DEF Onward
  <2> QED  BY <1>2, <2>1, <2>3, <2>5
<1>4. ASSUME NEW d \in Dirs, NEW s, Judge(d, s) \/ Regraded(d, s) PROVE Goal
  <2>1. PICK l, w, x : /\ trial[d] = [lock |-> l, reward |-> w, result |-> x]
                       /\ OkReward(w) /\ OkResult(x)
    BY <1>1
  <2> DEFINE new == Metrics(s)
  <2>2. trial' = [trial EXCEPT ![d].reward = new]
    BY <1>4 DEF Judge, Regraded
  <2>3. w = IF Ok(x) THEN x.rewards ELSE Missing
    BY <1>4, <2>1 DEF Judge, Regraded, OkReward
  <2>4. Ok(new) /\ new # Missing
    BY FileValues
  <2> HIDE DEF new
  <2>5. trial' = [trial EXCEPT ![d] = [lock |-> l, reward |-> new, result |-> x]]
    <3>1. [trial[d] EXCEPT !.reward = new] = [lock |-> l, reward |-> new, result |-> x]
      BY <2>1, DirectoryUpdate
    <3> QED  BY <2>2, <3>1
  <2>6. Onward(trial[d], [lock |-> l, reward |-> new, result |-> x])
    BY <2>1, <2>3, <2>4 DEF Onward
  <2>7. OkReward(new)
    BY <2>4 DEF OkReward
  <2> QED  BY <1>2, <2>1, <2>5, <2>6, <2>7
<1>5. ASSUME NEW d \in Dirs, TrialEnds(d) PROVE Goal
  <2>1. PICK l, w, x : /\ trial[d] = [lock |-> l, reward |-> w, result |-> x]
                       /\ OkReward(w) /\ OkResult(x)
    BY <1>1
  <2>2. PICK new : /\ trial' = [trial EXCEPT ![d].result = new]
                   /\ \/ new = Malformed /\ trial[d].result = Missing
                      \/ Ok(new) /\ new.task \in Tasks
    <3>1. CASE trial' = [trial EXCEPT ![d].result = Malformed]
               /\ trial[d].result = Missing
      BY <3>1
    <3>2. ASSUME NEW exception \in BOOLEAN,
                 trial' = [trial EXCEPT ![d].result =
                             Told(d, "own", IF exception THEN Missing
                                            ELSE trial[d].reward, exception)]
          PROVE  \E y : /\ trial' = [trial EXCEPT ![d].result = y]
                        /\ Ok(y) /\ y.task \in Tasks
      <4> DEFINE y == Told(d, "own", IF exception THEN Missing
                                     ELSE trial[d].reward, exception)
      <4>1. d \in Planned
        BY <1>5 DEF TrialEnds
      <4>2. y.is = "ok" /\ y.task = setup.plan[d].task
        BY <4>1 DEF Told
      <4>3. Ok(y) /\ y.task \in Tasks
        BY <4>1, <4>2, PlanFacts DEF Ok
      <4>4. trial' = [trial EXCEPT ![d].result = y]
        BY <3>2
      <4> HIDE DEF y
      <4> QED  BY <4>3, <4>4
    <3> QED  BY <1>5, <3>1, <3>2 DEF TrialEnds
  <2>3. ~Ok(x) /\ (new = Malformed => x = Missing)
    BY <1>5, <2>1, <2>2, FileValues DEF TrialEnds
  <2>4. trial' = [trial EXCEPT ![d] = [lock |-> l, reward |-> w, result |-> new]]
    <3>1. [trial[d] EXCEPT !.result = new] = [lock |-> l, reward |-> w, result |-> new]
      BY <2>1, DirectoryUpdate
    <3> QED  BY <2>2, <3>1
  <2>5. new = Malformed \/ Ok(new)
    BY <2>2
  <2>6. Onward(trial[d], [lock |-> l, reward |-> w, result |-> new])
    BY <2>1, <2>3, <2>5, FileValues DEF Onward
  <2>7. OkResult(new)
    BY <2>2 DEF OkResult
  <2> QED  BY <1>2, <2>1, <2>4, <2>6, <2>7
<1>6. ASSUME NEW d \in Dirs, CopyTrial(d) PROVE Goal
  <2>1. 1 \in Dirs
    BY ReportAssumption, FS_CardinalityType
  <2>2. PICK l, w, x : /\ trial[1] = [lock |-> l, reward |-> w, result |-> x]
                       /\ OkReward(w) /\ OkResult(x)
    BY <1>1, <2>1
  <2>3. trial' = [trial EXCEPT ![d] = [lock |-> l, reward |-> w, result |-> x]]
    BY <1>6, <2>2 DEF CopyTrial
  <2>4. trial[d].lock = Missing /\ trial[d].reward = Missing /\ trial[d].result = Missing
    BY <1>6 DEF CopyTrial, NoTrial
  <2>5. Onward(trial[d], [lock |-> l, reward |-> w, result |-> x])
    BY <2>4, FileValues DEF Onward
  <2> QED  BY <1>2, <2>2, <2>3, <2>5
<1>7. ASSUME trial' = trial PROVE Goal
  <2>1. \A d \in Dirs : Onward(trial[d], trial'[d])
    BY <1>7 DEF Onward
  <2>2. TrialsOK'
    BY <1>7 DEF TrialsOK
  <2> QED  BY <2>1, <2>2 DEF Goal
<1>8. ASSUME \/ JobUpdates \/ Summarize \/ HashFile \/ ParseFile \/ ListTrials
             \/ OpenTrial \/ TakeTrial
      PROVE  Goal
  BY <1>7, <1>8 DEF JobUpdates, Summarize, HashFile, ParseFile, ListTrials,
                    OpenTrial, TakeTrial
<1>9. ASSUME \/ PlanMissing \/ WriteTrials \/ WriteIssues \/ WriteSummary
             \/ UNCHANGED reportVars
      PROVE  Goal
  BY <1>7, <1>9 DEF PlanMissing, WriteTrials, WriteIssues, WriteSummary, reportVars
<1> QED
  BY <1>3, <1>4, <1>5, <1>6, <1>7, <1>8, <1>9 DEF NextReport, Goal
\* The job counts the trials that have ended, and ends with the last.
LEMMA JobStep ==
  ASSUME JobOK, setup \in Setups, setup' = setup,
         \A d \in Dirs : Onward(trial[d], trial'[d]),
         [NextReport]_<<viewVars, reportVars>>
  PROVE  JobOK' /\ JobOnward /\ (job.finished => job'.finished)
<1>1. Planned' = Planned
  BY DEF Planned
<1>2. Ended \subseteq Ended'
  BY <1>1, PlanFacts DEF Ended, Onward
<1>3. IsFiniteSet(Ended) /\ IsFiniteSet(Ended') /\ Ended' \subseteq Planned
  BY <1>1, PlanFacts, FS_Subset DEF Ended
<1>4. /\ Cardinality(Ended) \in Nat /\ Cardinality(Ended') \in Nat
      /\ Cardinality(Ended) <= Cardinality(Ended')
  BY <1>2, <1>3, FS_CardinalityType, FS_Subset
<1>5. Ended = Planned => Ended' = Planned
  BY <1>2, <1>3
<1>6. job \in Jobs /\ job.completed <= Cardinality(Ended) /\ (job.finished => Ended = Planned)
  BY DEF JobOK
<1>7. CASE job' = job
  BY <1>1, <1>4, <1>5, <1>6, <1>7 DEF JobOK, JobOnward, Jobs
<1>8. CASE JobUpdates
  <2> DEFINE n == Cardinality(Ended)  f == Ended = Planned
  <2>1. /\ job' = [job EXCEPT !.completed = n, !.finished = f] /\ job' # job
        /\ trial' = trial
    BY <1>8 DEF JobUpdates, Ended
  <2>2. Ended' = Ended
    BY <1>1, <2>1 DEF Ended
  <2>3. n \in Nat /\ f \in BOOLEAN /\ job.completed <= n /\ (job.finished => f)
    BY <1>4, <1>6
  <2>4. f => Ended' = Planned'
    BY <1>1, <2>2
  <2> HIDE DEF f
  <2>5. n = Cardinality(Ended')
    BY <2>2
  <2> HIDE DEF n
  <2>6. job' = [job EXCEPT !.completed = n, !.finished = f]
    BY <2>1
  <2>7. job' \in Jobs /\ job'.completed = n /\ job'.finished = f
    BY <1>6, <2>3, <2>6 DEF Jobs
  <2>8. JobOK'
    BY <2>3, <2>4, <2>5, <2>7 DEF JobOK
  <2>9. n # job.completed \/ f # job.finished
    BY <1>6, <2>1, <2>6 DEF Jobs
  <2>10. job.finished \in BOOLEAN /\ job.completed \in Nat
    BY <1>6 DEF Jobs
  <2> QED  BY <2>3, <2>7, <2>8, <2>9, <2>10 DEF JobOnward
<1>9. CASE UNCHANGED job
  BY <1>7, <1>9
<1>10. ASSUME NEW d \in Dirs, StartTrial(d) \/ TrialEnds(d) \/ CopyTrial(d)
       PROVE  UNCHANGED job
  BY <1>10 DEF StartTrial, TrialEnds, CopyTrial
<1>11. ASSUME NEW d \in Dirs, NEW s, Judge(d, s) \/ Regraded(d, s)
       PROVE  UNCHANGED job
  BY <1>11 DEF Judge, Regraded
<1>12. ASSUME \/ Summarize \/ HashFile \/ ParseFile \/ ListTrials
              \/ OpenTrial \/ TakeTrial
       PROVE  UNCHANGED job
  BY <1>12 DEF Summarize, HashFile, ParseFile, ListTrials, OpenTrial, TakeTrial
<1>13. ASSUME \/ PlanMissing \/ WriteTrials \/ WriteIssues \/ WriteSummary
              \/ UNCHANGED reportVars
       PROVE  UNCHANGED job
  BY <1>13 DEF PlanMissing, WriteTrials, WriteIssues, WriteSummary, reportVars
<1> QED
  BY <1>8, <1>9, <1>10, <1>11, <1>12, <1>13 DEF NextReport

\* The materialisers leave the situation as it is.
LEMMA SetupStays == [NextView]_viewVars => setup' = setup
BY DEF NextView, viewVars, CaptureAudit, CaptureOpen, CaptureClose, CaptureVerify,
       VerifyDescriptor, Audit, WriteManifest, CheckView, RemoveEntry,
       RemoveDirectory, RemoveFails, Rename, DiskError, Crash, WriteTask,
       RefreshRead, RefreshWrites, Edit, RefreshDies

\* Without --force the manifest of the view is written once.
LEMMA ManifestStep ==
  ASSUME ViewInv, ~Overwrites, ManifestOK, [NextView]_viewVars
  PROVE  ManifestOK' /\ view'.manifest \in {view.manifest, DescribedManifest}
<1> DEFINE Goal == view'.manifest \in {view.manifest, DescribedManifest}
<1>1. setup' = setup
  BY SetupStays
<1>2. \A b \in Builders : builder[b].step # "removing"
  BY DEF ViewInv, BuiltWhole, Built
<1>3. ASSUME NEW b \in Builders, RemoveEntry(b) \/ RemoveDirectory(b) PROVE FALSE
  BY <1>2, <1>3 DEF RemoveEntry, RemoveDirectory, Removable, At
<1>4. ASSUME NEW b \in Builders, Rename(b) PROVE Goal
  <2>1. builder[b].temp.manifest = DescribedManifest
    BY <1>4 DEF ViewInv, BuiltWhole, Built, Rename, At
  <2>2. view' = view \/ view' = Place(builder[b].temp, b)
    BY <1>4 DEF Rename
  <2> QED  BY <2>1, <2>2 DEF Place
<1>5. ASSUME view' = view PROVE Goal
  BY <1>5
<1>6. ASSUME NEW b \in Builders,
             \/ CaptureAudit(b) \/ CaptureOpen(b) \/ CaptureClose(b)
             \/ CaptureVerify(b) \/ VerifyDescriptor(b) \/ Audit(b)
      PROVE  view' = view
  BY <1>6 DEF CaptureAudit, CaptureOpen, CaptureClose, CaptureVerify,
              VerifyDescriptor, Audit
<1>7. ASSUME NEW b \in Builders,
             \/ WriteManifest(b) \/ CheckView(b) \/ RemoveFails(b)
             \/ DiskError(b) \/ Crash(b) \/ \E t \in Tasks : WriteTask(b, t)
      PROVE  view' = view
  BY <1>7 DEF WriteManifest, CheckView, RemoveFails, DiskError, Crash, WriteTask
<1>8. ASSUME \/ \E t \in Tasks : RefreshRead(t) \/ RefreshWrites(t) \/ Edit(t)
             \/ RefreshDies \/ UNCHANGED viewVars
      PROVE  view' = view
  BY <1>8 DEF RefreshRead, RefreshWrites, Edit, RefreshDies, viewVars
<1>9. Goal
  BY <1>3, <1>4, <1>5, <1>6, <1>7, <1>8 DEF NextView
<1>10. DescribedManifest' = DescribedManifest
  BY <1>1 DEF DescribedManifest, Described
<1> QED  BY <1>9, <1>10 DEF ManifestOK

\* The job, the trials and the manifest keep their invariant and go forward.
LEMMA FilesStep ==
  ASSUME ViewInv, ~Overwrites, FilesOK, [NextReport]_<<viewVars, reportVars>>
  PROVE  FilesOK' /\ FilesOnward
<1>1. [NextView]_viewVars /\ setup \in Setups
  BY ReportStep DEF ViewInv, ViewTypeOK
<1>2. setup' = setup
  BY <1>1, SetupStays
<1>3. TrialsOK' /\ \A d \in Dirs : Onward(trial[d], trial'[d])
  BY <1>1, TrialStep DEF FilesOK
<1>4. JobOK' /\ JobOnward
  BY <1>1, <1>2, <1>3, JobStep DEF FilesOK
<1>5. ManifestOK' /\ view'.manifest \in {view.manifest, DescribedManifest}
  BY <1>1, ManifestStep DEF FilesOK
<1> QED  BY <1>2, <1>3, <1>4, <1>5 DEF FilesOK, FilesOnward

\* A file that goes forward keeps what it says or leaves it for good.
LEMMA FileLeavesForGood ==
  ASSUME FilesOK, FilesOK', FilesOnward, NEW f \in FileNames, f.kind # "spec",
         NEW v, CurrentFile(f) = v
  PROVE  CurrentFile(f)' = v \/ Superseded(f, v)'
<1>1. f.kind \in FileKinds /\ (f.kind \in {"result", "lock", "reward"} => f.dir \in Dirs)
  BY DEF FileNames
<1>2. CASE f.kind = "job"
  <2>1. job = v /\ CurrentFile(f)' = job'
    BY <1>2 DEF CurrentFile
  <2>2. job' = v \/ OldJob(v)'
    BY <2>1 DEF FilesOnward, JobOnward, OldJob, FilesOK, JobOK, Jobs
  <2> QED  BY <1>2, <2>1, <2>2 DEF Superseded
<1>3. ASSUME f.dir \in Dirs
      PROVE  /\ Onward(trial[f.dir], trial'[f.dir])
             /\ \/ trial[f.dir].result \in {Missing, Malformed}
                \/ Ok(trial[f.dir].result)
             /\ trial[f.dir].reward = Missing \/ Ok(trial[f.dir].reward)
  BY <1>3 DEF FilesOnward, FilesOK, TrialsOK
<1>4. CASE f.kind = "result"
  <2>1. trial[f.dir].result = v /\ CurrentFile(f)' = trial'[f.dir].result
    BY <1>4 DEF CurrentFile
  <2>2. trial'[f.dir].result = v \/ OldResult(trial'[f.dir], v)
    BY <1>1, <1>3, <1>4, <2>1, FileValues DEF Onward, OldResult
  <2> QED  BY <1>4, <2>1, <2>2 DEF Superseded
<1>5. CASE f.kind = "lock"
  <2>1. trial[f.dir].lock = v /\ CurrentFile(f)' = trial'[f.dir].lock
    BY <1>5 DEF CurrentFile
  <2>2. trial'[f.dir].lock = v \/ OldLock(trial'[f.dir], v)
    BY <1>1, <1>3, <1>5, <2>1 DEF Onward, OldLock
  <2> QED  BY <1>5, <2>1, <2>2 DEF Superseded
<1>6. CASE f.kind = "reward"
  <2>1. trial[f.dir].reward = v /\ CurrentFile(f)' = trial'[f.dir].reward
    BY <1>6 DEF CurrentFile
  <2>2. trial'[f.dir].reward = v \/ OldReward(trial'[f.dir], v)
    BY <1>1, <1>3, <1>6, <2>1 DEF Onward, OldReward
  <2> QED  BY <1>6, <2>1, <2>2 DEF Superseded
<1>7. CASE f.kind = "manifest"
  <2> DEFINE Read(m) == IF m = NoManifest THEN Missing ELSE [is |-> "ok", tasks |-> m]
  <2>1. Read(view.manifest) = v /\ CurrentFile(f)' = Read(view'.manifest)
    BY <1>7 DEF CurrentFile, NoManifest
  <2>2. \/ view'.manifest = view.manifest
        \/ view.manifest = NoManifest /\ view'.manifest # NoManifest
    BY DEF FilesOnward, FilesOK, ManifestOK
  <2>3. NoManifest' = NoManifest
    BY DEF NoManifest
  <2> QED  BY <1>7, <2>1, <2>2, <2>3 DEF Superseded
<1> QED  BY <1>1, <1>2, <1>4, <1>5, <1>6, <1>7 DEF FileKinds

\* What a file has left it does not come back to.
LEMMA StaysSuperseded ==
  ASSUME FilesOK, FilesOK', FilesOnward, NEW f \in FileNames, NEW v, Superseded(f, v)
  PROVE  Superseded(f, v)'
<1>1. f.kind \in {"result", "lock", "reward"} => f.dir \in Dirs
  BY DEF FileNames
<1>2. CASE f.kind = "job" /\ OldJob(v)
  <2>1. OldJob(v)'
    BY <1>2 DEF FilesOnward, JobOnward, OldJob, FilesOK, JobOK, Jobs
  <2> QED  BY <1>2, <2>1 DEF Superseded
<1>3. CASE f.kind = "result" /\ OldResult(trial[f.dir], v)
  <2>1. OldResult(trial'[f.dir], v)
    <3>1. /\ Onward(trial[f.dir], trial'[f.dir])
          /\ \/ trial[f.dir].result \in {Missing, Malformed}
             \/ Ok(trial[f.dir].result)
      BY <1>1, <1>3 DEF FilesOnward, FilesOK, TrialsOK
    <3> QED  BY <1>3, <3>1, FileValues DEF Onward, OldResult
  <2> QED  BY <1>3, <2>1 DEF Superseded, OldResult
<1>4. CASE f.kind = "lock" /\ OldLock(trial[f.dir], v)
  <2>1. OldLock(trial'[f.dir], v)
    BY <1>1, <1>4 DEF FilesOnward, Onward, OldLock
  <2> QED  BY <1>4, <2>1 DEF Superseded, OldLock
<1>5. CASE f.kind = "reward" /\ OldReward(trial[f.dir], v)
  <2>1. OldReward(trial'[f.dir], v)
    <3>1. Onward(trial[f.dir], trial'[f.dir])
      BY <1>1, <1>5 DEF FilesOnward
    <3> QED  BY <1>5, <3>1 DEF Onward, OldReward
  <2> QED  BY <1>5, <2>1 DEF Superseded, OldReward
<1>6. CASE f.kind = "manifest" /\ v = Missing /\ view.manifest # NoManifest
  <2>1. view'.manifest # NoManifest
    BY <1>6 DEF FilesOnward, FilesOK, ManifestOK
  <2> QED  BY <1>6, <2>1 DEF Superseded, NoManifest
<1> QED  BY <1>2, <1>3, <1>4, <1>5, <1>6 DEF Superseded

\* What was superseded is not what the file says.
LEMMA SupersededDiffers ==
  ASSUME FilesOK, NEW f \in FileNames, NEW v, Superseded(f, v)
  PROVE  CurrentFile(f) # v
<1>1. f.kind \in {"result", "lock", "reward"} => f.dir \in Dirs
  BY DEF FileNames
<1>2. CASE f.kind = "job" /\ OldJob(v)
  BY <1>2 DEF CurrentFile, OldJob, FilesOK, JobOK, Jobs
<1>3. CASE f.kind = "result" /\ OldResult(trial[f.dir], v)
  BY <1>3, FileValues DEF CurrentFile, OldResult
<1>4. CASE f.kind = "lock" /\ OldLock(trial[f.dir], v)
  BY <1>4 DEF CurrentFile, OldLock
<1>5. CASE f.kind = "reward" /\ OldReward(trial[f.dir], v)
  BY <1>5 DEF CurrentFile, OldReward
<1>6. CASE f.kind = "manifest" /\ v = Missing /\ view.manifest # NoManifest
  <2>1. CurrentFile(f).is = "ok" /\ v.is = "missing"
    BY <1>6 DEF CurrentFile, Missing
  <2> QED  BY <2>1
<1> QED  BY <1>2, <1>3, <1>4, <1>5, <1>6 DEF Superseded
-----------------------------------------------------------------------------
(***************************************************************************)
(* The reader.                                                             *)
(***************************************************************************)
\* A report that was recorded stays so while the files go forward.
LEMMA RecordedStays ==
  ASSUME FilesOK, FilesOK', FilesOnward, NEW i, Recorded(i)
  PROVE  Recorded(i)'
BY StaysSuperseded DEF Recorded

\* What is in hand stays so.
LEMMA InHandStays ==
  ASSUME FilesOK, FilesOK', FilesOnward, NEW f \in FileNames, NEW v, InHand(f, v)
  PROVE  InHand(f, v)'
<1>1. f.kind # "spec" /\ (CurrentFile(f) = v \/ Superseded(f, v))
  BY DEF InHand
<1>2. CASE CurrentFile(f) = v
  BY <1>1, <1>2, FileLeavesForGood DEF InHand
<1>3. CASE Superseded(f, v)
  BY <1>1, <1>3, StaysSuperseded DEF InHand
<1> QED  BY <1>1, <1>2, <1>3

\* The names of the files a report reads.
LEMMA NamesOfFiles ==
  /\ JobFile \in FileNames
  /\ \A d \in Dirs : /\ ResultOf(d) \in FileNames /\ LockOf(d) \in FileNames
                     /\ File("reward", d, "none") \in FileNames
  /\ \A d \in Dirs \cup {0}, t \in Tasks : /\ File("manifest", d, t) \in FileNames
                                           /\ File("spec", d, t) \in FileNames
BY DEF File, FileNames, FileKinds, JobFile, ResultOf, LockOf

LEMMA KindsOfFiles ==
  /\ JobFile.kind = "job"
  /\ \A k, d, t : File(k, d, t).kind = k /\ File(k, d, t).dir = d
  /\ \A d : /\ ResultOf(d).kind = "result" /\ ResultOf(d).dir = d
            /\ LockOf(d).kind = "lock"
BY DEF File, JobFile, ResultOf, LockOf

\* Of the directories that are left there is a first.
LEMMA LeastNat ==
  ASSUME NEW T, T \subseteq Nat, T # {}
  PROVE  \E n \in T : \A m \in T : n <= m
<1> DEFINE R == {ss \in Nat \X Nat : ss[1] < ss[2]}
<1>1. IsWellFoundedOn(R, Nat)
  BY NatLessThanWellFounded DEF OpToRel
<1>2. \A m, n \in Nat : m < n => <<m, n>> \in R
  OBVIOUS
<1> HIDE DEF R
<1>3. PICK n \in T : \A m \in T : ~ (<<m, n>> \in R)
  BY <1>1, WFMin
<1>4. T \subseteq Nat /\ n \in Nat
  OBVIOUS
<1>5. ASSUME NEW m \in T PROVE n <= m
  <2>1. ~ (m < n)
    BY <1>2, <1>3, <1>4
  <2> QED  BY <1>4, <2>1
<1> QED  BY <1>5

LEMMA FirstDirectory ==
  ASSUME setup \in Setups, NEW D, D \subseteq Dirs, D # {}
  PROVE  Min(D) \in D /\ \A d \in D : Min(D) <= d
<1>1. \E n \in D : \A m \in D : n <= m
  BY LeastNat, PlanFacts
<1> QED  BY <1>1 DEF Min
-----------------------------------------------------------------------------
(***************************************************************************)
(* What a step does to the reader.                                         *)
(***************************************************************************)
\* It goes on to phase, with these directories and files before it.
Turns(phase, dirs, todo) ==
  /\ reader'.step = "reading" /\ reader'.phase = phase /\ reader'.dirs = dirs
  /\ reader'.todo = todo /\ reader'.inputs = reader.inputs

\* It notes what it has read of the first file.
Notes(file, ref, parsed) ==
  /\ reader'.step = "reading" /\ reader'.phase = reader.phase
  /\ reader'.dirs = reader.dirs /\ reader'.todo = Tail(reader.todo)
  /\ reader'.inputs = reader.inputs \cup {[file |-> file, ref |-> ref, parsed |-> parsed]}

\* It ends, refused or written, and keeps nothing.
Rests ==
  /\ reader'.step = "idle" /\ reader'.inputs = {} /\ reader'.todo = <<>>
  /\ reader'.dirs = {}

NoResults(files) == \A k \in 1..Len(files) : files[k].kind # "result"

LEMMA NoFiles ==
  ASSUME NEW files, files = <<>>
  PROVE  NoResults(files)
BY DEF NoResults

\* Short lists of files.
LEMMA ShortLists ==
  ASSUME NEW S
  PROVE  /\ <<>> \in Seq(S)
         /\ \A a \in S : <<a>> \in Seq(S)
         /\ \A a, b \in S : <<a, b>> \in Seq(S)
         /\ \A a, b, c \in S : /\ <<a, b>> \o <<c>> \in Seq(S)
                               /\ Len(<<a, b>> \o <<c>>) = 3
                               /\ \A k \in 1..3 : (<<a, b>> \o <<c>>)[k] \in {a, b, c}
<1>1. <<>> \in Seq(S)
  OBVIOUS
<1>2. ASSUME NEW a \in S PROVE <<a>> \in Seq(S)
  OBVIOUS
<1>3. ASSUME NEW a \in S, NEW b \in S PROVE <<a, b>> \in Seq(S)
  OBVIOUS
<1>4. ASSUME NEW a \in S, NEW b \in S, NEW c \in S PROVE <<a, b>> \o <<c>> \in Seq(S)
  OBVIOUS
<1>5. ASSUME NEW a \in S, NEW b \in S, NEW c \in S 
      PROVE  /\ Len(<<a, b>> \o <<c>>) = 3
             /\ \A k \in 1..3 : (<<a, b>> \o <<c>>)[k] \in {a, b, c}
  <2>1. PICK x, y \in Seq(S) : x = <<a, b>> /\ y = <<c>>
    BY <1>2, <1>3
  <2>2. Len(x) = 2 /\ Len(y) = 1 /\ x[1] = a /\ x[2] = b /\ y[1] = c
    BY <2>1
  <2>3. /\ Len(x \o y) = Len(x) + Len(y)
        /\ \A k \in 1..(Len(x) + Len(y)) :
             (x \o y)[k] = IF k <= Len(x) THEN x[k] ELSE y[k - Len(x)]
    BY ConcatProperties
  <2>4. \A k \in 1..3 : k = 1 \/ k = 2 \/ k = 3
    OBVIOUS
  <2> QED  BY <2>1, <2>2, <2>3, <2>4
<1> QED  BY <1>1, <1>2, <1>3, <1>4, <1>5

LEMMA ShapeTurns ==
  ASSUME ReaderShape, Shaped(reader'), reader'.step \in {"idle", "reading"},
         reader'.dirs \subseteq Dirs, reader'.todo \in Seq(FileNames),
         reader'.inputs \subseteq reader.inputs,
         reader'.phase = "opened" /\ reader'.step # "idle" =>
           reader'.dirs # {} /\ \A d \in {Min(reader'.dirs)} : ResultRead(d)'
  PROVE  ReaderShape'
BY DEF ReaderShape

LEMMA RefuseStep ==
  ASSUME ReaderShape, Refuse
  PROVE  ReaderShape' /\ Rests
<1>1. Shaped(reader')
  BY DEF Refuse, ReaderShape, Shaped
<1>2. Rests
  BY DEF Refuse, ReaderShape, Shaped, Fields, Rests
<1>3. reader'.todo \in Seq(FileNames)
  BY <1>2, ShortLists DEF Rests
<1> QED  BY <1>1, <1>2, <1>3, ShapeTurns DEF Rests

\* summarize begins; a plan that contradicts itself is refused.
LEMMA BeginStep ==
  ASSUME ReaderShape, Summarize
  PROVE  /\ ReaderShape' /\ reader.step = "idle"
         /\ \/ Turns("job", reader.dirs, <<JobFile>>)
            \/ /\ reader'.step = "idle" /\ reader'.dirs = reader.dirs
               /\ reader'.inputs = reader.inputs /\ reader'.todo = <<>>
<1>1. Shaped(reader')
  BY DEF Summarize, ReaderShape, Shaped
<1>2. PICK f \in FileNames : f = JobFile
  BY NamesOfFiles
<1>3. /\ reader.step = "idle" /\ reader'.phase = "job"
      /\ reader'.dirs = reader.dirs /\ reader'.inputs = reader.inputs
      /\ \/ reader'.step = "idle" /\ reader'.todo = <<>>
         \/ reader'.step = "reading" /\ reader'.todo = <<f>>
  BY <1>2 DEF Summarize, ReaderShape, Shaped, Fields, JobFile
<1>4. reader'.todo \in Seq(FileNames)
  <2>1. <<f>> \in Seq(FileNames) /\ <<>> \in Seq(FileNames)
    BY ShortLists
  <2> QED  BY <1>3, <2>1
<1>5. reader'.dirs \subseteq Dirs
  BY <1>3 DEF ReaderShape
<1>6. ReaderShape'
  BY <1>1, <1>3, <1>4, <1>5, ShapeTurns
<1> QED  BY <1>2, <1>3, <1>6 DEF Turns

\* What is noted of the file that was read.
LEMMA NoteStep ==
  ASSUME ReaderShape, reader.todo # <<>>, reader.step # "idle",
         NEW file, file = Head(reader.todo), NEW ref, NEW parsed,
         reader' = Noted(file, ref, parsed),
         file.kind = "result" /\ Ok(parsed) => parsed.task \in Tasks
  PROVE  ReaderShape' /\ Notes(file, ref, parsed)
<1> DEFINE new == [file |-> file, ref |-> ref, parsed |-> parsed]
<1>1. reader.todo \in Seq(FileNames) /\ reader.todo # <<>>
  BY DEF ReaderShape
<1>2. Tail(reader.todo) \in Seq(FileNames)
  BY <1>1
<1>3. new.file = file /\ new.parsed = parsed
  OBVIOUS
<1>4. reader' = [reader EXCEPT !.step = "reading", !.ref = Missing, !.todo = Tail(@),
                               !.inputs = @ \cup {new}]
  BY DEF Noted
<1> HIDE DEF new
<1>5. Shaped(reader')
  BY <1>4 DEF ReaderShape, Shaped
<1>6. /\ reader'.step = "reading" /\ reader'.phase = reader.phase
      /\ reader'.dirs = reader.dirs /\ reader'.inputs = reader.inputs \cup {new}
      /\ reader'.todo = Tail(reader.todo)
  BY <1>4 DEF ReaderShape, Shaped, Fields
<1>7. \A i \in reader'.inputs : i.file.kind = "result" /\ Ok(i.parsed) => i.parsed.task \in Tasks
  BY <1>3, <1>6 DEF ReaderShape
<1>8. ASSUME reader.phase = "opened", NEW d, d = Min(reader.dirs)
      PROVE  ResultRead(d)'
  <2>1. ResultRead(d)
    BY <1>8 DEF ReaderShape
  <2>2. PICK result, lock : result = ResultOf(d) /\ lock = LockOf(d)
    OBVIOUS
  <2>3. \/ reader.todo = <<result, lock>>
        \/ reader.todo = <<lock>> /\ \E i \in reader.inputs : i.file = result
    BY <1>1, <2>1, <2>2 DEF ResultRead
  <2>4. /\ reader'.todo \in {<<lock>>, <<>>}
        /\ \E i \in reader'.inputs : i.file = result
    <3>1. CASE reader.todo = <<result, lock>>
      <4>1. file = result /\ Tail(reader.todo) = <<lock>>
        BY <3>1
      <4> QED  BY <1>3, <1>6, <4>1
    <3>2. CASE reader.todo = <<lock>> /\ \E i \in reader.inputs : i.file = result
      <4>1. Tail(reader.todo) = <<>>
        BY <3>2
      <4> QED  BY <1>6, <3>2, <4>1
    <3> QED  BY <2>3, <3>1, <3>2
  <2> QED  BY <2>2, <2>4 DEF ResultRead
<1>9. reader'.phase = "opened" =>
        reader'.dirs # {} /\ \A d \in {Min(reader'.dirs)} : ResultRead(d)'
  BY <1>6, <1>8 DEF ReaderShape
<1>10. reader'.dirs \subseteq Dirs /\ reader'.todo \in Seq(FileNames)
  BY <1>2, <1>6 DEF ReaderShape
<1>11. ReaderShape'
  BY <1>5, <1>6, <1>7, <1>9, <1>10 DEF ReaderShape
<1> QED  BY <1>6, <1>11 DEF Notes, new

\* The first of the two reads, for the digest: what is there is parsed next.
LEMMA HashStep ==
  ASSUME ReaderShape, HashFile
  PROVE  \E file \in FileNames : \E now :
           /\ reader.step = "reading" /\ reader.todo # <<>>
           /\ file = Head(reader.todo) /\ now = CurrentFile(file)
           /\ ReaderShape'
           /\ \/ Notes(file, now, now)
              \/ /\ file.kind # "spec" /\ reader'.step = "parsing" /\ reader'.ref = now
                 /\ reader'.phase = reader.phase /\ reader'.dirs = reader.dirs
                 /\ reader'.todo = reader.todo /\ reader'.inputs = reader.inputs
<1>1. reader.step = "reading" /\ reader.todo # <<>> /\ reader.todo \in Seq(FileNames)
  BY DEF HashFile, ReaderShape
<1>2. PICK file \in FileNames : file = Head(reader.todo)
  BY <1>1
<1>3. PICK now : now = CurrentFile(file)
  OBVIOUS
<1>4. IF now = Missing \/ file.kind = "spec"
        THEN reader' = Noted(file, now, now)
        ELSE reader' = [reader EXCEPT !.step = "parsing", !.ref = now]
  BY <1>2, <1>3 DEF HashFile
<1>5. CASE now = Missing \/ file.kind = "spec"
  <2>1. file.kind = "result" /\ Ok(now) => now.task \in Tasks
    BY <1>5, FileValues
  <2>2. reader' = Noted(file, now, now)
    BY <1>4, <1>5
  <2>3. ReaderShape' /\ Notes(file, now, now)
    BY <1>1, <1>2, <2>1, <2>2, NoteStep
  <2> QED  BY <1>1, <1>2, <1>3, <2>3
<1>6. CASE ~(now = Missing \/ file.kind = "spec")
  <2>1. reader' = [reader EXCEPT !.step = "parsing", !.ref = now]
    BY <1>4, <1>6
  <2>2. Shaped(reader')
    BY <2>1 DEF ReaderShape, Shaped
  <2>3. /\ reader'.step = "parsing" /\ reader'.phase = reader.phase
        /\ reader'.dirs = reader.dirs /\ reader'.inputs = reader.inputs
        /\ reader'.todo = reader.todo /\ reader'.ref = now
    BY <2>1 DEF ReaderShape, Shaped, Fields
  <2>4. \A d : ResultRead(d)' <=> ResultRead(d)
    BY <2>3 DEF ResultRead
  <2>5. reader'.phase = "opened" =>
          reader'.dirs # {} /\ \A d \in {Min(reader'.dirs)} : ResultRead(d)'
    BY <1>1, <2>3, <2>4 DEF ReaderShape
  <2>6. /\ reader'.dirs \subseteq Dirs /\ reader'.todo \in Seq(FileNames)
        /\ \A i \in reader'.inputs :
             i.file.kind = "result" /\ Ok(i.parsed) => i.parsed.task \in Tasks
    BY <2>3 DEF ReaderShape
  <2>7. ReaderShape'
    BY <1>1, <2>2, <2>3, <2>5, <2>6 DEF ReaderShape
  <2> QED  BY <1>1, <1>2, <1>3, <1>6, <2>3, <2>7
<1> QED  BY <1>5, <1>6

\* The second, for what it says.
LEMMA ParseStep ==
  ASSUME ReaderShape, TrialsOK, ParseFile
  PROVE  \E file \in FileNames : \E parsed :
           /\ reader.step = "parsing" /\ reader.todo # <<>>
           /\ file = Head(reader.todo) /\ parsed = CurrentFile(file)
           /\ ReaderShape' /\ Notes(file, reader.ref, parsed)
<1>1. reader.step = "parsing" /\ reader.todo # <<>> /\ reader.todo \in Seq(FileNames)
  BY DEF ParseFile, ReaderShape
<1>2. PICK file \in FileNames : file = Head(reader.todo)
  BY <1>1
<1>3. PICK ref : ref = reader.ref
  OBVIOUS
<1>4. PICK parsed : parsed = CurrentFile(file)
  OBVIOUS
<1>5. reader' = Noted(file, ref, parsed)
  BY <1>2, <1>3, <1>4 DEF ParseFile
<1>6. file.kind = "result" /\ Ok(parsed) => parsed.task \in Tasks
  <2>1. file.kind = "result" => file.dir \in Dirs /\ parsed = trial[file.dir].result
    BY <1>4 DEF FileNames, CurrentFile
  <2> QED  BY <2>1, FileValues DEF TrialsOK
<1>7. ReaderShape' /\ Notes(file, ref, parsed)
  BY <1>1, <1>2, <1>5, <1>6, NoteStep
<1> QED  BY <1>1, <1>2, <1>3, <1>4, <1>7
\* _trial_directories.
LEMMA ListStep ==
  ASSUME ReaderShape, ListTrials
  PROVE  /\ ReaderShape'
         /\ Turns("trials",
                  {d \in Dirs : trial[d].lock # Missing \/ trial[d].result # Missing}, <<>>)
<1>1. PICK listed \in SUBSET Dirs :
        /\ listed = {d \in Dirs : trial[d].lock # Missing \/ trial[d].result # Missing}
        /\ reader' = [reader EXCEPT !.phase = "trials", !.dirs = listed]
  BY DEF ListTrials
<1>2. Shaped(reader')
  BY <1>1 DEF ReaderShape, Shaped
<1>3. /\ reader'.step = "reading" /\ reader'.phase = "trials"
      /\ reader'.dirs = listed /\ reader'.inputs = reader.inputs
      /\ reader'.todo = <<>>
  BY <1>1 DEF ListTrials, Reading, ReaderShape, Shaped, Fields
<1>4. reader'.todo \in Seq(FileNames)
  BY <1>3, ShortLists
<1>5. ReaderShape'
  BY <1>2, <1>3, <1>4, ShapeTurns
<1> QED  BY <1>1, <1>3, <1>5 DEF Turns

\* The first directory that is left is opened.
LEMMA OpenStep ==
  ASSUME ReaderShape, setup \in Setups, OpenTrial
  PROVE  /\ ReaderShape'
         /\ \E d \in Dirs : /\ d = Min(reader.dirs) /\ d \in reader.dirs
                            /\ Turns("opened", reader.dirs, <<ResultOf(d), LockOf(d)>>)
<1>1. PICK d : d = Min(reader.dirs)
  OBVIOUS
<1>2. reader.dirs \subseteq Dirs /\ reader.dirs # {} /\ d \in Dirs /\ d \in reader.dirs
  BY <1>1, FirstDirectory DEF OpenTrial, ReaderShape
<1>3. PICK result \in FileNames : result = ResultOf(d)
  BY <1>2, NamesOfFiles
<1>4. PICK lock \in FileNames : lock = LockOf(d)
  BY <1>2, NamesOfFiles
<1>5. reader' = [reader EXCEPT !.phase = "opened", !.todo = <<result, lock>>]
  BY <1>1, <1>3, <1>4 DEF OpenTrial, ResultOf, LockOf
<1>6. Shaped(reader')
  BY <1>5 DEF ReaderShape, Shaped
<1>7. /\ reader'.step = "reading" /\ reader'.phase = "opened"
      /\ reader'.dirs = reader.dirs /\ reader'.inputs = reader.inputs
      /\ reader'.todo = <<result, lock>>
  BY <1>5 DEF OpenTrial, Reading, ReaderShape, Shaped, Fields
<1>8. reader'.todo \in Seq(FileNames)
  BY <1>7, ShortLists
<1>9. ResultRead(d)'
  BY <1>3, <1>4, <1>7 DEF ResultRead
<1>10. reader'.dirs # {} /\ \A e \in {Min(reader'.dirs)} : ResultRead(e)'
  BY <1>1, <1>2, <1>7, <1>9
<1>11. ReaderShape'
  BY <1>2, <1>6, <1>7, <1>8, <1>10, ShapeTurns
<1> QED  BY <1>1, <1>2, <1>3, <1>4, <1>7, <1>11 DEF Turns

\* The directory is taken: the files of its task are next, or the report is
\* refused.
LEMMA TakeStep ==
  ASSUME ReaderShape, setup \in Setups, TakeTrial
  PROVE  /\ ReaderShape'
         /\ reader.step = "reading" /\ reader.phase = "opened" /\ reader.todo = <<>>
         /\ \E d \in Dirs :
              /\ d = Min(reader.dirs) /\ d \in reader.dirs
              /\ \E i \in reader.inputs : i.file = ResultOf(d)
              /\ \/ Rests
                 \/ /\ ~(Ok(Got(reader.inputs, ResultOf(d))) /\ Duplicate(d))
                    /\ \E todo : /\ NoResults(todo)
                                 /\ Turns("trials", reader.dirs \ {d}, todo)
<1>1. PICK d : d = Min(reader.dirs)
  OBVIOUS
<1>2. /\ reader.step = "reading" /\ reader.phase = "opened" /\ reader.todo = <<>>
      /\ reader.dirs \subseteq Dirs /\ reader.dirs # {} /\ d \in Dirs /\ d \in reader.dirs
      /\ ResultRead(d)
  BY <1>1, FirstDirectory DEF TakeTrial, Reading, ReaderShape
<1>3. PICK result \in FileNames : result = ResultOf(d)
  BY <1>2, NamesOfFiles
<1>4. PICK told : told = Got(reader.inputs, result)
  OBVIOUS
<1>5. \E i \in reader.inputs : i.file = result
  BY <1>2, <1>3 DEF ResultRead
<1>6. Ok(told) => told.task \in Tasks
  <2>1. PICK i \in reader.inputs : i.file = result /\ told = i.parsed
    BY <1>4, <1>5 DEF Got
  <2>2. i.file.kind = "result"
    BY <1>3, <2>1, KindsOfFiles
  <2> QED  BY <2>1, <2>2 DEF ReaderShape
<1>7. CASE Refuse
  <2>1. ReaderShape' /\ Rests
    BY <1>7, RefuseStep
  <2> QED  BY <1>1, <1>2, <1>3, <1>5, <2>1
<1>8. CASE ~Refuse
  <2>1. PICK todo :
          /\ reader' = [reader EXCEPT !.phase = "trials", !.dirs = @ \ {d}, !.todo = todo]
          /\ todo = IF Ok(told) THEN TaskFiles(d, told.task) \o <<File("reward", d, "none")>>
                                ELSE <<>>
    BY <1>1, <1>3, <1>4, <1>8 DEF TakeTrial, ResultOf
  <2>2. todo \in Seq(FileNames) /\ NoResults(todo)
    <3>1. CASE Ok(told)
      <4>1. PICK a, b, c \in FileNames :
              /\ a = File("manifest", d, told.task) /\ b = File("spec", d, told.task)
              /\ c = File("reward", d, "none")
        BY <1>2, <1>6, <3>1, NamesOfFiles
      <4>2. todo = <<a, b>> \o <<c>>
        BY <2>1, <3>1, <4>1 DEF TaskFiles
      <4>3. a.kind # "result" /\ b.kind # "result" /\ c.kind # "result"
        BY <4>1, KindsOfFiles
      <4>4. /\ <<a, b>> \o <<c>> \in Seq(FileNames) /\ Len(<<a, b>> \o <<c>>) = 3
            /\ \A k \in 1..3 : (<<a, b>> \o <<c>>)[k] \in {a, b, c}
        BY ShortLists
      <4> QED  BY <4>2, <4>3, <4>4 DEF NoResults
    <3>2. CASE ~Ok(told)
      BY <2>1, <3>2, ShortLists DEF NoResults
    <3> QED  BY <3>1, <3>2
  <2>3. Shaped(reader')
    BY <2>1 DEF ReaderShape, Shaped
  <2>4. /\ reader'.step = "reading" /\ reader'.phase = "trials"
        /\ reader'.dirs = reader.dirs \ {d} /\ reader'.inputs = reader.inputs
        /\ reader'.todo = todo
    BY <1>2, <2>1 DEF ReaderShape, Shaped, Fields
  <2>5. reader'.dirs \subseteq Dirs
    BY <1>2, <2>4
  <2>6. ReaderShape'
    BY <2>2, <2>3, <2>4, <2>5, ShapeTurns
  <2>7. ~(Ok(told) /\ Duplicate(d))
    BY <1>1, <1>3, <1>4, <1>8 DEF TakeTrial, ResultOf
  <2>8. Turns("trials", reader.dirs \ {d}, todo)
    BY <2>4 DEF Turns
  <2> QED  BY <1>1, <1>2, <1>3, <1>4, <1>5, <2>2, <2>6, <2>7, <2>8
<1> QED  BY <1>7, <1>8

\* The tasks of the attempts nobody made are tasks of the plan.
LEMMA TasksLacking ==
  ASSUME setup \in Setups, NEW rows
  PROVE  LET tasks == {r.group.task : r \in MissingRows(rows)}
         IN tasks \subseteq Tasks /\ IsFiniteSet(tasks)
<1> DEFINE tasks == {r.group.task : r \in MissingRows(rows)}
           Of(i) == setup.plan[i].task
           planned == {Of(i) : i \in Planned}
<1>1. ASSUME NEW r \in MissingRows(rows) PROVE r.group.task \in planned
  <2>1. PICK g \in Groups : r \in {[dir |-> 0, attempt |-> k, group |-> g] : k \in Lacking(rows, g)}
    BY DEF MissingRows
  <2>2. r.group = g
    BY <2>1
  <2> QED  BY <2>1, <2>2 DEF Groups
<1>2. planned \subseteq Tasks /\ IsFiniteSet(Planned)
  BY PlanFacts
<1>3. IsFiniteSet(planned)
  <2>1. PICK f : f = [i \in Planned |-> Of(i)]
    OBVIOUS
  <2>2. f \in Surjection(Planned, planned)
    BY <2>1 DEF Surjection
  <2> HIDE DEF planned
  <2> QED  BY <1>2, <2>2, FS_Surjection
<1> HIDE DEF planned
<1>4. tasks \subseteq planned
  BY <1>1
<1> QED  BY <1>2, <1>3, <1>4, FS_Subset

\* A finite set in some order.
LEMMA SomeOrder ==
  ASSUME NEW S, IsFiniteSet(S)
  PROVE  SetToSeq(S) \in Seq(S)
<1>1. PICK n \in Nat : ExistsBijection(1..n, S)
  BY FS_NatBijection
<1>2. PICK f : f \in [1..n -> S] /\ IsInjective(f)
  BY <1>1 DEF ExistsBijection, Bijection, Injection
<1>3. n = Cardinality(S)
  BY <1>1, FS_CountingElements
<1>4. SetToSeq(S) \in [1..n -> S]
  BY <1>2, <1>3 DEF SetToSeq
<1> QED  BY <1>4

\* The rows of the attempts nobody made.
LEMMA PlanStep ==
  ASSUME ReaderShape, setup \in Setups, PlanMissing
  PROVE  ReaderShape' /\ \E todo : NoResults(todo) /\ Turns("planned", {}, todo)
<1>1. PICK lacking : lacking = {r.group.task : r \in MissingRows(ObservedRows(reader.inputs))}
  OBVIOUS
<1>2. lacking \subseteq Tasks /\ IsFiniteSet(lacking)
  BY <1>1, TasksLacking
<1>3. PICK tasks : tasks = SetToSeq(lacking)
  OBVIOUS
<1>4. tasks \in Seq(Tasks)
  BY <1>2, <1>3, SomeOrder
<1>5. PICK todo :
        /\ todo = [k \in 1..(2 * Len(tasks)) |->
                     File(IF k % 2 = 1 THEN "manifest" ELSE "spec", 0, tasks[(k + 1) \div 2])]
        /\ reader' = [reader EXCEPT !.phase = "planned", !.todo = todo]
  BY <1>1, <1>3 DEF PlanMissing
<1>6. todo \in Seq(FileNames) /\ NoResults(todo)
  <2>1. PICK n \in Nat : n = Len(tasks)
    BY <1>4
  <2>2. ASSUME NEW k \in 1..(2 * n)
        PROVE  \E f \in FileNames :
                 /\ f = File(IF k % 2 = 1 THEN "manifest" ELSE "spec", 0, tasks[(k + 1) \div 2])
                 /\ f.kind # "result"
    <3>1. (k + 1) \div 2 \in 1..n
      OBVIOUS
    <3>2. PICK t \in Tasks : t = tasks[(k + 1) \div 2]
      BY <1>4, <2>1, <3>1
    <3>3. File("manifest", 0, t) \in FileNames /\ File("spec", 0, t) \in FileNames
      BY NamesOfFiles
    <3>4. File("manifest", 0, t).kind # "result" /\ File("spec", 0, t).kind # "result"
      BY KindsOfFiles
    <3> QED  BY <3>2, <3>3, <3>4
  <2>3. todo \in [1..(2 * n) -> FileNames]
    BY <1>5, <2>1, <2>2
  <2>4. todo \in Seq(FileNames) /\ Len(todo) = 2 * n
    BY <2>3
  <2>5. \A k \in 1..(2 * n) : todo[k].kind # "result"
    BY <1>5, <2>1, <2>2
  <2> QED  BY <2>4, <2>5 DEF NoResults
<1>7. Shaped(reader')
  BY <1>5 DEF ReaderShape, Shaped
<1>8. /\ reader'.step = "reading" /\ reader'.phase = "planned"
      /\ reader'.dirs = {} /\ reader'.inputs = reader.inputs
      /\ reader'.todo = todo
  BY <1>5 DEF PlanMissing, Reading, ReaderShape, Shaped, Fields
<1>9. ReaderShape'
  BY <1>6, <1>7, <1>8, ShapeTurns
<1> QED  BY <1>6, <1>8, <1>9 DEF Turns

\* The first two of the three files.
LEMMA WriteStep ==
  ASSUME ReaderShape, WriteTrials \/ WriteIssues
  PROVE  /\ ReaderShape'
         /\ \E phase \in {"trials written", "issues written"} :
              Turns(phase, reader.dirs, reader.todo)
<1>1. PICK phase \in {"trials written", "issues written"} :
        reader' = [reader EXCEPT !.phase = phase]
  BY DEF WriteTrials, WriteIssues
<1>2. Shaped(reader')
  BY <1>1 DEF ReaderShape, Shaped
<1>3. /\ reader'.step = "reading" /\ reader'.phase = phase
      /\ reader'.dirs = reader.dirs /\ reader'.inputs = reader.inputs
      /\ reader'.todo = reader.todo
  BY <1>1 DEF WriteTrials, WriteIssues, Reading, ReaderShape, Shaped, Fields
<1>4. reader'.dirs \subseteq Dirs /\ reader'.todo \in Seq(FileNames)
  BY <1>3 DEF ReaderShape
<1>5. ReaderShape'
  BY <1>2, <1>3, <1>4, ShapeTurns
<1> QED  BY <1>3, <1>5 DEF Turns

LEMMA ShapeWaits ==
  ASSUME ReaderShape, reader' = reader
  PROVE  ReaderShape'
<1>1. \A d : ResultRead(d)' <=> ResultRead(d)
  BY DEF ResultRead
<1> QED  BY <1>1 DEF ReaderShape, Shaped

LEMMA ShapeStep ==
  ASSUME ReaderShape, setup \in Setups, TrialsOK, [NextReport]_<<viewVars, reportVars>>
  PROVE  ReaderShape'
<1>1. CASE UNCHANGED reader
  BY <1>1, ShapeWaits
<1>2. CASE WriteSummary
  BY <1>2, RefuseStep DEF WriteSummary
<1>3. ASSUME NEW d \in Dirs, StartTrial(d) \/ TrialEnds(d) \/ CopyTrial(d)
      PROVE  UNCHANGED reader
  BY <1>3 DEF StartTrial, TrialEnds, CopyTrial
<1>4. ASSUME NEW d \in Dirs, NEW s, Judge(d, s) \/ Regraded(d, s)
      PROVE  UNCHANGED reader
  BY <1>4 DEF Judge, Regraded
<1>5. ASSUME JobUpdates \/ UNCHANGED reportVars
      PROVE  UNCHANGED reader
  BY <1>5 DEF JobUpdates, reportVars
<1>6. CASE HashFile
  BY <1>6, HashStep
<1>7. CASE ParseFile
  BY <1>7, ParseStep
<1> QED
  BY <1>1, <1>2, <1>3, <1>4, <1>5, <1>6, <1>7, BeginStep, ListStep, OpenStep,
     TakeStep, PlanStep, WriteStep DEF NextReport
-----------------------------------------------------------------------------
(***************************************************************************)
(* verify finds what has changed.                                          *)
(***************************************************************************)
\* The summary names what the report was made from.
LEMMA PublishedStep ==
  ASSUME ReaderOK, PublishedOK, FilesOK, FilesOK', FilesOnward,
         [NextReport]_<<viewVars, reportVars>>
  PROVE  PublishedOK'
<1>1. /\ \A i \in reader.inputs : Recorded(i)'
      /\ Ok(published.summary) => \A i \in published.summary.inputs : Recorded(i)'
  BY RecordedStays DEF ReaderOK, PublishedOK
<1>2. CASE UNCHANGED published
  BY <1>1, <1>2 DEF PublishedOK, PublishedShape
<1>3. ASSUME WriteTrials \/ WriteIssues
      PROVE  PublishedOK'
  <2>1. PICK x \in {"trials", "issues"} : \E new : published' = [published EXCEPT ![x] = new]
    BY <1>3 DEF WriteTrials, WriteIssues
  <2>2. /\ published' = [y \in {"trials", "issues", "summary"} |-> published'[y]]
        /\ published'.summary = published.summary
    BY <2>1 DEF PublishedOK, PublishedShape
  <2> QED  BY <1>1, <2>2 DEF PublishedOK, PublishedShape
<1>4. ASSUME WriteSummary PROVE PublishedOK'
  <2>1. PICK a, b, c, e :
          published' = [published EXCEPT !.summary =
            [is |-> "ok", inputs |-> reader.inputs, arms |-> a, complete |-> b,
             trials |-> c, issues |-> e]]
    BY <1>4 DEF WriteSummary
  <2>2. /\ published' = [y \in {"trials", "issues", "summary"} |-> published'[y]]
        /\ published'.summary.inputs = reader.inputs
    BY <2>1 DEF PublishedOK, PublishedShape
  <2> QED  BY <1>1, <2>2 DEF PublishedOK, PublishedShape
<1>5. ASSUME NEW d \in Dirs, StartTrial(d) \/ TrialEnds(d) \/ CopyTrial(d)
      PROVE  UNCHANGED published
  BY <1>5 DEF StartTrial, TrialEnds, CopyTrial
<1>6. ASSUME NEW d \in Dirs, NEW s, Judge(d, s) \/ Regraded(d, s)
      PROVE  UNCHANGED published
  BY <1>6 DEF Judge, Regraded
<1>7. ASSUME \/ JobUpdates \/ Summarize \/ HashFile \/ ParseFile \/ ListTrials
             \/ OpenTrial \/ TakeTrial \/ PlanMissing \/ UNCHANGED reportVars
      PROVE  UNCHANGED published
  BY <1>7 DEF JobUpdates, Summarize, HashFile, ParseFile, ListTrials, OpenTrial,
              TakeTrial, PlanMissing, reportVars
<1> QED
  BY <1>2, <1>3, <1>4, <1>5, <1>6, <1>7 DEF NextReport

\* A step that adds no report, and has nothing in hand.
LEMMA ReaderTurns ==
  ASSUME ReaderOK, FilesOK, FilesOK', FilesOnward,
         reader'.step # "parsing", reader'.inputs \subseteq reader.inputs
  PROVE  ReaderOK'
BY RecordedStays DEF ReaderOK

\* A report of what was in hand, or of one read.
LEMMA ReaderNotes ==
  ASSUME ReaderOK, FilesOK, FilesOK', FilesOnward,
         NEW file \in FileNames, NEW ref, NEW parsed, Notes(file, ref, parsed),
         ref = parsed \/ Superseded(file, ref)'
  PROVE  ReaderOK'
<1>1. PICK new : new = [file |-> file, ref |-> ref, parsed |-> parsed]
  OBVIOUS
<1>2. new.file = file /\ new.ref = ref /\ new.parsed = parsed
  BY <1>1
<1>3. Recorded(new)'
  BY <1>2 DEF Recorded
<1>4. reader'.step = "reading" /\ reader'.inputs = reader.inputs \cup {new}
  BY <1>1 DEF Notes
<1> QED  BY <1>3, <1>4, RecordedStays DEF ReaderOK

\* What is in hand stays in hand while somebody else takes a step.
LEMMA ReaderWaits ==
  ASSUME ReaderShape, ReaderOK, FilesOK, FilesOK', FilesOnward, reader' = reader
  PROVE  ReaderOK'
<1>1. \A i \in reader'.inputs : Recorded(i)'
  BY RecordedStays DEF ReaderOK
<1>2. ASSUME reader.step = "parsing",
             NEW f \in {Head(reader.todo)}, NEW v \in {reader.ref}
      PROVE  InHand(f, v)'
  <2>1. reader.todo \in Seq(FileNames) /\ reader.todo # <<>>
    BY <1>2 DEF ReaderShape
  <2>2. f \in FileNames
    BY <2>1
  <2>3. InHand(f, v)
    BY <1>2 DEF ReaderOK
  <2> QED  BY <2>2, <2>3, InHandStays
<1> QED  BY <1>1, <1>2 DEF ReaderOK

\* The first read takes it in hand.
LEMMA ReaderHashes ==
  ASSUME ReaderShape, ReaderOK, FilesOK, FilesOK', FilesOnward, HashFile
  PROVE  ReaderOK'
<1>1. PICK file, now :
        /\ file \in FileNames /\ file = Head(reader.todo) /\ now = CurrentFile(file)
        /\ \/ Notes(file, now, now)
           \/ /\ file.kind # "spec" /\ reader'.step = "parsing" /\ reader'.ref = now
              /\ reader'.todo = reader.todo /\ reader'.inputs = reader.inputs
  BY HashStep
<1>2. CASE Notes(file, now, now)
  BY <1>1, <1>2, ReaderNotes
<1>3. CASE /\ file.kind # "spec" /\ reader'.step = "parsing" /\ reader'.ref = now
           /\ reader'.todo = reader.todo /\ reader'.inputs = reader.inputs
  <2>1. InHand(file, now)
    BY <1>1, <1>3 DEF InHand
  <2>2. InHand(file, now)'
    BY <1>1, <2>1, InHandStays
  <2>3. \A i \in reader'.inputs : Recorded(i)'
    BY <1>3, RecordedStays DEF ReaderOK
  <2> QED  BY <1>1, <1>3, <2>2, <2>3 DEF ReaderOK
<1> QED  BY <1>1, <1>2, <1>3

\* If the second gives something else, the first was overtaken.
LEMMA ReaderParses ==
  ASSUME ReaderShape, ReaderOK, FilesOK, FilesOK', FilesOnward, ParseFile
  PROVE  ReaderOK'
<1>1. PICK file, parsed :
        /\ file \in FileNames /\ reader.step = "parsing" /\ file = Head(reader.todo)
        /\ parsed = CurrentFile(file) /\ Notes(file, reader.ref, parsed)
  BY ParseStep DEF FilesOK
<1>2. PICK ref : ref = reader.ref
  OBVIOUS
<1>3. InHand(file, ref)
  BY <1>1, <1>2 DEF ReaderOK
<1>4. ref = parsed \/ Superseded(file, ref)'
  BY <1>1, <1>3, StaysSuperseded DEF InHand
<1>5. Notes(file, ref, parsed)
  BY <1>1, <1>2
<1> QED  BY <1>1, <1>4, <1>5, ReaderNotes

\* What a report does.
LEMMA ReaderStep ==
  ASSUME ReaderShape, ReaderOK, setup \in Setups, FilesOK, FilesOK', FilesOnward,
         [NextReport]_<<viewVars, reportVars>>
  PROVE  ReaderOK'
<1>1. CASE UNCHANGED reader
  BY <1>1, ReaderWaits
<1>2. CASE WriteSummary
  BY <1>2, RefuseStep, ReaderTurns DEF WriteSummary, Rests
<1>3. ASSUME NEW d \in Dirs, StartTrial(d) \/ TrialEnds(d) \/ CopyTrial(d)
      PROVE  UNCHANGED reader
  BY <1>3 DEF StartTrial, TrialEnds, CopyTrial
<1>4. ASSUME NEW d \in Dirs, NEW s, Judge(d, s) \/ Regraded(d, s)
      PROVE  UNCHANGED reader
  BY <1>4 DEF Judge, Regraded
<1>5. ASSUME JobUpdates \/ UNCHANGED reportVars
      PROVE  UNCHANGED reader
  BY <1>5 DEF JobUpdates, reportVars
<1>6. CASE Summarize
  BY <1>6, BeginStep, ReaderTurns DEF Turns
<1>7. CASE ListTrials \/ OpenTrial \/ PlanMissing
  BY <1>7, ListStep, OpenStep, PlanStep, ReaderTurns DEF Turns
<1>8. CASE TakeTrial \/ WriteTrials \/ WriteIssues
  BY <1>8, TakeStep, WriteStep, ReaderTurns DEF Turns, Rests
<1> QED
  BY <1>1, <1>2, <1>3, <1>4, <1>5, <1>6, <1>7, <1>8, ReaderHashes, ReaderParses
  DEF NextReport

LEMMA ReportInvStep ==
  ReportInv /\ ~Overwrites /\ [NextReport]_<<viewVars, reportVars>> =>
    ReportInv' /\ ~Overwrites'
<1> SUFFICES ASSUME ReportInv, ~Overwrites, [NextReport]_<<viewVars, reportVars>>
             PROVE  ReportInv' /\ ~Overwrites'
  OBVIOUS
<1>1. [NextView]_viewVars /\ setup \in Setups
  BY ReportStep DEF ReportInv, ViewInv, ViewTypeOK
<1>2. ViewInv'
  BY <1>1, ViewStep DEF ReportInv
<1>3. FilesOK' /\ FilesOnward
  BY FilesStep DEF ReportInv
<1>4. ReaderShape' /\ ReaderOK' /\ PublishedOK'
  BY <1>1, <1>3, ShapeStep, ReaderStep, PublishedStep DEF ReportInv, FilesOK
<1>5. ~Overwrites'
  BY <1>3 DEF FilesOnward, Overwrites
<1> QED  BY <1>2, <1>3, <1>4, <1>5 DEF ReportInv

\* A trial that was there before is one of a task of the plan.
LEMMA FoundTrials ==
  ASSUME setup \in Setups, setup.found \notin {"nothing", "copy"}, NEW d \in Leftover, NEW s
  PROVE  LET t == FoundTrial(d, s)
         IN /\ t = [lock |-> t.lock, reward |-> t.reward, result |-> t.result]
            /\ Ok(t.reward) /\ Ok(t.result) /\ t.result.task \in Tasks
<1>1. /\ setup.plan # <<>>
      /\ setup.plan \in Seq([task : Tasks, agent : STRING \ {"stranger"}, digest : STRING])
  BY ReportAssumption DEF ReportSetup
<1>2. 1 \in Planned /\ d \notin Planned
  BY <1>1 DEF Planned, Leftover
<1>3. setup.plan[1].task \in Tasks
  BY <1>2, PlanFacts
<1>4. PICK told : told = Told(d, IF setup.found = "foreign" THEN "other" ELSE "own",
                              Metrics(s), FALSE)
  OBVIOUS
<1>5. told.is = "ok" /\ told.task = setup.plan[1].task
  BY <1>2, <1>4 DEF Told
<1>6. PICK result : result = IF setup.found = "stranger"
                             THEN [told EXCEPT !.agent = "stranger"] ELSE told
  OBVIOUS
<1>7. result.is = "ok" /\ result.task = setup.plan[1].task
  <2>1. told = [is |-> told.is, id |-> told.id, job |-> told.job, task |-> told.task,
                agent |-> told.agent, exception |-> told.exception, rewards |-> told.rewards]
    BY <1>4 DEF Told
  <2>2. [told EXCEPT !.agent = "stranger"].is = told.is
    BY <2>1
  <2>3. [told EXCEPT !.agent = "stranger"].task = told.task
    BY <2>1
  <2> QED  BY <1>5, <1>6, <2>2, <2>3
<1>8. PICK lock : FoundTrial(d, s) = [lock |-> lock, reward |-> Metrics(s), result |-> result]
  BY <1>4, <1>6 DEF FoundTrial
<1> QED  BY <1>3, <1>7, <1>8, FileValues DEF Ok

LEMMA ReportStart == InitReport => ReportInv
<1> SUFFICES ASSUME InitReport PROVE ReportInv
  OBVIOUS
<1>1. ViewInv /\ setup \in Setups
  BY ViewStart DEF InitReport, InitView
<1>2. PICK there, s :
        /\ there \subseteq Leftover
        /\ there = {} \/ setup.found \notin {"nothing", "copy"}
        /\ trial = [d \in Dirs |-> IF d \in there THEN FoundTrial(d, s) ELSE NoTrial]
  <2>1. PICK there : there = IF setup.found \in {"nothing", "copy"} THEN {} ELSE Leftover
    OBVIOUS
  <2>2. PICK s : trial = [d \in Dirs |-> IF d \in there THEN FoundTrial(d, s) ELSE NoTrial]
    BY <2>1 DEF InitReport
  <2>3. there \subseteq Leftover /\ (there = {} \/ setup.found \notin {"nothing", "copy"})
    BY <2>1
  <2> QED  BY <2>2, <2>3
<1>3. /\ NoTrial = [lock |-> NoTrial.lock, reward |-> NoTrial.reward,
                    result |-> NoTrial.result]
      /\ NoTrial.reward = Missing /\ NoTrial.result = Missing
  BY DEF NoTrial
<1>4. ASSUME NEW d \in Dirs
      PROVE  /\ trial[d] = [lock |-> trial[d].lock, reward |-> trial[d].reward,
                            result |-> trial[d].result]
             /\ trial[d].reward = Missing \/ Ok(trial[d].reward)
             /\ \/ trial[d].result \in {Missing, Malformed}
                \/ Ok(trial[d].result) /\ trial[d].result.task \in Tasks
             /\ d \in Planned => trial[d].result = Missing
  <2>1. CASE d \in there
    BY <1>1, <1>2, <2>1, FoundTrials DEF Leftover
  <2>2. CASE d \notin there
    BY <1>2, <1>3, <2>2
  <2> QED  BY <2>1, <2>2
<1>5. TrialsOK
  BY <1>2, <1>4 DEF TrialsOK
<1>6. JobOK
  <2>1. Ended = {}
    BY <1>1, <1>4, PlanFacts, FileValues DEF Ended
  <2>2. Len(setup.plan) \in Nat
    BY <1>1, ReportAssumption DEF ReportSetup
  <2>3. job \in Jobs /\ job.completed = 0 /\ ~job.finished
    BY <2>2 DEF InitReport, Jobs
  <2> QED  BY <2>1, <2>3, FS_EmptySet DEF JobOK
<1>7. ManifestOK
  BY DEF ManifestOK, InitReport, InitView, Place, Nowhere, Present
<1>8. ReaderShape /\ ReaderOK
  <2>1. Shaped(reader)
    BY DEF InitReport, Shaped, Fields
  <2>2. /\ reader.step = "idle" /\ reader.dirs = {} /\ reader.todo = <<>>
        /\ reader.inputs = {}
    BY DEF InitReport
  <2> QED  BY <2>1, <2>2, ShortLists DEF ReaderShape, ReaderOK
<1>9. PublishedOK
  <2>1. published.summary = Missing
    BY DEF InitReport
  <2> QED  BY <2>1, FileValues DEF PublishedOK, PublishedShape, InitReport
<1> QED  BY <1>1, <1>5, <1>6, <1>7, <1>8, <1>9 DEF ReportInv, FilesOK

\* When verify finds every file as its digest says, then every file says what
\* the report was made from: what was read between two values is found out,
\* for any plan, any leftover directories and however the job interleaves
\* with the report.
THEOREM VerifyIsRight == SpecReport => []VerifyDetects
<1>1. ReportInv => VerifyDetects
  <2> SUFFICES ASSUME ReportInv, Ok(published.summary), Verified(published.summary),
                      NEW i \in published.summary.inputs
               PROVE  CurrentFile(i.file) = i.parsed
    BY DEF VerifyDetects
  <2>1. Recorded(i) /\ FilesOK
    BY DEF ReportInv, PublishedOK
  <2>2. CurrentFile(i.file) = i.ref
    BY DEF Verified
  <2> QED  BY <2>1, <2>2, SupersededDiffers DEF Recorded
<1>2. Overwrites /\ [NextReport]_<<viewVars, reportVars>> => Overwrites'
  <2> SUFFICES ASSUME Overwrites, [NextReport]_<<viewVars, reportVars>>
               PROVE  Overwrites'
    OBVIOUS
  <2>1. setup' = setup
    BY ReportStep, SetupStays
  <2> QED  BY <2>1 DEF Overwrites
<1>3. InitReport => Overwrites \/ (ReportInv /\ ~Overwrites)
  BY ReportStart
<1>4. /\ Overwrites \/ (ReportInv /\ ~Overwrites)
      /\ [NextReport]_<<viewVars, reportVars>>
      => (Overwrites \/ (ReportInv /\ ~Overwrites))'
  BY <1>2, ReportInvStep
<1>5. Overwrites \/ (ReportInv /\ ~Overwrites) => VerifyDetects
  BY <1>1 DEF VerifyDetects
<1> QED  BY <1>3, <1>4, <1>5, PTL DEF SpecReport
-----------------------------------------------------------------------------
(***************************************************************************)
(* What stands behind a verdict.                                           *)
(***************************************************************************)
\* What the proofs below use of a step.
Keeps ==
  /\ setup' = setup
  /\ \A d \in Dirs : Onward(trial[d], trial'[d])
  /\ \A d \in Dirs : judged[d] # NoJudgement => judged'[d] = judged[d]
  /\ job.finished => job'.finished

\* A directory that goes on as it was.
LEMMA DirStays ==
  ASSUME setup \in Setups, setup' = setup, \A d \in Dirs : Onward(trial[d], trial'[d]),
         NEW e \in Dirs, DirJudged(e), trial'[e] = trial[e], judged'[e] = judged[e]
  PROVE  DirJudged(e)'
<1>1. 1 \in Planned => 1 \in Dirs
  BY PlanFacts
<1>2. Planned' = Planned /\ Leftover' = Leftover
  BY DEF Planned, Leftover
<1>3. IsCopy(e)' <=> IsCopy(e)
  BY <1>2 DEF IsCopy
<1>4. NoTrial' = NoTrial /\ NoJudgement' = NoJudgement
  BY DEF NoTrial, NoJudgement
<1>5. 1 \in Planned /\ Ok(trial[1].result) => Ok(trial'[1].result)
  BY <1>1 DEF Onward
<1>6. Honest(e, trial[e]) => Honest(e, trial[e])'
  BY <1>2 DEF Honest, Verdict
<1> QED  BY <1>2, <1>3, <1>4, <1>5, <1>6 DEF DirJudged

\* A step of one directory leaves the others alone.
LEMMA OthersStay ==
  ASSUME TrialsOK, JudgedOK, setup \in Setups, setup' = setup,
         \A d \in Dirs : Onward(trial[d], trial'[d]),
         NEW d \in Dirs,
         \E new : trial' = [trial EXCEPT ![d] = new],
         judged' = judged \/ \E s : judged' = [judged EXCEPT ![d] = s],
         DirJudged(d)'
  PROVE  JudgedOK'
<1>1. \A e \in Dirs : e # d => trial'[e] = trial[e] /\ judged'[e] = judged[e]
  BY DEF TrialsOK, JudgedOK
<1>2. judged' = [e \in Dirs |-> judged'[e]]
  BY DEF JudgedOK
<1>3. ASSUME NEW e \in Dirs PROVE DirJudged(e)'
  <2>1. CASE e = d
    BY <2>1
  <2>2. CASE e # d
    BY <1>1, <2>2, DirStays DEF JudgedOK
  <2> QED  BY <2>1, <2>2
<1> QED  BY <1>2, <1>3 DEF JudgedOK

\* The steps of the job.
LEMMA JudgedStep ==
  ASSUME TrialsOK, JudgedOK, setup \in Setups, setup' = setup,
         \A d \in Dirs : Onward(trial[d], trial'[d]),
         [NextReport]_<<viewVars, reportVars>>
  PROVE  /\ JudgedOK'
         /\ \A d \in Dirs : judged[d] # NoJudgement => judged'[d] = judged[d]
<1> DEFINE Stable == \A d \in Dirs : judged[d] # NoJudgement => judged'[d] = judged[d]
<1>1. Planned' = Planned /\ Leftover' = Leftover /\ Planned \subseteq Dirs
  BY PlanFacts DEF Planned, Leftover
<1>2. \A d \in Dirs : \E l, w, x : trial[d] = [lock |-> l, reward |-> w, result |-> x]
  BY DEF TrialsOK
<1>3. \A d \in Dirs : (IsCopy(d)' <=> IsCopy(d)) /\ (d \in Planned => ~IsCopy(d))
  BY <1>1 DEF IsCopy, Leftover
<1>4. NoTrial' = NoTrial /\ NoJudgement' = NoJudgement
  BY DEF NoTrial, NoJudgement
<1>5. ASSUME UNCHANGED <<trial, judged>> PROVE JudgedOK' /\ Stable
  <2>1. \A d \in Dirs : DirJudged(d)'
    BY <1>5, DirStays DEF JudgedOK
  <2> QED  BY <1>5, <2>1 DEF JudgedOK
<1>6. ASSUME NEW d \in Planned, NEW new,
             trial' = [trial EXCEPT ![d] = new], UNCHANGED judged,
             judged[d] # NoJudgement => Ok(new.reward),
             Ok(new.result) => new.result.id = d,
             Honest(d, new)
      PROVE  JudgedOK' /\ Stable
  <2>1. d \in Dirs /\ trial'[d] = new
    BY <1>1, <1>6 DEF TrialsOK
  <2>2. Honest(d, new)'
    BY <1>1, <1>6 DEF Honest, Verdict
  <2>3. DirJudged(d)'
    BY <1>1, <1>3, <1>4, <1>6, <2>1, <2>2 DEF DirJudged, Honest, Verdict
  <2> QED  BY <1>6, <2>1, <2>3, OthersStay
<1>7. ASSUME NEW d \in Dirs, StartTrial(d) PROVE JudgedOK' /\ Stable
  <2>1. PICK l, w, x : trial[d] = [lock |-> l, reward |-> w, result |-> x]
    BY <1>2
  <2>2. PICK lock : trial' = [trial EXCEPT ![d].lock = lock] /\ d \in Planned /\ UNCHANGED judged
    BY <1>7 DEF StartTrial
  <2>3. PICK new : new = [lock |-> lock, reward |-> w, result |-> x]
    OBVIOUS
  <2>4. trial' = [trial EXCEPT ![d] = new]
    <3>1. [trial[d] EXCEPT !.lock = lock] = new
      BY <2>1, <2>3, DirectoryUpdate
    <3> QED  BY <2>2, <3>1
  <2>5. new.reward = trial[d].reward /\ new.result = trial[d].result
    BY <2>1, <2>3
  <2>6. DirJudged(d) /\ ~IsCopy(d)
    BY <1>3, <2>2 DEF JudgedOK
  <2>7. Honest(d, new)
    BY <2>5, <2>6 DEF DirJudged, Honest
  <2> QED  BY <1>6, <2>2, <2>4, <2>5, <2>6, <2>7 DEF DirJudged
<1>8. ASSUME NEW d \in Dirs, NEW s, Regraded(d, s) PROVE JudgedOK' /\ Stable
  <2>1. PICK l, w, x : trial[d] = [lock |-> l, reward |-> w, result |-> x]
    BY <1>2
  <2>2. PICK reward : /\ trial' = [trial EXCEPT ![d].reward = reward]
                      /\ reward = Metrics(s) /\ d \in Planned /\ UNCHANGED judged
                      /\ Ok(trial[d].result)
    BY <1>8 DEF Regraded
  <2>3. PICK new : new = [lock |-> l, reward |-> reward, result |-> x]
    OBVIOUS
  <2>4. trial' = [trial EXCEPT ![d] = new]
    <3>1. [trial[d] EXCEPT !.reward = reward] = new
      BY <2>1, <2>3, DirectoryUpdate
    <3> QED  BY <2>2, <3>1
  <2>5. Ok(new.reward) /\ new.result = trial[d].result
    BY <2>1, <2>2, <2>3, FileValues
  <2>6. DirJudged(d) /\ ~IsCopy(d)
    BY <1>3, <2>2 DEF JudgedOK
  <2>7. Honest(d, new)
    BY <2>2, <2>5, <2>6 DEF DirJudged, Honest
  <2> QED  BY <1>6, <2>2, <2>4, <2>5, <2>6, <2>7 DEF DirJudged
<1>9. ASSUME NEW d \in Dirs, TrialEnds(d) PROVE JudgedOK' /\ Stable
  <2>1. PICK l, w, x : trial[d] = [lock |-> l, reward |-> w, result |-> x]
    BY <1>2
  <2>2. d \in Planned /\ UNCHANGED judged /\ ~Ok(trial[d].result)
    BY <1>9 DEF TrialEnds
  <2>3. PICK result :
          /\ trial' = [trial EXCEPT ![d].result = result]
          /\ \/ result = Malformed
             \/ /\ result.id = d
                /\ result.rewards = Missing \/ result.rewards = trial[d].reward
    <3>1. CASE trial' = [trial EXCEPT ![d].result = Malformed]
      BY <3>1
    <3>2. ASSUME NEW exception \in BOOLEAN, NEW rewards,
                 rewards = IF exception THEN Missing ELSE trial[d].reward,
                 trial' = [trial EXCEPT ![d].result = Told(d, "own", rewards, exception)]
          PROVE  \E y : /\ trial' = [trial EXCEPT ![d].result = y]
                        /\ y.id = d /\ (y.rewards = Missing \/ y.rewards = trial[d].reward)
      <4>1. PICK y : y = Told(d, "own", rewards, exception)
        OBVIOUS
      <4>2. y.id = d /\ y.rewards = rewards
        BY <4>1 DEF Told
      <4> QED  BY <3>2, <4>1, <4>2
    <3> QED  BY <1>9, <3>1, <3>2 DEF TrialEnds
  <2>4. PICK new : new = [lock |-> l, reward |-> w, result |-> result]
    OBVIOUS
  <2>5. trial' = [trial EXCEPT ![d] = new]
    <3>1. [trial[d] EXCEPT !.result = result] = new
      BY <2>1, <2>4, DirectoryUpdate
    <3> QED  BY <2>3, <3>1
  <2>6. new.reward = trial[d].reward /\ new.result = result
    BY <2>1, <2>4
  <2>7. DirJudged(d) /\ ~IsCopy(d)
    BY <1>3, <2>2 DEF JudgedOK
  <2>8. Honest(d, new) /\ (Ok(result) => result.id = d)
    BY <2>2, <2>3, <2>6, <2>7, FileValues DEF DirJudged, Honest
  <2> QED  BY <1>6, <2>2, <2>5, <2>6, <2>7, <2>8 DEF DirJudged
<1>10. ASSUME NEW d \in Dirs, NEW s \in setup.submissions, Judge(d, s)
       PROVE  JudgedOK' /\ Stable
  <2>1. PICK l, w, x : trial[d] = [lock |-> l, reward |-> w, result |-> x]
    BY <1>2
  <2>2. PICK reward : /\ trial' = [trial EXCEPT ![d].reward = reward]
                      /\ reward = Metrics(s) /\ d \in Planned
                      /\ judged' = [judged EXCEPT ![d] = s]
                      /\ ~Ok(trial[d].result) /\ ~Ok(trial[d].reward)
    BY <1>10 DEF Judge
  <2>3. PICK new : new = [lock |-> l, reward |-> reward, result |-> x]
    OBVIOUS
  <2>4. trial' = [trial EXCEPT ![d] = new]
    <3>1. [trial[d] EXCEPT !.reward = reward] = new
      BY <2>1, <2>3, DirectoryUpdate
    <3> QED  BY <2>2, <3>1
  <2>5. Ok(new.reward) /\ new.reward = reward /\ ~Ok(new.result)
    BY <2>1, <2>2, <2>3, FileValues
  <2>6. trial'[d] = new /\ judged'[d] = s
    BY <2>2, <2>4 DEF TrialsOK, JudgedOK
  <2>7. Honest(d, trial[d])'
    BY <2>2, <2>5, <2>6 DEF Honest, Verdict
  <2>8. DirJudged(d)'
    BY <1>1, <1>3, <2>2, <2>5, <2>6, <2>7 DEF DirJudged
  <2>9. judged[d] = NoJudgement
    BY <2>2 DEF JudgedOK, DirJudged
  <2>10. Stable
    BY <2>2, <2>9 DEF JudgedOK
  <2> QED  BY <2>2, <2>4, <2>8, <2>10, OthersStay
<1>11. ASSUME NEW d \in Dirs, CopyTrial(d) PROVE JudgedOK' /\ Stable
  <2>1. PICK new : new = trial[1]
    OBVIOUS
  <2>2. /\ trial' = [trial EXCEPT ![d] = new] /\ UNCHANGED judged
        /\ IsCopy(d) /\ Ok(trial[1].result) /\ trial[d] = NoTrial
    BY <1>11, <2>1 DEF CopyTrial, IsCopy
  <2>3. 1 \in Dirs
    BY ReportAssumption, FS_CardinalityType
  <2>4. 1 \in Planned
    <3>1. trial[1] # NoTrial
      BY <2>2, FileValues DEF NoTrial
    <3>2. CASE 1 \notin Planned
      BY <2>2, <2>3, <3>1, <3>2 DEF IsCopy, Leftover, JudgedOK, DirJudged
    <3> QED  BY <3>2
  <2>5. new.result.id = 1
    BY <2>1, <2>2, <2>3, <2>4 DEF JudgedOK, DirJudged
  <2>6. judged[d] = NoJudgement
    BY <2>2, FileValues DEF JudgedOK, DirJudged, NoTrial
  <2>7. trial'[d] = new /\ d \notin Planned
    BY <2>2 DEF TrialsOK, IsCopy, Leftover
  <2>8. trial'[1] = trial[1]
    BY <2>2, <2>3, <2>4, <2>7 DEF TrialsOK
  <2>9. DirJudged(d)'
    BY <1>1, <1>3, <1>4, <2>2, <2>4, <2>5, <2>6, <2>7, <2>8 DEF DirJudged
  <2> QED  BY <2>2, <2>9, OthersStay
<1>12. ASSUME \/ JobUpdates \/ Summarize \/ HashFile \/ ParseFile \/ ListTrials
              \/ OpenTrial \/ TakeTrial
       PROVE  UNCHANGED <<trial, judged>>
  BY <1>12 DEF JobUpdates, Summarize, HashFile, ParseFile, ListTrials,
               OpenTrial, TakeTrial
<1>13. ASSUME \/ PlanMissing \/ WriteTrials \/ WriteIssues \/ WriteSummary
              \/ UNCHANGED reportVars
       PROVE  UNCHANGED <<trial, judged>>
  BY <1>13 DEF PlanMissing, WriteTrials, WriteIssues, WriteSummary, reportVars
<1> HIDE DEF Stable
<1>14. JudgedOK' /\ Stable
  BY <1>5, <1>7, <1>8, <1>9, <1>10, <1>11, <1>12, <1>13 DEF NextReport
<1> QED  BY <1>14 DEF Stable

LEMMA KeepsStep ==
  ASSUME SoundInv, [NextReport]_<<viewVars, reportVars>>
  PROVE  setup' \in Setups /\ TrialsOK' /\ JobOK' /\ JudgedOK' /\ Keeps
<1>1. /\ setup \in Setups /\ TrialsOK /\ JobOK /\ JudgedOK
      /\ setup' = setup
  BY ReportStep, SetupStays DEF SoundInv
<1>2. TrialsOK' /\ \A d \in Dirs : Onward(trial[d], trial'[d])
  BY <1>1, TrialStep
<1>3. JobOK' /\ (job.finished => job'.finished)
  BY <1>1, <1>2, JobStep
<1>4. JudgedOK' /\ \A d \in Dirs : judged[d] # NoJudgement => judged'[d] = judged[d]
  BY <1>1, <1>2, JudgedStep
<1> QED  BY <1>1, <1>2, <1>3, <1>4 DEF Keeps

LEMMA CopiesStay == Keeps => \A d : IsCopy(d)' <=> IsCopy(d)
BY DEF Keeps, IsCopy, Leftover, Planned

-----------------------------------------------------------------------------
(***************************************************************************)
(* What a report has read, and what it has still to read.                  *)
(***************************************************************************)
LEMMA KeepsWaits ==
  ASSUME ReaderKeeps, setup \in Setups, Keeps,
         reader'.step = reader.step \/ (reader.step # "idle" /\ reader'.step # "idle"),
         reader'.phase = reader.phase, reader'.dirs = reader.dirs,
         reader'.todo = reader.todo, reader'.inputs = reader.inputs
  PROVE  ReaderKeeps'
<1>1. 1 \in Planned => 1 \in Dirs
  BY PlanFacts
<1>2. Planned' = Planned
  BY DEF Keeps, Planned
<1>3. OriginalFirst'
  BY <1>1, <1>2, CopiesStay DEF ReaderKeeps, OriginalFirst, Keeps, Onward
<1>4. ASSUME NEW i \in reader.inputs, i.file.kind = "result"
      PROVE  ResultKept(i)'
  <2>1. ResultKept(i)
    BY <1>4 DEF ReaderKeeps
  <2>2. Ok(i.parsed) => i.parsed = trial'[i.file.dir].result
    BY <2>1 DEF ResultKept, Keeps, Onward
  <2> QED  BY <2>1, <2>2, CopiesStay DEF ResultKept
<1>5. \A i \in reader.inputs : i.file = JobFile => (i.parsed.finished => job'.finished)
  BY DEF ReaderKeeps, Keeps
<1> QED  BY <1>3, <1>4, <1>5 DEF ReaderKeeps

LEMMA KeepsRests ==
  ASSUME ReaderKeeps, Rests
  PROVE  ReaderKeeps'
<1>1. Len(reader'.todo) = 0
  BY DEF Rests
<1> QED  BY <1>1 DEF Rests, ReaderKeeps, OriginalFirst

LEMMA KeepsBegins ==
  ASSUME ReaderShape, ReaderKeeps, Summarize
  PROVE  ReaderKeeps'
<1>1. /\ reader.inputs = {} /\ reader.dirs = {} /\ reader'.phase = "job"
      /\ reader'.dirs = {} /\ reader'.inputs = {}
      /\ \/ reader'.step = "reading" /\ reader'.todo = <<JobFile>>
         \/ reader'.step = "idle" /\ reader'.todo = <<>>
  BY BeginStep DEF ReaderKeeps, Turns, Summarize, Fields, Shaped, ReaderShape
<1>2. \A k \in 1..Len(reader'.todo) : reader'.todo[k].kind # "result"
  <2>1. CASE reader'.todo = <<JobFile>>
    <3>1. Len(reader'.todo) = 1 /\ reader'.todo[1] = JobFile
      BY <2>1
    <3>2. \A k \in 1..1 : k = 1
      OBVIOUS
    <3> QED  BY <3>1, <3>2, KindsOfFiles
  <2>2. CASE reader'.todo = <<>>
    BY <2>2
  <2> QED  BY <1>1, <2>1, <2>2
<1> QED  BY <1>1, <1>2 DEF ReaderKeeps, OriginalFirst

LEMMA KeepsLists ==
  ASSUME ReaderShape, ReaderKeeps, setup \in Setups, TrialsOK, JudgedOK, Keeps,
         ListTrials
  PROVE  ReaderKeeps'
<1>1. PICK listed : listed = {d \in Dirs : trial[d].lock # Missing \/ trial[d].result # Missing}
  OBVIOUS
<1>2. /\ Turns("trials", listed, <<>>) /\ UNCHANGED <<trial, job>>
      /\ reader.step = "reading" /\ reader.phase = "job" /\ reader.todo = <<>>
  BY <1>1, ListStep DEF ListTrials, Reading
<1>3. /\ \E i \in reader.inputs : i.file = JobFile
      /\ \A i \in reader.inputs : i.file.kind # "result"
  BY <1>2 DEF ReaderKeeps
<1>4. OriginalFirst'
  <2> SUFFICES ASSUME NEW d \in listed, IsCopy(d)
               PROVE  /\ 1 \in Planned' /\ Ok(trial'[1].result) /\ 1 \in listed
                      /\ \A i \in reader.inputs : i.file # ResultOf(1)
    BY <1>2, CopiesStay DEF OriginalFirst, Turns
  <2>1. d \in Dirs /\ trial[d] # NoTrial
    BY <1>1 DEF NoTrial
  <2>2. 1 \in Planned /\ Ok(trial[1].result)
    BY <2>1 DEF JudgedOK, DirJudged
  <2>3. 1 \in listed
    BY <1>1, <2>2, PlanFacts, FileValues
  <2>4. \A i \in reader.inputs : i.file # ResultOf(1)
    BY <1>3, KindsOfFiles
  <2> QED  BY <1>2, <2>2, <2>3, <2>4 DEF Planned, Keeps
<1>5. Len(reader'.todo) = 0
  BY <1>2 DEF Turns
<1> QED  BY <1>2, <1>3, <1>4, <1>5 DEF ReaderKeeps, Turns, Keeps

LEMMA KeepsOpens ==
  ASSUME ReaderShape, ReaderKeeps, setup \in Setups, Keeps, OpenTrial
  PROVE  ReaderKeeps'
<1>1. PICK d \in Dirs : Turns("opened", reader.dirs, <<ResultOf(d), LockOf(d)>>)
  BY OpenStep
<1>2. /\ UNCHANGED <<trial, job>> /\ reader.step = "reading"
      /\ reader.phase = "trials" /\ reader.todo = <<>>
  BY DEF OpenTrial, Reading
<1>3. \E i \in reader.inputs : i.file = JobFile
  BY <1>2 DEF ReaderKeeps
<1>4. OriginalFirst'
  BY <1>1, <1>2, CopiesStay DEF OriginalFirst, ReaderKeeps, Turns, Keeps, Planned
<1>5. ASSUME NEW i \in reader.inputs, i.file.kind = "result"
      PROVE  ResultKept(i)'
  <2>1. ResultKept(i)
    BY <1>5 DEF ReaderKeeps
  <2>2. i.file.dir \notin reader.dirs
    BY <1>2, <2>1 DEF ResultKept
  <2> QED  BY <1>1, <1>2, <2>1, <2>2, CopiesStay DEF ResultKept, Turns
<1> QED  BY <1>1, <1>2, <1>3, <1>4, <1>5 DEF ReaderKeeps, Turns

\* A copy is refused: its trial was told before.
LEMMA CopyRefused ==
  ASSUME ReaderKeeps, setup \in Setups, TrialsOK, JudgedOK,
         reader.dirs \subseteq Dirs, NEW d \in reader.dirs, d = Min(reader.dirs),
         NEW i \in reader.inputs, i.file = ResultOf(d), Ok(i.parsed), IsCopy(d)
  PROVE  Ok(Got(reader.inputs, ResultOf(d))) /\ Duplicate(d)
<1>1. /\ 1 \in Planned /\ d # 1
      /\ 1 \in reader.dirs \/ \E j \in reader.inputs : j.file = ResultOf(1)
      /\ \A j \in reader.inputs : j.file = ResultOf(1) => Ok(j.parsed)
  BY DEF ReaderKeeps, OriginalFirst, IsCopy, Leftover
<1>2. Dirs \subseteq Nat /\ 1 \in Dirs
  BY <1>1, PlanFacts
<1>3. 1 \notin reader.dirs
  <2>1. 1 \in reader.dirs => Min(reader.dirs) <= 1
    BY FirstDirectory
  <2>2. d \in Nat /\ d >= 1
    BY <1>2, ReportAssumption, FS_CardinalityType
  <2>3. d = Min(reader.dirs)
    OBVIOUS
  <2> QED  BY <1>1, <2>1, <2>2, <2>3
<1>4. PICK j \in reader.inputs : j.file = ResultOf(1) /\ Ok(j.parsed)
  BY <1>1, <1>3
<1>5. ResultKept(i) /\ ResultKept(j) /\ i.file.dir = d /\ j.file.dir = 1
  BY <1>4, KindsOfFiles DEF ReaderKeeps
<1>6. Got(reader.inputs, ResultOf(d)) = i.parsed /\ Got(reader.inputs, ResultOf(1)) = j.parsed
  <2>1. \A k \in reader.inputs : k.file = ResultOf(d) => k = i
    BY <1>5 DEF ResultKept
  <2>2. \A k \in reader.inputs : k.file = ResultOf(1) => k = j
    BY <1>4, <1>5 DEF ResultKept
  <2>3. (CHOOSE k \in reader.inputs : k.file = ResultOf(d)) = i
    BY <2>1
  <2>4. (CHOOSE k \in reader.inputs : k.file = ResultOf(1)) = j
    BY <1>4, <2>2
  <2> QED  BY <2>3, <2>4 DEF Got
<1>7. i.parsed = trial[d].result /\ j.parsed = trial[1].result
  BY <1>4, <1>5 DEF ResultKept
<1>8. trial[d] # NoTrial
  BY <1>7, FileValues DEF NoTrial
<1>9. i.parsed.id = 1 /\ j.parsed.id = 1
  BY <1>1, <1>2, <1>4, <1>7, <1>8 DEF JudgedOK, DirJudged
<1>10. 1 \in Opened(reader.inputs, "ok")
  BY <1>2, <1>4 DEF Opened, ResultOf, Ok
<1> QED  BY <1>1, <1>6, <1>9, <1>10 DEF Duplicate, ResultOf

LEMMA KeepsTakes ==
  ASSUME ReaderShape, ReaderKeeps, setup \in Setups, TrialsOK, JudgedOK, Keeps,
         TakeTrial
  PROVE  ReaderKeeps'
<1>1. PICK d \in Dirs :
        /\ d = Min(reader.dirs) /\ d \in reader.dirs
        /\ \E i \in reader.inputs : i.file = ResultOf(d)
        /\ \/ Rests
           \/ /\ ~(Ok(Got(reader.inputs, ResultOf(d))) /\ Duplicate(d))
              /\ \E todo : NoResults(todo) /\ Turns("trials", reader.dirs \ {d}, todo)
  BY TakeStep
<1>2. CASE Rests
  BY <1>2, KeepsRests
<1>3. CASE ~Rests
  <2>1. PICK todo : NoResults(todo) /\ Turns("trials", reader.dirs \ {d}, todo)
    BY <1>1, <1>3
  <2>2. ~(Ok(Got(reader.inputs, ResultOf(d))) /\ Duplicate(d))
    BY <1>1, <1>3
  <2>3. /\ UNCHANGED <<trial, job>> /\ reader.step = "reading"
        /\ reader.phase = "opened" /\ reader.todo = <<>>
    BY TakeStep DEF TakeTrial
  <2>4. \E i \in reader.inputs : i.file = JobFile
    BY <2>3 DEF ReaderKeeps
  <2>5. OriginalFirst'
    <3> SUFFICES ASSUME NEW e \in reader.dirs \ {d}, IsCopy(e)
                 PROVE  /\ 1 \in Planned' /\ Ok(trial'[1].result)
                        /\ \/ 1 \in reader.dirs \ {d}
                           \/ \E i \in reader.inputs : i.file = ResultOf(1)
                        /\ \A i \in reader.inputs : i.file = ResultOf(1) => Ok(i.parsed)
      BY <2>1, CopiesStay DEF OriginalFirst, Turns
    <3> QED  BY <1>1, <2>3 DEF OriginalFirst, ReaderKeeps, Keeps, Planned
  <2>6. ASSUME NEW i \in reader.inputs, i.file.kind = "result"
        PROVE  ResultKept(i)'
    <3>1. ResultKept(i)
      BY <2>6 DEF ReaderKeeps
    <3>2. i.file.dir \in reader.dirs => i.file.dir = d
      BY <1>1, <3>1 DEF ResultKept
    <3>3. Ok(i.parsed) => ~IsCopy(i.file.dir)
      <4> SUFFICES ASSUME Ok(i.parsed), IsCopy(i.file.dir) PROVE FALSE
        OBVIOUS
      <4>1. i.file.dir = d /\ i.file = ResultOf(d)
        BY <3>1, <3>2 DEF ResultKept
      <4> QED  BY <1>1, <2>2, <4>1, CopyRefused DEF ReaderShape
    <3> QED  BY <2>1, <2>3, <3>1, <3>2, <3>3, CopiesStay DEF ResultKept, Turns
  <2> QED  BY <2>1, <2>3, <2>4, <2>5, <2>6 DEF ReaderKeeps, Turns, NoResults
<1> QED  BY <1>2, <1>3

\* The steps after the directories.
LEMMA KeepsGoesOn ==
  ASSUME ReaderKeeps, setup \in Setups, Keeps, UNCHANGED <<trial, job>>,
         NEW phase, phase \notin {"job", "opened"}, NEW dirs, NEW todo,
         reader.step = "reading", reader.todo = <<>>, reader.phase # "opened",
         dirs = reader.dirs, NoResults(todo), Turns(phase, dirs, todo)
  PROVE  ReaderKeeps'
<1>1. \E i \in reader.inputs : i.file = JobFile
  BY DEF ReaderKeeps
<1>2. OriginalFirst'
  BY CopiesStay DEF OriginalFirst, ReaderKeeps, Turns, Keeps, Planned
<1>3. ASSUME NEW i \in reader.inputs, i.file.kind = "result"
      PROVE  ResultKept(i)'
  <2>1. ResultKept(i)
    BY <1>3 DEF ReaderKeeps
  <2>2. i.file.dir \notin reader.dirs
    BY <2>1 DEF ResultKept
  <2> QED  BY <2>1, <2>2, CopiesStay DEF ResultKept, Turns
<1> QED  BY <1>1, <1>2, <1>3 DEF ReaderKeeps, Turns, NoResults

\* What it notes is what the file says.
LEMMA KeepsNotes ==
  ASSUME ReaderShape, ReaderKeeps, setup \in Setups, TrialsOK, Keeps,
         UNCHANGED <<trial, job>>,
         reader.step # "idle", reader.todo # <<>>,
         NEW file \in FileNames, file = Head(reader.todo), NEW ref, NEW parsed,
         parsed = CurrentFile(file), Notes(file, ref, parsed)
  PROVE  ReaderKeeps'
<1>1. PICK todo \in Seq(FileNames) : todo = reader.todo /\ todo # <<>>
  BY DEF ReaderShape
<1>2. PICK new : new = [file |-> file, ref |-> ref, parsed |-> parsed]
  OBVIOUS
<1>3. new.file = file /\ new.parsed = parsed
  BY <1>2
<1>0. PICK rest : rest = Tail(todo)
  OBVIOUS
<1>4. /\ reader'.step = "reading" /\ reader'.phase = reader.phase
      /\ reader'.dirs = reader.dirs /\ reader'.todo = rest
      /\ reader'.inputs = reader.inputs \cup {new}
  BY <1>0, <1>1, <1>2 DEF Notes
<1>5. /\ file = todo[1] /\ Len(todo) \in Nat /\ Len(todo) > 0
      /\ rest \in Seq(FileNames) /\ Len(rest) = Len(todo) - 1
      /\ \A k \in 1..Len(rest) : rest[k] = todo[k + 1]
  <2>1. /\ file = todo[1] /\ Len(todo) \in Nat /\ Len(todo) > 0
        /\ Tail(todo) \in Seq(FileNames) /\ Len(Tail(todo)) = Len(todo) - 1
        /\ \A k \in 1..Len(Tail(todo)) : Tail(todo)[k] = todo[k + 1]
    BY <1>1
  <2> QED  BY <1>0, <2>1
<1>6. \E i \in reader'.inputs : i.file = JobFile
  <2>1. CASE reader.todo = <<JobFile>>
    <3>1. file = JobFile
      BY <2>1
    <3> QED  BY <1>3, <1>4, <3>1
  <2>2. CASE \E i \in reader.inputs : i.file = JobFile
    BY <1>4, <2>2
  <2> QED  BY <2>1, <2>2 DEF ReaderKeeps
<1>7. reader.phase # "opened" => file.kind # "result"
  <2>1. 1 \in 1..Len(todo)
    BY <1>5
  <2> QED  BY <1>1, <1>5, <2>1 DEF ReaderKeeps
<1>8. reader.phase # "opened" => NoResults(rest)
  <2>1. ASSUME NEW k \in 1..Len(rest) PROVE k + 1 \in 1..Len(todo)
    BY <1>5
  <2> QED  BY <1>1, <1>5, <2>1 DEF ReaderKeeps, NoResults
<1>9. ASSUME file.kind = "result"
      PROVE  \E d \in Dirs : /\ file = ResultOf(d) /\ d = Min(reader.dirs) /\ d \in reader.dirs
                             /\ Len(todo) = 2 /\ reader.phase = "opened"
  <2>1. PICK d : d = Min(reader.dirs)
    OBVIOUS
  <2>2. reader.phase = "opened" /\ reader.dirs \subseteq Dirs /\ reader.dirs # {} /\ ResultRead(d)
    BY <1>7, <1>9, <2>1 DEF ReaderShape
  <2>3. d \in Dirs /\ d \in reader.dirs
    BY <2>1, <2>2, FirstDirectory
  <2>4. PICK result, lock : result = ResultOf(d) /\ lock = LockOf(d) /\ lock.kind = "lock"
    BY KindsOfFiles
  <2>5. todo = <<result, lock>> \/ todo = <<lock>>
    BY <1>1, <2>2, <2>4 DEF ResultRead
  <2>6. todo = <<result, lock>>
    <3>1. CASE todo = <<lock>>
      BY <1>5, <1>9, <2>4, <3>1
    <3> QED  BY <2>5, <3>1
  <2>7. file = result /\ Len(todo) = 2
    BY <1>5, <2>6
  <2> QED  BY <2>1, <2>2, <2>3, <2>4, <2>7
<1>10. ASSUME NEW i \in reader.inputs, i.file.kind = "result"
       PROVE  ResultKept(i) /\ i.file # file
  <2>1. ResultKept(i)
    BY <1>10 DEF ReaderKeeps
  <2>2. CASE i.file = file
    <3>1. PICK d : file = ResultOf(d) /\ d \in reader.dirs /\ Len(todo) = 2
      BY <1>9, <1>10, <2>2
    <3>2. i.file.dir = d
      BY <2>2, <3>1, KindsOfFiles
    <3> QED  BY <1>1, <2>1, <3>1, <3>2 DEF ResultKept
  <2> QED  BY <2>1, <2>2
<1>11. ASSUME NEW i \in reader.inputs, i.file.kind = "result"
       PROVE  ResultKept(i)'
  <2>1. ResultKept(i) /\ i.file # file
    BY <1>10, <1>11
  <2>2. i.file.dir \in reader.dirs => Len(rest) < 2
    BY <1>1, <1>5, <2>1 DEF ResultKept
  <2>3. \A j \in reader'.inputs : j.file = i.file => j = i
    BY <1>3, <1>4, <2>1 DEF ResultKept
  <2> QED  BY <1>4, <2>1, <2>2, <2>3, CopiesStay DEF ResultKept
<1>12. ASSUME new.file.kind = "result"
       PROVE  ResultKept(new)'
  <2>1. PICK d \in Dirs : /\ file = ResultOf(d) /\ d = Min(reader.dirs) /\ d \in reader.dirs
                          /\ Len(todo) = 2 /\ reader.phase = "opened"
    BY <1>3, <1>9, <1>12
  <2>2. file.kind = "result" /\ file.dir = d
    BY <2>1, KindsOfFiles
  <2>3. parsed = trial[d].result
    BY <2>2 DEF CurrentFile
  <2>4. \A j \in reader'.inputs : j.file = new.file => j = new
    BY <1>3, <1>4, <1>10, <2>2
  <2>5. Len(rest) < 2
    BY <1>5, <2>1
  <2> QED  BY <1>3, <1>4, <2>1, <2>2, <2>3, <2>4, <2>5 DEF ResultKept
<1>13. \A i \in reader'.inputs : i.file = JobFile => (i.parsed.finished => job'.finished)
  <2>1. file = JobFile => parsed = job
    BY KindsOfFiles DEF CurrentFile
  <2> QED  BY <1>3, <1>4, <2>1 DEF ReaderKeeps
<1>14. OriginalFirst'
  <2> SUFFICES ASSUME NEW d \in reader.dirs, IsCopy(d)
               PROVE  /\ 1 \in Planned' /\ Ok(trial'[1].result)
                      /\ \/ 1 \in reader.dirs
                         \/ \E i \in reader'.inputs : i.file = ResultOf(1)
                      /\ \A i \in reader'.inputs : i.file = ResultOf(1) => Ok(i.parsed)
    BY <1>4, CopiesStay DEF OriginalFirst
  <2>1. /\ 1 \in Planned /\ Ok(trial[1].result)
        /\ 1 \in reader.dirs \/ \E i \in reader.inputs : i.file = ResultOf(1)
        /\ \A i \in reader.inputs : i.file = ResultOf(1) => Ok(i.parsed)
    BY DEF ReaderKeeps, OriginalFirst
  <2>2. file = ResultOf(1) => parsed = trial[1].result
    BY KindsOfFiles DEF CurrentFile
  <2> QED  BY <1>3, <1>4, <2>1, <2>2 DEF Keeps, Planned
<1>15. \A i \in reader'.inputs : i.file.kind = "result" => ResultKept(i)'
  BY <1>4, <1>11, <1>12
<1>16. reader.phase = "job" =>
         reader.dirs = {} /\ \A i \in reader'.inputs : i.file.kind # "result"
  BY <1>3, <1>4, <1>7 DEF ReaderKeeps
<1> QED  BY <1>4, <1>6, <1>8, <1>13, <1>14, <1>15, <1>16 DEF ReaderKeeps, NoResults

LEMMA ReaderKeepsStep ==
  ASSUME SoundInv, Keeps, [NextReport]_<<viewVars, reportVars>>
  PROVE  ReaderKeeps'
<1>1. /\ setup \in Setups /\ TrialsOK /\ JudgedOK /\ ReaderShape /\ ReaderKeeps
  BY DEF SoundInv
<1>2. CASE UNCHANGED reader
  BY <1>1, <1>2, KeepsWaits
<1>3. CASE WriteSummary
  BY <1>1, <1>3, RefuseStep, KeepsRests DEF WriteSummary
<1>4. ASSUME NEW d \in Dirs, StartTrial(d) \/ TrialEnds(d) \/ CopyTrial(d)
      PROVE  UNCHANGED reader
  BY <1>4 DEF StartTrial, TrialEnds, CopyTrial
<1>5. ASSUME NEW d \in Dirs, NEW s, Judge(d, s) \/ Regraded(d, s)
      PROVE  UNCHANGED reader
  BY <1>5 DEF Judge, Regraded
<1>6. ASSUME JobUpdates \/ UNCHANGED reportVars
      PROVE  UNCHANGED reader
  BY <1>6 DEF JobUpdates, reportVars
<1>7. CASE HashFile
  <2>1. PICK file \in FileNames : \E now :
          /\ reader.step = "reading" /\ reader.todo # <<>>
          /\ file = Head(reader.todo) /\ now = CurrentFile(file)
          /\ \/ Notes(file, now, now)
             \/ /\ reader'.step = "parsing"
                /\ reader'.phase = reader.phase /\ reader'.dirs = reader.dirs
                /\ reader'.todo = reader.todo /\ reader'.inputs = reader.inputs
    BY <1>1, <1>7, HashStep
  <2>2. PICK now : now = CurrentFile(file)
    OBVIOUS
  <2>3. UNCHANGED <<trial, job>>
    BY <1>7 DEF HashFile
  <2>4. CASE Notes(file, now, now)
    BY <1>1, <2>1, <2>2, <2>3, <2>4, KeepsNotes
  <2>5. CASE ~Notes(file, now, now)
    BY <1>1, <2>1, <2>2, <2>5, KeepsWaits
  <2> QED  BY <2>4, <2>5
<1>8. CASE ParseFile
  <2>1. PICK file \in FileNames : \E parsed :
          /\ reader.step = "parsing" /\ reader.todo # <<>>
          /\ file = Head(reader.todo) /\ parsed = CurrentFile(file)
          /\ Notes(file, reader.ref, parsed)
    BY <1>1, <1>8, ParseStep
  <2>2. PICK ref, parsed : ref = reader.ref /\ parsed = CurrentFile(file)
    OBVIOUS
  <2>3. UNCHANGED <<trial, job>> /\ Notes(file, ref, parsed)
    BY <1>8, <2>1, <2>2 DEF ParseFile
  <2> QED  BY <1>1, <2>1, <2>2, <2>3, KeepsNotes
<1>9. CASE PlanMissing
  <2>1. PICK todo : NoResults(todo) /\ Turns("planned", {}, todo)
    BY <1>1, <1>9, PlanStep
  <2>2. /\ reader.step = "reading" /\ reader.todo = <<>> /\ reader.phase = "trials"
        /\ reader.dirs = {} /\ UNCHANGED <<trial, job>>
    BY <1>9 DEF PlanMissing, Reading
  <2> QED  BY <1>1, <2>1, <2>2, KeepsGoesOn
<1>10. CASE WriteTrials \/ WriteIssues
  <2>1. /\ reader.step = "reading" /\ reader.todo = <<>>
        /\ reader.phase \in {"planned", "trials written"} /\ UNCHANGED <<trial, job>>
    BY <1>10 DEF WriteTrials, WriteIssues, Reading
  <2>2. PICK phase \in {"trials written", "issues written"} :
          Turns(phase, reader.dirs, reader.todo)
    BY <1>1, <1>10, WriteStep
  <2>3. PICK todo, dirs : todo = reader.todo /\ dirs = reader.dirs
    OBVIOUS
  <2>4. NoResults(todo)
    BY <2>1, <2>3, NoFiles
  <2> QED  BY <1>1, <2>1, <2>2, <2>3, <2>4, KeepsGoesOn
<1> QED
  BY <1>1, <1>2, <1>3, <1>4, <1>5, <1>6, <1>7, <1>8, <1>9, <1>10, KeepsBegins,
     KeepsLists, KeepsOpens, KeepsTakes DEF NextReport
-----------------------------------------------------------------------------
(***************************************************************************)
(* An official pass@k counts judged trials.                                *)
(***************************************************************************)
\* What is graded is a submission.  A crash of grade.py leaves its mark, the
\* metrics of Vero's grader are never scored, and no crash is rewarded.
LEMMA GradersSpeak ==
  ASSUME setup \in Setups, NEW s \in setup.submissions
  PROVE  /\ s # NoJudgement
         /\ Crashed(s) =>
              /\ \/ s.grader \in {"repo", "verisoft"}
                 \/ GraderError(Grade(s)) \/ ~Scored(Grade(s))
              /\ Grade(s)["reward"] # 1
<1>1. s \in Submissions
  BY ReportAssumption DEF ReportSetup
<1>2. s.grader \in Graders
  BY <1>1 DEF Submissions, FileSubmissions, RepoSubmissions, VerisoftSubmissions,
              VeroSubmissions, Graders
<1>3. NoJudgement.grader = "none"
  BY DEF NoJudgement
<1>4. ASSUME s.grader = "file", Crashed(s)
      PROVE  GraderError(Grade(s)) /\ Grade(s)["reward"] # 1
  <2>1. Grade(s) = FileCrash
    BY <1>4 DEF Crashed, Grade, GradeFile
  <2> QED  BY <2>1 DEF GraderError, FileCrash, Float
<1>5. ASSUME s.grader = "repo", Crashed(s) PROVE Grade(s)["reward"] # 1
  <2>1. s.stops \in 1..4
    BY <1>1, <1>5 DEF Crashed, Submissions, FileSubmissions, RepoSubmissions,
                      VerisoftSubmissions, VeroSubmissions
  <2>2. PICK checks : /\ Grade(s) = Rewarded(checks)
                      /\ checks["axioms_ok"] = Float(FALSE)
    <3>1. RepoStep["axioms_ok"] = 4
      BY DEF RepoStep, Checks
    <3>2. ~(RepoStep["axioms_ok"] < s.stops)
      BY <2>1, <3>1
    <3>3. PICK passed : Grade(s) =
            Rewarded([c \in Checks |-> Float(c \in passed /\ RepoStep[c] < s.stops)])
      BY <1>5 DEF Grade, GradeRepo
    <3> DEFINE checks ==
                 [c \in Checks |-> Float(c \in passed /\ RepoStep[c] < s.stops)]
    <3>4. checks["axioms_ok"] = Float(FALSE)
      BY <3>2 DEF Checks, Float
    <3>5. Grade(s) = Rewarded(checks)
      BY <3>3
    <3> HIDE DEF checks
    <3> QED  BY <3>4, <3>5
  <2> QED  BY <2>2 DEF Rewarded, Float, Checks
<1>6. ASSUME s.grader = "verisoft", Crashed(s) PROVE Grade(s)["reward"] # 1
  <2>1. Grade(s) = Rewarded(NoCheck)
    BY <1>6 DEF Crashed, Grade, GradeVerisoft
  <2>2. \E c \in Checks : NoCheck[c] # 1
    BY DEF NoCheck, Checks
  <2> QED  BY <2>1, <2>2 DEF Rewarded, Float
<1>7. ASSUME s.grader = "vero", Crashed(s)
      PROVE  ~Scored(Grade(s)) /\ Grade(s)["reward"] # 1
  <2>1. Grade(s) = GradeVero(s) /\ ~(s.attested /\ ~s.crash)
    BY <1>7 DEF Crashed, Grade
  <2>2. DOMAIN Grade(s) = VeroMetrics /\ Grade(s)["reward"] = Float(FALSE)
    BY <2>1 DEF GradeVero, VeroMetrics
  <2>3. "compiled" \in Required /\ "compiled" \notin VeroMetrics
    BY DEF Required, Checks, VeroMetrics
  <2> QED  BY <2>2, <2>3 DEF Scored, Float
<1> QED  BY <1>2, <1>3, <1>4, <1>5, <1>6, <1>7 DEF Graders

\* A row that counts has a verdict behind it.
LEMMA RowCounts ==
  ASSUME setup \in Setups, JudgedOK, NEW inputs, NEW d \in Dirs,
         Got(inputs, ResultOf(d)) = trial[d].result, Ok(trial[d].result), ~IsCopy(d)
  PROVE  LET row == Row(inputs, d)
         IN /\ row.dir = d
            /\ row.group = [task |-> row.group.task, agent |-> row.group.agent]
            /\ row.solved => row.scored
            /\ row.scored => /\ Genuine(d)
                             /\ row.solved <=> Won(d)
<1>1. PICK result : result = Got(inputs, ResultOf(d))
  OBVIOUS
<1>2. PICK reward : reward = Got(inputs, File("reward", d, "none"))
  OBVIOUS
<1>3. PICK status : status = Classify(result.rewards, reward, result.exception)
  OBVIOUS
<1>4. PICK group : group = [task |-> result.task, agent |-> result.agent]
  OBVIOUS
<1>5. PICK scored \in BOOLEAN :
        /\ scored = Row(inputs, d).scored
        /\ scored => status = "scored" /\ group \in Groups /\ result.job = "own"
  BY <1>1, <1>2, <1>3, <1>4 DEF Row, ResultOf
<1>6. PICK solved \in BOOLEAN :
        /\ solved = Row(inputs, d).solved
        /\ solved <=> scored /\ reward.metrics["reward"] = 1
  BY <1>1, <1>2, <1>3, <1>4, <1>5 DEF Row, ResultOf
<1>7. Row(inputs, d).dir = d /\ Row(inputs, d).group = group
  BY <1>1, <1>4 DEF Row, ResultOf
<1>8. PICK row : row = Row(inputs, d)
  OBVIOUS
<1>9. /\ row.dir = d /\ row.group = group /\ row.scored = scored /\ row.solved = solved
      /\ group = [task |-> group.task, agent |-> group.agent]
  BY <1>4, <1>5, <1>6, <1>7, <1>8
<1>10. ASSUME scored
       PROVE  Genuine(d) /\ (solved <=> Won(d))
  <2>1. status = "scored" /\ group \in Groups /\ result.job = "own" /\ result = trial[d].result
    BY <1>1, <1>5, <1>10
  <2>2. /\ Ok(result.rewards) /\ reward = result.rewards
        /\ ~GraderError(reward.metrics) /\ Scored(reward.metrics)
    BY <1>3, <2>1 DEF Classify
  <2>3. Honest(d, trial[d])
    BY DEF JudgedOK, DirJudged
  <2>4. judged[d] \in setup.submissions /\ reward = Metrics(judged[d])
    BY <2>1, <2>2, <2>3 DEF Honest, Verdict
  <2>5. reward.metrics = Grade(judged[d])
    BY <2>4 DEF Metrics
  <2>6. /\ judged[d] # NoJudgement
        /\ Crashed(judged[d]) => /\ judged[d].grader \in {"repo", "verisoft"}
                                 /\ Grade(judged[d])["reward"] # 1
    BY <2>2, <2>4, <2>5, GradersSpeak
  <2>7. result.agent # "stranger"
    <3>1. PICK i \in Planned : group = [task |-> setup.plan[i].task, agent |-> setup.plan[i].agent]
      BY <2>1 DEF Groups
    <3>2. result.agent = setup.plan[i].agent
      BY <1>4, <3>1
    <3> QED  BY <3>1, <3>2, NoStrangers
  <2>8. d \in Planned \/ setup.found \in {"extra", "lockless"}
    BY <2>1, <2>3, <2>7 DEF Honest
  <2>9. Genuine(d)
    BY <2>6, <2>8 DEF Genuine
  <2> QED  BY <1>6, <1>10, <2>5, <2>6, <2>9 DEF Won
<1>11. /\ row.solved => row.scored
       /\ row.scored => Genuine(d) /\ (row.solved <=> Won(d))
  BY <1>5, <1>6, <1>9, <1>10
<1>12. row.group = [task |-> row.group.task, agent |-> row.group.agent]
  BY <1>9
<1> QED  BY <1>8, <1>9, <1>11, <1>12

\* An arm that is complete has a judged trial for each planned attempt.
LEMMA ArmCounts ==
  ASSUME setup \in Setups, NEW D, D \subseteq Dirs, NEW row,
         \A d \in D : /\ row[d].dir = d
                      /\ row[d].group = [task |-> row[d].group.task, agent |-> row[d].group.agent]
                      /\ row[d].solved => row[d].scored
                      /\ row[d].scored => /\ Genuine(d)
                                          /\ row[d].solved <=> Won(d),
         NEW rows, rows = {row[d] : d \in D},
         NEW arm \in Arms(rows), arm.complete
  PROVE  ArmSound(arm, rows \cup MissingRows(rows))
<1>1. PICK agent : arm = SummarizeArm(rows, agent)
  BY DEF Arms
<1>2. /\ arm.agent = agent
      /\ arm.passed = {g.task : g \in {r.group : r \in
                         {q \in rows : q.group.agent = agent /\ q.solved}}}
      /\ \A g \in ArmGroups(rows, agent) :
           /\ g \in Groups /\ Observed(rows, g) = PlannedAttempts(g)
           /\ \A r \in rows : r.group = g => r.scored
  BY <1>1 DEF SummarizeArm
<1> SUFFICES ASSUME NEW g \in Groups, g.agent = arm.agent
             PROVE  LET made == {r.dir : r \in {q \in rows \cup MissingRows(rows) : q.group = g}}
                    IN /\ Cardinality(made) = PlannedAttempts(g)
                       /\ \A d \in made : d # 0 /\ Genuine(d)
                       /\ g.task \in arm.passed
                            <=> \E d \in made : Won(d)
  BY DEF ArmSound
<1>3. Observed(rows, g) = PlannedAttempts(g) /\ \A r \in rows : r.group = g => r.scored
  BY <1>2 DEF ArmGroups
<1>4. PlannedAttempts(g) \in Nat
  <2>1. IsFiniteSet({i \in Planned : InGroup(setup.plan[i], g)})
    BY PlanFacts, FS_Subset
  <2> QED  BY <2>1, FS_CardinalityType DEF PlannedAttempts
<1>5. Lacking(rows, g) = {}
  BY <1>3, <1>4 DEF Lacking
<1>6. \A q \in MissingRows(rows) : q.group # g
  <2> SUFFICES ASSUME NEW q \in MissingRows(rows), q.group = g PROVE FALSE
    OBVIOUS
  <2>1. PICK h \in Groups : q \in {[dir |-> 0, attempt |-> k, group |-> h] : k \in Lacking(rows, h)}
    BY DEF MissingRows
  <2>2. q.group = h
    BY <2>1
  <2> QED  BY <1>5, <2>1, <2>2
<1>7. PICK made : made = {d \in D : row[d].group = g}
  OBVIOUS
<1>8. {r.dir : r \in {q \in rows \cup MissingRows(rows) : q.group = g}} = made
  <2>1. PICK all : all = {q \in rows \cup MissingRows(rows) : q.group = g}
    OBVIOUS
  <2>2. all = {row[d] : d \in made}
    BY <1>6, <1>7, <2>1
  <2>3. \A d \in made : row[d] \in all /\ row[d].dir = d
    BY <1>7, <2>2
  <2>4. \A r \in all : r.dir \in made
    BY <2>2, <2>3
  <2>5. {r.dir : r \in all} = made
    BY <2>3, <2>4
  <2> QED  BY <2>1, <2>5
<1>9. Cardinality(made) = PlannedAttempts(g)
  <2>1. IsFiniteSet(made)
    BY <1>7, ReportAssumption, FS_Subset
  <2>2. PICK f : f = [d \in made |-> row[d]]
    OBVIOUS
  <2>3. PICK counted : counted = {r \in rows : r.group = g}
    OBVIOUS
  <2>4. f \in [made -> counted]
    BY <1>7, <2>2, <2>3
  <2>5. \A a, b \in made : f[a] = f[b] => a = b
    <3>1. \A a \in made : f[a] = row[a] /\ row[a].dir = a
      BY <1>7, <2>2
    <3> QED  BY <3>1
  <2>6. \A r \in counted : \E d \in made : f[d] = r
    BY <1>7, <2>2, <2>3
  <2>7. f \in Bijection(made, counted)
    BY <2>4, <2>5, <2>6 DEF Bijection, Injection, Surjection, IsInjective
  <2>8. ExistsBijection(made, counted)
    BY <2>7 DEF ExistsBijection
  <2>9. Cardinality(made) = Cardinality(counted)
    BY <2>1, <2>8, FS_Bijection
  <2> QED  BY <1>3, <2>3, <2>9 DEF Observed
<1>10. \A d \in made : d # 0 /\ Genuine(d) /\ (row[d].solved <=> Won(d))
  <2>1. 0 \notin Dirs
    BY ReportAssumption, FS_CardinalityType
  <2> QED  BY <1>3, <1>7, <2>1
<1>11. g.task \in arm.passed <=> \E d \in made : row[d].solved
  <2>1. g = [task |-> g.task, agent |-> g.agent]
    BY DEF Groups
  <2>2. ASSUME NEW d \in made, row[d].solved PROVE g.task \in arm.passed
    BY <1>2, <1>7, <2>2
  <2>3. ASSUME g.task \in arm.passed PROVE \E d \in made : row[d].solved
    <3>1. PICK r \in rows : r.group.agent = agent /\ r.solved /\ r.group.task = g.task
      BY <1>2, <2>3
    <3>2. PICK d \in D : r = row[d]
      OBVIOUS
    <3>3. row[d].group = g
      BY <1>2, <2>1, <3>1, <3>2
    <3> QED  BY <1>7, <3>1, <3>2, <3>3
  <2> QED  BY <2>2, <2>3
<1> QED  BY <1>8, <1>9, <1>10, <1>11

\* The results behind the rows are those of the directories.
LEMMA RowsTold ==
  ASSUME ReaderKeeps, reader.phase # "opened", NEW d \in Opened(reader.inputs, "ok")
  PROVE  /\ d \in Dirs /\ Got(reader.inputs, ResultOf(d)) = trial[d].result
         /\ Ok(trial[d].result) /\ ~IsCopy(d)
<1>1. PICK i \in reader.inputs : i.file = ResultOf(d) /\ Ok(i.parsed)
  BY DEF Opened, ResultOf, Ok
<1>2. d \in Dirs
  BY DEF Opened
<1>3. ResultKept(i) /\ i.file.dir = d
  BY <1>1, KindsOfFiles DEF ReaderKeeps
<1>4. d \notin reader.dirs
  BY <1>3 DEF ResultKept
<1>5. (CHOOSE j \in reader.inputs : j.file = ResultOf(d)) = i
  BY <1>1, <1>3 DEF ResultKept
<1>6. Got(reader.inputs, ResultOf(d)) = i.parsed
  BY <1>5 DEF Got
<1> QED  BY <1>1, <1>2, <1>3, <1>4, <1>6 DEF ResultKept

\* The report that is written is sound.
LEMMA ReportCounts ==
  ASSUME setup \in Setups, JudgedOK, ReaderKeeps,
         reader.phase # "opened", \E i \in reader.inputs : i.file = JobFile
  PROVE  LET r == Report(reader.inputs)
         IN /\ \A arm \in r.arms : arm.complete => ArmSound(arm, r.trials)
            /\ r.complete => job.finished /\ \A arm \in r.arms : arm.complete
            /\ \A t \in r.trials : t.dir \in Dirs \cup {0}
<1>1. PICK inputs, rows, D :
        /\ inputs = reader.inputs /\ rows = ObservedRows(inputs) /\ D = Opened(inputs, "ok")
  OBVIOUS
<1>2. PICK row : row = [d \in D |-> Row(inputs, d)]
  OBVIOUS
<1>3. rows = {row[d] : d \in D} /\ D \subseteq Dirs
  BY <1>1, <1>2 DEF ObservedRows, Opened
<1>4. ASSUME NEW d \in D
      PROVE  /\ row[d].dir = d
             /\ row[d].group = [task |-> row[d].group.task, agent |-> row[d].group.agent]
             /\ row[d].solved => row[d].scored
             /\ row[d].scored => /\ Genuine(d)
                                 /\ row[d].solved <=> Won(d)
  BY <1>1, <1>2, RowsTold, RowCounts
<1>5. /\ Report(inputs).trials = rows \cup MissingRows(rows)
      /\ Report(inputs).arms = Arms(rows)
      /\ Report(inputs).complete =>
           /\ Got(inputs, JobFile).finished
           /\ \A arm \in Arms(rows) : arm.complete
  BY <1>1 DEF Report, StructuralComplete, JobFile
<1>6. \A arm \in Arms(rows) : arm.complete => ArmSound(arm, rows \cup MissingRows(rows))
  <2>1. \A d \in D : /\ row[d].dir = d
                     /\ row[d].group = [task |-> row[d].group.task, agent |-> row[d].group.agent]
                     /\ row[d].solved => row[d].scored
                     /\ row[d].scored => /\ Genuine(d)
                                         /\ row[d].solved <=> Won(d)
    BY <1>4
  <2>2. rows = {row[d] : d \in D} /\ D \subseteq Dirs
    BY <1>3
  <2>3. ASSUME NEW arm \in Arms(rows), arm.complete
        PROVE  ArmSound(arm, rows \cup MissingRows(rows))
    BY <2>1, <2>2, <2>3, ArmCounts
  <2> QED  BY <2>3
<1>7. Got(inputs, JobFile).finished => job.finished
  <2>1. PICK i \in inputs : i.file = JobFile /\ Got(inputs, JobFile) = i.parsed
    BY <1>1 DEF Got
  <2> QED  BY <1>1, <2>1 DEF ReaderKeeps
<1>8. \A t \in rows \cup MissingRows(rows) : t.dir \in Dirs \cup {0}
  <2>1. ASSUME NEW t \in MissingRows(rows) PROVE t.dir = 0
    <3>1. PICK h \in Groups :
            t \in {[dir |-> 0, attempt |-> k, group |-> h] : k \in Lacking(rows, h)}
      BY <2>1 DEF MissingRows
    <3> QED  BY <3>1
  <2>2. ASSUME NEW t \in rows PROVE t.dir \in Dirs
    <3>1. PICK d \in D : t = row[d]
      BY <1>3
    <3>2. row[d].dir = d
      BY <1>4
    <3> QED  BY <1>3, <3>1, <3>2
  <2> QED  BY <2>1, <2>2
<1> QED  BY <1>1, <1>5, <1>6, <1>7, <1>8

\* What a report counted stands: verdicts are not taken back.
LEMMA ArmStays ==
  ASSUME Keeps, NEW arm, NEW rows, \A r \in rows : r.dir \in Dirs \cup {0},
         ArmSound(arm, rows)
  PROVE  ArmSound(arm, rows)'
<1>1. Groups' = Groups /\ Planned' = Planned
  BY DEF Keeps, Groups, Planned
<1>2. \A g : PlannedAttempts(g)' = PlannedAttempts(g)
  BY <1>1 DEF Keeps, PlannedAttempts
<1>3. ASSUME NEW d \in Dirs, Genuine(d) PROVE Genuine(d)' /\ judged'[d] = judged[d]
  <2>1. judged'[d] = judged[d] /\ setup' = setup
    BY <1>3 DEF Keeps, Genuine
  <2>2. NoJudgement' = NoJudgement
    BY DEF NoJudgement
  <2> QED  BY <1>1, <1>3, <2>1, <2>2 DEF Genuine
<1>4. ASSUME NEW g \in Groups, g.agent = arm.agent, NEW made,
             made = {r.dir : r \in {q \in rows : q.group = g}}
      PROVE  /\ Cardinality(made) = PlannedAttempts(g)'
             /\ \A d \in made : d # 0 /\ Genuine(d)'
             /\ g.task \in arm.passed
                  <=> \E d \in made : Won(d)'
  <2>1. /\ Cardinality(made) = PlannedAttempts(g)
        /\ \A d \in made : d # 0 /\ Genuine(d)
        /\ g.task \in arm.passed <=> \E d \in made : Won(d)
    BY <1>4 DEF ArmSound
  <2>2. \A d \in made : d \in Dirs
    BY <1>4, <2>1
  <2>3. \A d \in made : Genuine(d)' /\ judged'[d] = judged[d]
    BY <1>3, <2>1, <2>2
  <2>4. \A d \in made : Won(d)' <=> Won(d)
    BY <2>3 DEF Won
  <2> QED  BY <1>2, <2>1, <2>3, <2>4
<1> QED  BY <1>1, <1>4 DEF ArmSound

LEMMA SummaryStays ==
  ASSUME SoundInv, Keeps, published'.summary = published.summary
  PROVE  RowsOK' /\ ReportSound'
<1>1. PICK summary : summary = published.summary
  OBVIOUS
<1>2. CASE Ok(summary)
  <2>1. /\ \A r \in summary.trials : r.dir \in Dirs \cup {0}
        /\ \A arm \in summary.arms : arm.complete => ArmSound(arm, summary.trials)
        /\ summary.complete => job.finished /\ \A arm \in summary.arms : arm.complete
    BY <1>1, <1>2 DEF SoundInv, RowsOK, ReportSound
  <2>2. PICK rows : rows = summary.trials
    OBVIOUS
  <2>3. \A arm \in summary.arms : arm.complete => ArmSound(arm, rows)'
    BY <2>1, <2>2, ArmStays
  <2>4. job.finished => job'.finished
    BY DEF Keeps
  <2> QED  BY <1>1, <2>1, <2>2, <2>3, <2>4 DEF RowsOK, ReportSound
<1>3. CASE ~Ok(summary)
  BY <1>1, <1>3 DEF RowsOK, ReportSound
<1> QED  BY <1>2, <1>3

LEMMA SoundStep ==
  SoundInv /\ [NextReport]_<<viewVars, reportVars>> => SoundInv'
<1> SUFFICES ASSUME SoundInv, [NextReport]_<<viewVars, reportVars>> PROVE SoundInv'
  OBVIOUS
<1>1. /\ setup' \in Setups /\ TrialsOK' /\ JobOK' /\ JudgedOK' /\ Keeps
      /\ ReaderShape' /\ ReaderKeeps'
  BY KeepsStep, ShapeStep, ReaderKeepsStep DEF SoundInv
<1>2. PICK t, x, s : published = [trials |-> t, issues |-> x, summary |-> s]
  BY DEF SoundInv, PublishedShape
<1>3. ASSUME published'.summary = published.summary, PublishedShape'
      PROVE  SoundInv'
  BY <1>1, <1>3, SummaryStays DEF SoundInv
<1>4. CASE UNCHANGED published
  BY <1>3, <1>4 DEF SoundInv, PublishedShape
<1>5. CASE WriteTrials
  <2>1. PICK new : published' = [published EXCEPT !.trials = new]
    BY <1>5 DEF WriteTrials
  <2>2. published' = [trials |-> new, issues |-> x, summary |-> s]
    BY <1>2, <2>1
  <2> QED  BY <1>2, <1>3, <2>2 DEF PublishedShape
<1>6. CASE WriteIssues
  <2>1. PICK new : published' = [published EXCEPT !.issues = new]
    BY <1>6 DEF WriteIssues
  <2>2. published' = [trials |-> t, issues |-> new, summary |-> s]
    BY <1>2, <2>1
  <2> QED  BY <1>2, <1>3, <2>2 DEF PublishedShape
<1>7. CASE WriteSummary
  <2>1. PICK r : r = Report(reader.inputs)
    OBVIOUS
  <2>2. PICK new : new = [is |-> "ok", inputs |-> reader.inputs, arms |-> r.arms,
                          complete |-> r.complete, trials |-> r.trials, issues |-> r.issues]
    OBVIOUS
  <2>3. published' = [trials |-> t, issues |-> x, summary |-> new]
    BY <1>2, <1>7, <2>1, <2>2 DEF WriteSummary
  <2>4. \E i \in reader.inputs : i.file = JobFile
    <3>1. reader.todo = <<>> /\ reader.step = "reading"
      BY <1>7 DEF WriteSummary, Reading
    <3>2. \A f : <<f>> # <<>>
      OBVIOUS
    <3>3. reader.todo # <<JobFile>>
      BY <3>1, <3>2
    <3> QED  BY <3>1, <3>3 DEF SoundInv, ReaderKeeps
  <2>5. /\ \A arm \in r.arms : arm.complete => ArmSound(arm, r.trials)
        /\ r.complete => job.finished /\ \A arm \in r.arms : arm.complete
        /\ \A q \in r.trials : q.dir \in Dirs \cup {0}
    <3>1. reader.phase # "opened"
      BY <1>7 DEF WriteSummary, Reading
    <3>2. setup \in Setups /\ JudgedOK /\ ReaderKeeps
      BY DEF SoundInv
    <3> QED  BY <2>1, <2>4, <3>1, <3>2, ReportCounts
  <2>6. UNCHANGED <<judged, job, setup>>
    BY <1>7 DEF WriteSummary, viewVars
  <2>7. PICK rows : rows = r.trials
    OBVIOUS
  <2>8. \A arm \in r.arms : arm.complete => ArmSound(arm, rows)'
    BY <1>1, <2>5, <2>7, ArmStays
  <2>9. PublishedShape'
    BY <2>3 DEF PublishedShape
  <2>10. RowsOK' /\ ReportSound'
    <3>1. /\ published'.summary = new /\ new.arms = r.arms /\ new.complete = r.complete
          /\ new.trials = rows
      BY <2>2, <2>3, <2>7
    <3>2. job'.finished = job.finished
      BY <2>6
    <3> QED  BY <2>5, <2>7, <2>8, <3>1, <3>2 DEF RowsOK, ReportSound
  <2> QED  BY <1>1, <2>9, <2>10 DEF SoundInv
<1>8. ASSUME NEW d \in Dirs, StartTrial(d) \/ TrialEnds(d) \/ CopyTrial(d)
      PROVE  UNCHANGED published
  BY <1>8 DEF StartTrial, TrialEnds, CopyTrial
<1>9. ASSUME NEW d \in Dirs, NEW z, Judge(d, z) \/ Regraded(d, z)
      PROVE  UNCHANGED published
  BY <1>9 DEF Judge, Regraded
<1>10. ASSUME \/ JobUpdates \/ Summarize \/ HashFile \/ ParseFile \/ ListTrials
              \/ OpenTrial \/ TakeTrial \/ PlanMissing \/ UNCHANGED reportVars
       PROVE  UNCHANGED published
  BY <1>10 DEF JobUpdates, Summarize, HashFile, ParseFile, ListTrials, OpenTrial,
               TakeTrial, PlanMissing, reportVars
<1> QED
  BY <1>4, <1>5, <1>6, <1>7, <1>8, <1>9, <1>10 DEF NextReport

\* A directory that was there before has the verdict of its own submission,
\* and shows whose it is.
LEMMA FoundTells ==
  ASSUME setup \in Setups, setup.found \notin {"nothing", "copy"}, NEW d \in Leftover, NEW s
  PROVE  LET t == FoundTrial(d, s)
         IN /\ t.reward = Metrics(s) /\ t.result.rewards = Metrics(s)
            /\ \/ setup.found \in {"extra", "lockless"}
               \/ t.result.job # "own" \/ t.result.agent = "stranger"
<1>1. setup.found \in Found
  BY ReportAssumption DEF ReportSetup
<1>2. PICK told : told = Told(d, IF setup.found = "foreign" THEN "other" ELSE "own",
                              Metrics(s), FALSE)
  OBVIOUS
<1>3. /\ told = [is |-> told.is, id |-> told.id, job |-> told.job, task |-> told.task,
                 agent |-> told.agent, exception |-> told.exception, rewards |-> told.rewards]
      /\ told.rewards = Metrics(s) /\ (setup.found = "foreign" => told.job = "other")
  BY <1>2 DEF Told
<1>4. PICK result : result = IF setup.found = "stranger"
                             THEN [told EXCEPT !.agent = "stranger"] ELSE told
  OBVIOUS
<1>5. result.rewards = Metrics(s)
  <2>1. [told EXCEPT !.agent = "stranger"].rewards = told.rewards
    BY <1>3
  <2> QED  BY <1>3, <1>4, <2>1
<1>6. \/ setup.found \in {"extra", "lockless"}
      \/ result.job # "own" \/ result.agent = "stranger"
  <2>1. [told EXCEPT !.agent = "stranger"].agent = "stranger"
    BY <1>3
  <2> QED  BY <1>1, <1>3, <1>4, <2>1 DEF Found
<1>7. PICK lock : FoundTrial(d, s) = [lock |-> lock, reward |-> Metrics(s), result |-> result]
  BY <1>2, <1>4 DEF FoundTrial
<1> QED  BY <1>5, <1>6, <1>7

LEMMA SoundStart == InitReport => SoundInv
<1> SUFFICES ASSUME InitReport PROVE SoundInv
  OBVIOUS
<1>1. setup \in Setups /\ TrialsOK /\ JobOK /\ ReaderShape /\ PublishedShape
  BY ReportStart DEF ReportInv, FilesOK, PublishedOK, ViewInv, ViewTypeOK
<1>2. PICK there, s :
        /\ there \subseteq Leftover /\ s \in setup.submissions
        /\ there = {} \/ setup.found \notin {"nothing", "copy"}
        /\ trial = [d \in Dirs |-> IF d \in there THEN FoundTrial(d, s) ELSE NoTrial]
        /\ judged = [d \in Dirs |-> IF d \in there THEN s ELSE NoJudgement]
  <2>1. PICK there : there = IF setup.found \in {"nothing", "copy"} THEN {} ELSE Leftover
    OBVIOUS
  <2>2. PICK s \in setup.submissions :
          /\ trial = [d \in Dirs |-> IF d \in there THEN FoundTrial(d, s) ELSE NoTrial]
          /\ judged = [d \in Dirs |-> IF d \in there THEN s ELSE NoJudgement]
    BY <2>1 DEF InitReport
  <2>3. there \subseteq Leftover /\ (there = {} \/ setup.found \notin {"nothing", "copy"})
    BY <2>1
  <2> QED  BY <2>2, <2>3
<1>3. NoTrial.reward = Missing /\ NoTrial.result = Missing /\ ~Ok(Missing)
  BY FileValues DEF NoTrial
<1>4. ASSUME NEW d \in Dirs PROVE DirJudged(d)
  <2>1. CASE d \in there
    <3>1. /\ setup.found \notin {"nothing", "copy"} /\ d \in Leftover
          /\ trial[d] = FoundTrial(d, s) /\ judged[d] = s
      BY <1>2, <2>1
    <3>2. PICK t : t = FoundTrial(d, s)
      OBVIOUS
    <3>3. /\ t.reward = Metrics(s) /\ t.result.rewards = Metrics(s)
          /\ \/ setup.found \in {"extra", "lockless"}
             \/ t.result.job # "own" \/ t.result.agent = "stranger"
      BY <1>1, <3>1, <3>2, FoundTells
    <3>4. Ok(t.reward)
      BY <3>3, FileValues
    <3>5. Verdict(d, Metrics(s))
      BY <1>2, <3>1 DEF Verdict
    <3>6. Honest(d, t)
      BY <3>3, <3>5 DEF Honest
    <3>7. ~IsCopy(d) /\ d \notin Planned
      BY <3>1 DEF IsCopy, Leftover
    <3> QED  BY <3>1, <3>2, <3>4, <3>6, <3>7 DEF DirJudged
  <2>2. CASE d \notin there
    <3>1. trial[d] = NoTrial /\ judged[d] = NoJudgement
      BY <1>2, <2>2
    <3> QED  BY <1>3, <3>1 DEF DirJudged, Honest
  <2> QED  BY <2>1, <2>2
<1>5. JudgedOK
  BY <1>2, <1>4 DEF JudgedOK
<1>6. ReaderKeeps
  <2>1. /\ reader.step = "idle" /\ reader.dirs = {} /\ reader.todo = <<>>
        /\ reader.inputs = {} /\ reader.phase = "job"
    BY DEF InitReport
  <2>2. NoResults(reader.todo)
    BY <2>1, NoFiles
  <2> QED  BY <2>1, <2>2 DEF ReaderKeeps, OriginalFirst, NoResults
<1>7. RowsOK /\ ReportSound
  <2>1. published.summary = Missing
    BY DEF InitReport
  <2> QED  BY <1>3, <2>1 DEF RowsOK, ReportSound
<1> QED  BY <1>1, <1>5, <1>6, <1>7 DEF SoundInv

\* An official pass@k counts judged trials, for any plan and any directories,
\* and however the trials, the copies, the graders and the reports interleave:
\* behind every planned attempt of a complete arm stands a judged trial of its
\* own, and what passed is what a grader that ran to its end gave a reward for.
\* A crash of grade_repo.py or of VeriSoft's grader counts as a failed attempt,
\* any other crash not at all.
THEOREM ReportIsSound == SpecReport => []ReportSound
<1>1. SoundInv => ReportSound
  BY DEF SoundInv
<1> QED  BY <1>1, SoundStart, SoundStep, PTL DEF SpecReport
=============================================================================
