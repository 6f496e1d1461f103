---------------------------- MODULE HarborReport ----------------------------
(***************************************************************************)
(* tools/harbor_results.py: the report about a Harbor job that ran over a  *)
(* campaign view, made from the files of the job while they may still be   *)
(* changing, and verify, which looks at those files again.                 *)
(*                                                                         *)
(* A file is a record whose field is tells whether it can be parsed; its   *)
(* digest is the record.  setup.plan is the job's lock: the attempts, each *)
(* with task, agent and digest.  Directory d is that of attempt d; those   *)
(* beyond the plan hold what setup.found says.                             *)
(***************************************************************************)
EXTENDS CampaignView, Verifier, Sequences, FiniteSets, SequencesExt

CONSTANT Dirs   \* 1..n, the directories a job may have

VARIABLES
  trial,      \* directory -> [lock, reward, result]
  judged,     \* directory -> the submission the grader was given (history)
  job,        \* the job's own result.json
  reader,     \* the process that summarizes
  published   \* [trials, issues, summary]: the three files of the report

reportVars == <<trial, judged, job, reader, published>>
-----------------------------------------------------------------------------
Missing == [is |-> "missing"]
Malformed == [is |-> "malformed"]
Ok(f) == f.is = "ok"

Found == {"nothing", "copy", "foreign", "stranger", "extra", "lockless"}

ReportSetup(s) ==
  /\ s.plan \in Seq([task : Tasks, agent : STRING \ {"stranger"}, digest : STRING])
  /\ Len(s.plan) <= Cardinality(Dirs)
  /\ s.found \in Found /\ s.slow \in BOOLEAN /\ s.regrade \in BOOLEAN
  /\ s.plan # <<>> \/ s.found \in {"nothing", "copy"}
  /\ s.reports \in 0..2 /\ s.submissions \subseteq Submissions

ASSUME ReportAssumption ==
  /\ IsFiniteSet(Dirs) /\ Dirs = 1..Cardinality(Dirs)
  /\ \A s \in Setups : ReportSetup(s)

Planned == DOMAIN setup.plan
Leftover == Dirs \ Planned

\* The result of directory d: id is the trial's, agent what its
\* configuration says.
Told(d, owner, rewards, exception) ==
  LET p == setup.plan[IF d \in Planned THEN d ELSE 1]
  IN [is |-> "ok", id |-> d, job |-> owner, task |-> p.task, agent |-> p.agent,
      exception |-> exception, rewards |-> rewards]

Lock(digest) == [is |-> "ok", digest |-> digest]
Metrics(s) == [is |-> "ok", metrics |-> Grade(s)]
NoTrial == [lock |-> Missing, reward |-> Missing, result |-> Missing]
NoJudgement == [grader |-> "none"]

\* A directory that was there before: of another job, of an agent that is
\* not planned, of one more attempt, or of one whose lock is lost.
FoundTrial(d, s) ==
  LET told == Told(d, IF setup.found = "foreign" THEN "other" ELSE "own",
                   Metrics(s), FALSE)
  IN [lock |-> IF setup.found = "lockless" THEN Missing
                                           ELSE Lock(setup.plan[1].digest),
      reward |-> Metrics(s),
      result |-> IF setup.found = "stranger"
                 THEN [told EXCEPT !.agent = "stranger"] ELSE told]
-----------------------------------------------------------------------------
(***************************************************************************)
(* The files a report is made from.                                        *)
(***************************************************************************)
File(kind, d, t) == [kind |-> kind, dir |-> d, task |-> t]

HasSpec(t) == setup.kind \in {"putnam", "vericoding"} /\ view.tasks[t].is # "absent"

CurrentFile(f) ==
  CASE f.kind = "job" -> job
    [] f.kind = "result" -> trial[f.dir].result
    [] f.kind = "lock" -> trial[f.dir].lock
    [] f.kind = "reward" -> trial[f.dir].reward
    [] f.kind = "manifest" ->
         IF view.manifest = NoManifest THEN Missing
         ELSE [is |-> "ok", tasks |-> view.manifest]
    [] f.kind = "spec" ->
         IF HasSpec(f.task) THEN [is |-> "ok", text |-> SpecOf(view.tasks[f.task], f.task)]
                            ELSE Missing

\* What the reads of one summary gave for a file.
Got(inputs, f) == (CHOOSE i \in inputs : i.file = f).parsed
-----------------------------------------------------------------------------
(***************************************************************************)
(* From what was read to the report.                                       *)
(***************************************************************************)
Required == {"reward"} \cup Checks

Scored(metrics) ==
  /\ Required \subseteq DOMAIN metrics
  /\ (metrics["reward"] = 1) <=> \A c \in Checks : metrics[c] = 1

GraderError(metrics) ==
  "grader_error" \in DOMAIN metrics /\ metrics["grader_error"] # 0

\* _classify_rewards: the status of a trial.
Classify(embedded, raw, exception) ==
  CASE exception -> "infra_error"
    [] ~exception /\ ~Ok(embedded) -> "incomplete"
    [] OTHER -> IF raw # embedded THEN "inconsistent"
                ELSE IF GraderError(raw.metrics) THEN "infra_error"
                ELSE IF Scored(raw.metrics) THEN "scored" ELSE "inconsistent"

\* _plan.
Groups == {[task |-> setup.plan[i].task, agent |-> setup.plan[i].agent] : i \in Planned}
InGroup(x, g) == x.task = g.task /\ x.agent = g.agent
PlannedAttempts(g) == Cardinality({i \in Planned : InGroup(setup.plan[i], g)})

PlanRefused ==
  \/ setup.plan = <<>>
  \/ \E i, j \in Planned : /\ InGroup(setup.plan[i], setup.plan[j])
                           /\ setup.plan[i].digest # setup.plan[j].digest

PlanDigest(g) == setup.plan[CHOOSE i \in Planned : InGroup(setup.plan[i], g)].digest

Issue(code, severity, d, t) ==
  [code |-> code, severity |-> severity, dir |-> d, task |-> t]
IssueIf(condition, code, severity, d, t) ==
  IF condition THEN {Issue(code, severity, d, t)} ELSE {}

\* _task_metadata: the spec on disk against the manifest beside it.
TaskIssues(inputs, d, t) ==
  LET manifest == Got(inputs, File("manifest", d, t))
      spec == Got(inputs, File("spec", d, t))
      named == Ok(manifest) /\ manifest.tasks[t] # "none"
  IN IssueIf(~Ok(manifest), "dataset_manifest_unavailable", "error", d, t)
     \cup IssueIf(~(named /\ Ok(spec) /\ spec.text = manifest.tasks[t]),
                  "spec_manifest_mismatch", "error", d, t)

\* _normalize_trial, and the comparison of the job's identifier after it.
Row(inputs, d) ==
  LET result == Got(inputs, File("result", d, "none"))
      lock == Got(inputs, File("lock", d, "none"))
      reward == Got(inputs, File("reward", d, "none"))
      t == result.task
      group == [task |-> t, agent |-> result.agent]
      planned == group \in Groups
      own == result.job = "own"
      status == Classify(result.rewards, reward, result.exception)
      scored == status = "scored" /\ planned /\ Ok(lock) /\ own
      excused == status \in {"infra_error", "incomplete"} /\ planned /\ Ok(lock)
  IN [dir |-> d, group |-> group, scored |-> scored,
      solved |-> scored /\ reward.metrics["reward"] = 1,
      issues |->
        IssueIf(~planned, "trial_not_in_plan", "error", d, t)
        \cup IssueIf(planned /\ ~Ok(lock), "trial_lock_unavailable", "error", d, t)
        \cup IssueIf(planned /\ Ok(lock) /\ lock.digest # PlanDigest(group),
                     "trial_lock_digest_mismatch", "error", d, t)
        \cup IssueIf(status # "scored", "trial_unscoreable",
                     IF excused THEN "warning" ELSE "error", d, t)
        \cup IssueIf(~own, "job_id_mismatch", "error", d, t)
        \cup TaskIssues(inputs, d, t)]

\* A directory whose result cannot be read gives an issue and no row.
Opened(inputs, how) ==
  {d \in Dirs : \E i \in inputs : /\ i.file = File("result", d, "none")
                                 /\ i.parsed.is = how}
ObservedRows(inputs) == {Row(inputs, d) : d \in Opened(inputs, "ok")}

\* The planned attempts of a group nobody made, and those made beyond.
Observed(rows, g) == Cardinality({r \in rows : r.group = g})
Lacking(rows, g) == (Observed(rows, g) + 1)..PlannedAttempts(g)

MissingRows(rows) ==
  UNION {{[dir |-> 0, attempt |-> k, group |-> g] : k \in Lacking(rows, g)} : g \in Groups}

\* _summarize_arm, for the arm of one agent: pass_at_k is null unless it is
\* complete.
ArmGroups(rows, agent) ==
  {g \in Groups \cup {r.group : r \in rows} : g.agent = agent}

SummarizeArm(rows, agent) ==
  LET groups == ArmGroups(rows, agent)
      done(g) == /\ g \in Groups
                 /\ Observed(rows, g) = PlannedAttempts(g)
                 /\ \A r \in rows : r.group = g => r.scored
  IN [agent |-> agent, complete |-> \A g \in groups : done(g),
      tasks |-> {g.task : g \in groups},
      passed |-> {g.task : g \in {r.group : r \in {q \in rows :
                    q.group.agent = agent /\ q.solved}}}]

Arms(rows) ==
  {SummarizeArm(rows, agent) :
     agent \in {g.agent : g \in Groups \cup {r.group : r \in rows}}}

StructuralComplete(result, rows) ==
  /\ result.finished /\ result.total = Len(setup.plan)
  /\ result.completed = Cardinality(rows)

\* The issues of a whole report, and the report.
ReportIssues(inputs, rows) ==
  UNION {r.issues : r \in rows}
  \cup {Issue("trial_result_unavailable", "warning", d, "none") :
          d \in Opened(inputs, "missing")}
  \cup {Issue("trial_result_unavailable", "error", d, "none") :
          d \in Opened(inputs, "malformed")}
  \cup UNION {IssueIf(Observed(rows, g) > PlannedAttempts(g), "extra_attempts",
                      "error", 0, g.task) : g \in Groups}
  \cup UNION {{Issue("planned_attempt_missing", "warning", 0, r.group.task)}
                 \cup TaskIssues(inputs, 0, r.group.task) : r \in MissingRows(rows)}

Report(inputs) ==
  LET rows == ObservedRows(inputs)
      issues == ReportIssues(inputs, rows)
      arms == Arms(rows)
  IN [trials |-> rows \cup MissingRows(rows), issues |-> issues, arms |-> arms,
      complete |-> /\ StructuralComplete(Got(inputs, File("job", 0, "none")), rows)
                   /\ \A a \in arms : a.complete
                   /\ \A i \in issues : i.severity # "error"]
-----------------------------------------------------------------------------
(***************************************************************************)
(* The job: what Harbor writes.                                            *)
(***************************************************************************)
InitReport ==
  /\ InitView
  /\ \E s \in setup.submissions :
       LET there == IF setup.found \in {"nothing", "copy"} THEN {} ELSE Leftover
       IN /\ trial = [d \in Dirs |-> IF d \in there THEN FoundTrial(d, s) ELSE NoTrial]
          /\ judged = [d \in Dirs |-> IF d \in there THEN s ELSE NoJudgement]
  /\ job = [is |-> "ok", finished |-> FALSE, completed |-> 0, total |-> Len(setup.plan)]
  /\ reader = [step |-> "idle", left |-> setup.reports, phase |-> "job", dirs |-> {},
               todo |-> <<>>, ref |-> Missing, inputs |-> {}]
  /\ published = [trials |-> Missing, issues |-> Missing, summary |-> Missing]

StartTrial(d) ==
  /\ d \in Planned /\ trial[d] = NoTrial
  /\ trial' = [trial EXCEPT ![d].lock = Lock(setup.plan[d].digest)]
  /\ UNCHANGED <<judged, job, reader, published, viewVars>>

\* The verifier writes reward.json.
Judge(d, s) ==
  /\ d \in Planned /\ Ok(trial[d].lock)
  /\ ~Ok(trial[d].reward) /\ ~Ok(trial[d].result)
  /\ trial' = [trial EXCEPT ![d].reward = Metrics(s)]
  /\ judged' = [judged EXCEPT ![d] = s]
  /\ UNCHANGED <<job, reader, published, viewVars>>

\* The trial ends, with the rewards it has or with an exception; while the
\* file is being written it cannot be parsed.
TrialEnds(d) ==
  /\ d \in Planned /\ Ok(trial[d].lock) /\ ~Ok(trial[d].result)
  /\ \/ /\ setup.slow /\ trial[d].result = Missing
        /\ trial' = [trial EXCEPT ![d].result = Malformed]
     \/ /\ setup.slow => trial[d].result = Malformed
        /\ \E exception \in BOOLEAN :
             trial' = [trial EXCEPT
               ![d].result = Told(d, "own", IF exception THEN Missing
                                            ELSE trial[d].reward, exception)]
  /\ UNCHANGED <<judged, job, reader, published, viewVars>>

\* reward.json is written again after the trial has taken it over.  Once:
\* a file that says one thing when its digest is taken, another when it is
\* parsed, and the first again from then on deceives verify.
Regraded(d, s) ==
  /\ setup.regrade /\ d \in Planned /\ Ok(trial[d].result)
  /\ trial[d].reward = trial[d].result.rewards /\ trial[d].reward # Metrics(s)
  /\ trial' = [trial EXCEPT ![d].reward = Metrics(s)]
  /\ UNCHANGED <<judged, job, reader, published, viewVars>>

\* Somebody copies the directory of the first trial.
CopyTrial(d) ==
  /\ setup.found = "copy" /\ d \in Leftover
  /\ Ok(trial[1].result) /\ trial[d] = NoTrial
  /\ trial' = [trial EXCEPT ![d] = trial[1]]
  /\ UNCHANGED <<judged, job, reader, published, viewVars>>

JobUpdates ==
  LET ended == {d \in Planned : Ok(trial[d].result)}
  IN /\ job' = [job EXCEPT !.completed = Cardinality(ended),
                           !.finished = ended = Planned]
     /\ job' # job
     /\ UNCHANGED <<trial, judged, reader, published, viewVars>>
-----------------------------------------------------------------------------
(***************************************************************************)
(* summarize.                                                              *)
(***************************************************************************)
Reading(phase) == reader.step = "reading" /\ reader.phase = phase /\ reader.todo = <<>>

\* ReportError: nothing is written.
Refuse == reader' = [reader EXCEPT !.step = "idle", !.inputs = {}, !.todo = <<>>,
                                   !.dirs = {}, !.ref = Missing]

Summarize ==
  /\ reader.step = "idle" /\ reader.left > 0
  /\ reader' = [reader EXCEPT !.step = IF PlanRefused THEN "idle" ELSE "reading",
                              !.left = @ - 1, !.phase = "job",
                              !.todo = IF PlanRefused THEN <<>>
                                       ELSE <<File("job", 0, "none")>>]
  /\ UNCHANGED <<trial, judged, job, published, viewVars>>

Noted(file, ref, parsed) ==
  [reader EXCEPT !.step = "reading", !.ref = Missing, !.todo = Tail(@),
     !.inputs = @ \cup {[file |-> file, ref |-> ref, parsed |-> parsed]}]

\* _file_reference: the digest.  A missing file is not read again, and of a
\* spec only the digest is wanted.
HashFile ==
  /\ reader.step = "reading" /\ reader.todo # <<>>
  /\ LET file == Head(reader.todo)
         now == CurrentFile(file)
     IN reader' = IF now = Missing \/ file.kind = "spec"
                  THEN Noted(file, now, now)
                  ELSE [reader EXCEPT !.step = "parsing", !.ref = now]
  /\ UNCHANGED <<trial, judged, job, published, viewVars>>

\* Mutant: the digest is that of the file after it has been parsed.
ParseFileFirst ==
  /\ reader.step = "parsing"
  /\ LET file == Head(reader.todo) IN
       reader' = Noted(file, CurrentFile(file), reader.ref)
  /\ UNCHANGED <<trial, judged, job, published, viewVars>>

\* The second read of _optional_json.
ParseFile ==
  /\ reader.step = "parsing"
  /\ LET file == Head(reader.todo) IN
       reader' = Noted(file, reader.ref, CurrentFile(file))
  /\ UNCHANGED <<trial, judged, job, published, viewVars>>

\* _trial_directories.
ListTrials ==
  /\ Reading("job")
  /\ LET listed == {d \in Dirs : trial[d].lock # Missing \/ trial[d].result # Missing}
     IN reader' = [reader EXCEPT !.phase = "trials", !.dirs = listed]
  /\ UNCHANGED <<trial, judged, job, published, viewVars>>

\* They are opened in order.
OpenTrial ==
  /\ Reading("trials") /\ reader.dirs # {}
  /\ LET d == Min(reader.dirs) IN
       reader' = [reader EXCEPT !.phase = "opened",
         !.todo = <<File("result", d, "none"), File("lock", d, "none")>>]
  /\ UNCHANGED <<trial, judged, job, published, viewVars>>

TaskFiles(d, t) == <<File("manifest", d, t), File("spec", d, t)>>

Duplicate(d) ==
  LET id(e) == Got(reader.inputs, File("result", e, "none")).id
  IN \E e \in Opened(reader.inputs, "ok") \ {d} : id(e) = id(d)

\* Mutant: two directories may tell the same trial.
TakeTrialTwice ==
  /\ Reading("opened")
  /\ LET d == Min(reader.dirs)
         result == Got(reader.inputs, File("result", d, "none"))
     IN reader' = [reader EXCEPT !.phase = "trials", !.dirs = @ \ {d},
                     !.todo = IF Ok(result) THEN TaskFiles(d, result.task)
                                \o <<File("reward", d, "none")>> ELSE <<>>]
  /\ UNCHANGED <<trial, judged, job, published, viewVars>>

\* The body of the loop over the directories, once result and lock are read.
TakeTrial ==
  /\ Reading("opened")
  /\ LET d == Min(reader.dirs)
         result == Got(reader.inputs, File("result", d, "none"))
     IN IF Ok(result) /\ Duplicate(d) THEN Refuse
        ELSE reader' = [reader EXCEPT !.phase = "trials", !.dirs = @ \ {d},
               !.todo = IF Ok(result) THEN TaskFiles(d, result.task)
                          \o <<File("reward", d, "none")>> ELSE <<>>]
  /\ UNCHANGED <<trial, judged, job, published, viewVars>>

\* The rows of the attempts nobody made read the files of their task.
PlanMissing ==
  /\ Reading("trials") /\ reader.dirs = {}
  /\ LET tasks == SetToSeq({r.group.task :
                              r \in MissingRows(ObservedRows(reader.inputs))})
     IN reader' = [reader EXCEPT !.phase = "planned",
          !.todo = [k \in 1..(2 * Len(tasks)) |->
                      File(IF k % 2 = 1 THEN "manifest" ELSE "spec",
                           0, tasks[(k + 1) \div 2])]]
  /\ UNCHANGED <<trial, judged, job, published, viewVars>>

\* Each of the three files is replaced atomically, the summary last.
WriteTrials ==
  /\ Reading("planned")
  /\ published' = [published EXCEPT !.trials = [is |-> "ok",
                      rows |-> Report(reader.inputs).trials]]
  /\ reader' = [reader EXCEPT !.phase = "trials written"]
  /\ UNCHANGED <<trial, judged, job, viewVars>>

WriteIssues ==
  /\ Reading("trials written")
  /\ published' = [published EXCEPT !.issues = [is |-> "ok",
                      rows |-> Report(reader.inputs).issues]]
  /\ reader' = [reader EXCEPT !.phase = "issues written"]
  /\ UNCHANGED <<trial, judged, job, viewVars>>

WriteSummary ==
  /\ Reading("issues written")
  /\ published' = [published EXCEPT !.summary =
       LET r == Report(reader.inputs)
       IN [is |-> "ok", inputs |-> reader.inputs, arms |-> r.arms,
           complete |-> r.complete, trials |-> r.trials, issues |-> r.issues]]
  /\ Refuse
  /\ UNCHANGED <<trial, judged, job, viewVars>>

\* verify: no error when the inputs and the two outputs have the digests
\* the summary gives.
Verified(summary) ==
  /\ \A i \in summary.inputs : CurrentFile(i.file) = i.ref
  /\ Ok(published.trials) /\ published.trials.rows = summary.trials
  /\ Ok(published.issues) /\ published.issues.rows = summary.issues

NextReport ==
  \/ NextView /\ UNCHANGED reportVars
  \/ \E d \in Dirs :
       \/ StartTrial(d) \/ TrialEnds(d) \/ CopyTrial(d)
       \/ \E s \in setup.submissions : Judge(d, s) \/ Regraded(d, s)
  \/ JobUpdates
  \/ Summarize \/ HashFile \/ ParseFile \/ ListTrials \/ OpenTrial \/ TakeTrial
  \/ PlanMissing \/ WriteTrials \/ WriteIssues \/ WriteSummary

SpecReport == InitReport /\ [][NextReport]_<<viewVars, reportVars>>
-----------------------------------------------------------------------------
\* A trial of this job that a grader has judged.  The zeros that grade_repo.py
\* and verisoft/harbor_grade.py publish when they crash are told by nothing from
\* a verdict; a crash of the other two graders is.
Genuine(d) ==
  /\ d \in Planned \/ setup.found \in {"extra", "lockless"}
  /\ judged[d] # NoJudgement
  /\ Crashed(judged[d]) => judged[d].grader \in {"repo", "verisoft"}

Won(d) == Grade(judged[d])["reward"] = 1 /\ ~Crashed(judged[d])

ArmSound(arm, rows) ==
  \A g \in {h \in Groups : h.agent = arm.agent} :
    LET made == {r.dir : r \in {q \in rows : q.group = g}}
    IN /\ Cardinality(made) = PlannedAttempts(g)
       /\ \A d \in made : d # 0 /\ Genuine(d)
       /\ g.task \in arm.passed <=> \E d \in made : Won(d)

\* An official pass@k counts judged trials: behind every planned attempt of its
\* arm stands a trial of its own, of this job, and the problems passed are those
\* for which a grader that ran to its end gave a reward.  Copied, foreign and
\* surplus directories, lost files, crashes of grade.py and of Vero's grader, a
\* reward written again, and a job that is still running never make up for one;
\* a crash of grade_repo.py or of VeriSoft's grader counts as a failed attempt
\* (grade_repo.py:318, verisoft/harbor_grade.py:302), never as a passed one.
ReportSound ==
  Ok(published.summary) =>
    /\ \A arm \in published.summary.arms :
         arm.complete => ArmSound(arm, published.summary.trials)
    /\ published.summary.complete =>
         /\ job.finished
         /\ \A arm \in published.summary.arms : arm.complete

\* When verify finds nothing, the report is that of the files as they are:
\* everything it was computed from, though each file was read twice and the
\* job went on writing, says the same now.  A view that --force removes and
\* builds again during the report may be missing between two reads that agree.
VerifyDetects ==
  Ok(published.summary) /\ Verified(published.summary) /\ ~Overwrites =>
    \A i \in published.summary.inputs : CurrentFile(i.file) = i.parsed
=============================================================================
