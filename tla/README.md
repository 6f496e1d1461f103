# A TLA+ model of Code-Prover V3

Code-Prover V3 trains and evaluates a Lean prover.  A Miles/Ray driver trains
the model; beside it a fully-asynchronous sampler keeps a number of *episodes*
going, each of which drives one E2B sandbox through model turns, tool calls and
a final verification.  The same verdicts, reached through Harbor, end up in reports
over fixed benchmark campaigns.  This directory models

* the sampler: the pool of sandboxes, the worker that runs the episodes, and the
  data source that has to survive a crash with every prompt accounted for;
* an episode from its first token to the verifier's verdict, and the evaluations
  made of many of them;
* the agent that edits a task under the eyes of its specification guard, and the
  service that runs it for Miles and must not turn a failure into a reward;
* the campaigns: how a directory of tasks is made of an audited release, what the
  graders say of a submission, and the report that counts what they said.

Paths below are relative to `src/`.

## 1. The system

| component | state | operations | model |
|---|---|---|---|
| sandbox warm pool, `rl/warm_pool.py` | permits, ready queue, idle times, counters, run lock | `start`, `_produce`, `_keep_alive`, `acquire`, `close` | `WarmPool`, `SandboxSupply` |
| E2B client, `rl/sandbox.py` | one provider instance and its transport | `create`, `renew`, `exec`, file transfer, `close` | `create`, `renew`, `close` in `WarmPool`, uploads and their retries in `Episode` |
| rollout worker, `rl/fully_async_rollout.py` | active tasks, result queue, the flags `running`, `_failure`, `_pause_requested`, `_idle`, the module-global worker | `_loop`, `pause`, `resume`, `stop`, `get_global_worker`, `generate_rollout_fully_async` | `RolloutPipeline`, `PromptLedger` |
| persistent data source, `rl/persistent_data_source.py` | buffer, completed groups, accepted ids per rollout, dataset cursor, two files per checkpoint | `record_*`, `retry_*`, `discard_completed`, `save`, `load` | `RolloutPipeline`, `PromptLedger` |
| evaluation, `rl/evaluate.py` | the results so far, one output file | `generate_rollout_eval`, `evaluate_records`, `summarize_results` | `Evaluation`; the first in `RolloutPipeline` |
| prover episode, `rl/generate_with_prover.py`, `rl/token_stream.py` | token stream, budgets, deadlines | `generate`, `run_episode`, `_grade` | `Episode`; as a user of the pool in `WarmPool`, as a task of the worker in `RolloutPipeline` |
| qwen-native agent, `agents/qwen_native_agent.py` | message list, nudge and compaction counters, last good task file | `run`, `_post_with_retry`, `_guard_task_file` | `AgentLoop` |
| spec guard and verifier, `agents/spec_guard.py`, `verifier/grade.py` | none (two copies of one algorithm) | `_readonly_projection`, `check_spec_intact` | `SpecGuard` |
| graders, `verifier/grade.py`, `verifier/grade_repo.py`, `verisoft/harbor_grade.py`, `vero/harbor_grade.py` | none | a submission to `reward.json` | `Verifier` |
| Harbor service, `rl/miles_harbor_server.py`, `rl/miles_harbor_agent.py` | active trials per session instance, run semaphore, client reference counts | `/run`, `/flush`, `run`, `reward_func`, `fail_on_infrastructure`, `abort` | `HarborService` |
| campaigns, `tools/migrate_*_campaign.py`, `tools/dataset.py`, `tools/benchmark_paths.py` | a descriptor, an external release, the canonical dataset, the view | capture, verify, materialize, refresh | `CampaignView` |
| results, `tools/harbor_results.py` | a job directory, the three files of a report | `summarize`, `verify` | `HarborReport` |
| MCP bridge, cluster entrypoint, launcher, codec, preflight, distillation rounds, task data | - | - | not modelled (section 8) |

**How they interact.**  The Miles driver calls `generate(r)`, `save(r)` and
`eval(r)` of one actor thread, one at a time; it dispatches `generate(r+1)`
*before* the training step and the save of `r`.  The actor thread talks to the
worker thread through flags, a bounded queue and the data source they share.
The worker thread runs one asyncio loop on which the episodes, the pool's
producers and the pool's renewal tasks interleave at their awaits.  Episodes get
their sandboxes from the pool (`acquire`) and destroy them themselves.  The E2B
service answers late, not at all, or loses an instance.  The process may die at
any moment; only the checkpoint files remain.

The other way to train sends each sample through Miles' hooks instead: `run` posts
a request to the Harbor service, which registers it under the session's instance,
waits for a permit and runs a trial, in which `QwenNativeAgent.run` alternates
between model requests and tool calls in a sandbox; after a tool call the guard
compares the task file with the original and may put a copy back.  The verifier's
reward travels back to `reward_func`, and `fail_on_infrastructure` decides whether
the group is trained.  A cancelled run, or the abort hook, flushes an instance.

A fixed evaluation runs the same `generate` as the sampler, many at a time, and
writes a row for each.  A campaign is evaluated by Harbor: a materialiser makes a
directory of tasks, the *view*, from a release that is frozen by digests; Harbor runs
a planned set of trials over it and a grader writes a `reward.json` for each; and
`harbor_results` makes of all these files a report whose pass@k is official only if
nothing is missing, and which `verify` can check against the files later.

**What is hard here.**  Cancellation that lands in the middle of a clean-up; a
permit that several tasks may have to give back; flags written by one thread
between two reads of the other; prompts that have been fetched from the dataset
but are neither trained nor written down; a checkpoint made of two files; failure
paths that forget an object which still owns state; deadlines inside deadlines; a
result that is read while somebody still writes it.  `PROJECT.json` lists each
hazard at its line with the properties that watch it.

**What makes each component correct.**

* pool: permits and inventory agree on every path; one owner per instance; no
  instance is forgotten; no waiter sleeps beside a ready instance; the run lock
  outlives the inventory; shutdown ends.
* worker and collector: the queue never overflows; what is queued is on record;
  a pause means that nothing runs; a failed call leaves no sampler; every call ends.
* data source: every fetched prompt is in exactly one place, every complete
  checkpoint holds exactly the fetched prompts that are not settled, and a restart
  neither skips nor repeats one.
* agent: every run ends, every request carries an answerable history, and the
  guarded task file always states the task; guard and verifier agree.
* Harbor service: a flush reaches every trial of the instance, the counts return
  to zero, no failure becomes a reward, and no bad grade counts as a failure.
* episode: what is trained is what was sampled, a score is the verdict of the one run
  of the verifier, and the verifier keeps its time whatever the generation took.
* evaluation: it ends, leaves nothing running, and summarises complete rows only.
* view: whoever finds it finds it whole.
* report: an official pass@k counts judged trials of its own job and rewards no crash,
  and a report that verifies is that of the files as they are.

## 2. Modules

| module | kind | what it is |
|---|---|---|
| `WarmPool` | specification | the pool, its tasks, the episodes that call it, the provider |
| `SandboxSupply` | abstract specification | a bounded stock of single-use instances |
| `MCWarmPool` | model checking | small sets of tasks and instances, symmetry |
| `WarmPoolProofs` | proofs | the inductive invariant, the safety theorems, the refinement, and that no instance is orphaned |
| `RolloutPipeline` | specification | driver calls, worker loop, data source, checkpoint files, crashes |
| `PromptLedger` | abstract specification | what the pipeline promises about the prompts of its dataset |
| `MCRolloutPipeline` | model checking | the setups of the runs |
| `RolloutPipelineProofs` | proofs | types, the queue bound, failures, the last rollout, the pause and the clean-up |
| `PromptLedgerProofs` | proofs | each prompt in one place, the refinement of `PromptLedger`, checkpoints; extends `RolloutPipelineProofs` |
| `SpecGuard` | operators | the read-only projection, guard and verifier, and what they must decide |
| `AgentLoop` | specification | the agent's loop and the guard of its task file; extends `SpecGuard` |
| `MCAgentLoop` | model checking | small files, edits and agent configurations |
| `AgentLoopProofs` | proofs | what the guard decides, remembers and leaves behind, the history of requests |
| `HarborService` | specification | Miles' hooks, the service and the messages between them |
| `MCHarborService` | model checking | samples, instances and outcomes of trials |
| `HarborServiceProofs` | proofs | registers, flushes and what is trained |
| `Verifier` | operators | the four graders, from a submission to its metrics |
| `Episode` | actions | one episode of the prover; extends `Verifier` |
| `Evaluation` | specification | the fan-out of episodes by `evaluate_records`; extends `Episode` |
| `MCEvaluation` | model checking | the setups of the runs |
| `EvaluationProofs` | proofs | scores, the token stream, permits, slots and rows |
| `CampaignView` | specification | descriptors, audits, materialisers, a refresh in place |
| `HarborReport` | specification | a job over a view, and reports about it; extends `CampaignView` and `Verifier` |
| `MCHarborReport` | model checking | the situations of the run |
| `CampaignViewProofs` | proofs | that a published view is whole |
| `HarborReportProofs` | proofs | that jobs and reports leave the view alone, that `verify` notices, that a report counts judged trials; extends `CampaignViewProofs` |

Several models have a constant `Setups`, a set of records of which a behaviour
chooses one (the variable `setup`): sizes, bounds, and what may go wrong.  One run
then covers several situations, and the theorems hold for all of them.

### WarmPool

An action is the code between two awaits: on one asyncio loop nothing else runs
in between.  `pc[t]` is the await that task `t` is suspended in, `hold[t]` the
sandbox in its local variable.

| variable | code |
|---|---|
| `phase` | `start`, `_closed`, `_close_task` |
| `lock` | the `flock` on `RUN_DIR/.e2b-warm-pool.lock` |
| `slots` | `self._slots` |
| `ready` | `self._ready` (its time stamps are left out: an entry *may* be due) |
| `reclaiming` | the list `idle` of `_close` |
| `cancelled` | `Task.cancel()` that has not been delivered |
| `life` | the provider: the lifetime last granted to each instance |

A producer goes `slot`, `alloc`, `boot`, `prepare` and back; the failure paths are
`bootclose` (the `except` of `E2BSandbox.create`), `close` (the `finally` of
`_produce`), `backoff`. A renewer goes `watch`, `renew` (`close` on failure). The
loops and the two re-queueing steps look at `self._closed` (`Closed`) as the code
does. An episode goes `runnable` or `blocked` (waiting in `acquire`), `claim`
(renewing the instance it took), `own`, `release`. `_close` cancels every pool task;
what a task does with the `CancelledError` depends on the await it lands in, one
action per case (`CancelIdle`, `CancelAllocation`, `CancelHolding`,
`CancelInsideClose`). `_close` then waits for the producers and for the one
`_keep_alive` task, not for the renewers that task gathers: a cancelled gather is over
with its first child (`KeepAliveOver`), so `EndClose` may free the lock while another
renewer is still in `unwind`, killing what it held. When the event loop ends,
`asyncio.run` cancels such a renewer once more (`LoopEnds`).

`KillMayFail` says whether `E2BSandbox.close` may give up after its three
attempts, `CloseInterruptible` whether a cancellation may land inside it.  Both
are true in the code; runs that ask whether the *pool* forgets an instance turn
them off, and section 5 says what happens when they are on.

### RolloutPipeline

Two threads.  `wpc` is where the worker loop is (`warming`, `sleep`, `quiesce` and
`cleanup` are its awaits, where episodes run and a cancellation can land; the
other values are points between two accesses to state the actor thread shares).
`at` is where the current driver call is.

| variable | code |
|---|---|
| `cursor`, `buffer`, `uncommitted`, `taken` | the dataset cursor, `self.buffer`, `_uncommitted`, `_rollout_groups` |
| `worker`, `running`, `failed`, `pausing`, `idle` | `_global_worker`, `running`, `_failure`, `_pause_requested`, `_idle` |
| `interrupt` | `call_soon_threadsafe(main_task.cancel)` on its way |
| `active`, `publishing`, `queue`, `nextId` | `active` of `_loop`, the result `_publish_result` is at, `output_queue`, `_next_group_id` |
| `nextRollout`, `saved`, `driver` | how far the driver is and whether a call has raised |
| `bufferFile`, `cursorFile` | `codeprover_buffer_<r>.pt`, `global_dataset_state_dict_<r>.pt` |
| `fate`, `fateFile` | history: what became of each prompt, and what had become of it when the buffer file of a rollout was written |

A prompt group is the position of its prompt in the dataset and its
`infrastructure_retries`.  Whether a result failed, is stale, is filtered or is
accepted is a free choice of the collector's actions, as it is decided by data the
model does not have.  `save` takes the data-source lock once (`Snapshot`), writes
the buffer file (`WriteBuffer`, an `os.replace`) and then the cursor as it is *by
then* (`SaveCursor`).  `Crash` clears everything but the files; `Load` needs both
files, as `load` does.

The order of the driver's calls (`Generate`, `Save`, `Eval`) comes from how the
source relies on it: a rollout's groups may be accepted for `r+1` before `save(r)`
(`persistent_data_source.py:95-107`, `tests/test_rl_async_e2b.py:1748`), saves may
be skipped (`SAVE_INTERVAL`), evaluations come after a save, the last one after
everything.

`risks` of a setup names what the environment may do beyond that:

* `"preemption"`: a thread is suspended between two of its accesses to a shared
  flag for as long as the other thread needs for a whole iteration;
* `"late save"`: the save of `r` is served after `generate(r+1)` has failed;
* `"eval after final"`: an evaluation is due between the last `generate` and its save;
* `"rollback"`: a restart may choose an older complete checkpoint.

### SpecGuard and AgentLoop

A file is a sequence of lines, a line a marker, a text, a blank or a text that
merely mentions a marker.  `ScanLine` is one turn of the loop of
`_readonly_projection`, `Scan` its states from line to line, `ReadonlyProjection` what
it returns; `WsNormalize` is `_ws_normalize`.  `GuardAccepts` and `VerifierAccepts`
are the two copies of `check_spec_intact`: they differ on an original whose markers
do not pair up (the guard lets everything pass, `spec_guard.py:84`, the verifier
nothing, `grade.py:160`), so `LastGoodIntact` and `GuardedFileIntact` speak of
`Comparable` originals, whose projection is not malformed.  `OnlyBodiesDiffer` says
without an automaton what both must decide on a `Protectable` original, one whose
markers are in pairs (`Paired`): the markers of the final file are in pairs too, and
the written lines outside editable bodies (`Outline`) are the same; `GuardIsExact` compares it with the two automata, and says
that a protectable original is comparable.

`AgentLoop` has one action per exit of a loop turn.  `phase` is the await `run` is
in: `request` (`_post_with_retry` with its `attempt`), `tool`, and for the guard
`read` and `restore`.

| variable | code |
|---|---|
| `original`, `lastGood` | `_guard_original`, `_guard_last_good` |
| `calls`, `compactions`, `truncations`, `postCompaction` | `call_idx`, `n_compactions`, `n_truncation_nudges`, `post_compaction_nudge` |
| `full` | `last_prompt_tokens + max_tokens >= context_soft_limit`, after every reply a free choice |
| `todo`, `talk` | the reply's tool calls, and what is left of `messages`: the last role, unanswered calls, results nobody asked for |
| `spec`, `file`, `late` | external: the verifier's original, the sandbox's file, a command that outlived its exec call |
| `disturbed` | history: somebody wrote behind the guard or a restoration failed |

`agent` is the configuration of the run: the default, a native tool-calling
endpoint, and the Miles path, which may neither compact nor go on after a cut-off
turn (`miles_harbor_server.py:240-244`).

### HarborService

Two processes and the messages between them.  `client[s]` follows `run` for sample
`s`, `handler[s]` its `/run` task on the server: on the wire, `waiting` for a
permit, in its `trial`, `unwinding` after a flush, `done`.  A step of the server is
the code between two awaits; registration and a free permit are one step.

| variable | code |
|---|---|
| `counts` | `_ACTIVE_INSTANCE_COUNTS` of the client |
| `registry`, `permits` | `_ACTIVE_TRIALS`, `_RUN_SEMAPHORE` of the server |
| `verdict`, `reply`, `metadata`, `reward` | one number on its way: said by the verifier, in the answer, in the sample, returned by `reward_func` |
| `flush`, `named` | `/flush` requests of cancelled runs and of the abort hook, and the instances the latter names |
| `flushed`, `faulty`, `mismatch` | history: trials a flush cancelled, samples that met a fault; what Miles found wrong itself |
| `group` | how far Miles is with a prompt: generating, rewarded, trained or refused |

A request may be lost with its client or arrive without it, an answer may come
after the client has gone, a flush may be lost or come before the request it is
for.  `Payload` is `_result_payload`: an exception wins over a reward, and only a
finite number is one.

### Verifier, Episode and Evaluation

`Verifier` has one operator per grader, from what the grader can find out about a
submission to the metrics of its `reward.json`.  The order of the steps matters where
a grader crashes: `grade_repo.py` publishes the checks it has made so far,
`grade.py` a `grader_error`, the other two zeros.

`ep[t]` is the state of the task of trial `t`; `pc` names the await it is in.

| field | code |
|---|---|
| `stream` | the `TokenStream`: tokens by origin, mask, number of logprobs |
| `turn`, `nudges`, `calls` | `n_turns`, the consecutive truncation nudges, tool calls of the reply still to run |
| `file`, `late` | external: the task file in the sandbox, a command whose request has given up |
| `probed` | files the early-stop probe has compiled already |
| `tries` | attempts of `_retry_safe_operation`, of the read of the reward |
| `status`, `reward`, `failure` | of the sample `generate` returns |
| `box`, `permits` | what became of the sandbox; the sandbox semaphore |
| `runs`, `judged`, `verdict` | history and external: executions of the verifier, the file it read, what it published |
| `clock`, `until`, `slack` | in timed setups: time, the end of the phase's deadline, what the loop was late with it |

A turn is `model`, then a `tool` per call, perhaps a `probe`; generation ends in
`tests`, `verify` and `read`, the phases of `_grade`, and every way out leads through
`close`, where the sandbox is killed and its permit given back.  A failure forgets the
locals (`Fail`) and empties the sample (`Marked`).  A tool's result is an arbitrary
file, an error, or a command that goes on by itself.  Where a setup is not timed a
deadline may fire at any moment; where it is, deadlines fire when they are due, and
`ReserveKept` says that the outermost one never has to.

`Evaluation` adds `evaluate_records`: `slots` is its semaphore, `rows` the output
file, `stage` how far it is.  An exception of one trial (`error`: the early stop, a
write that fails) makes `gather` raise and the `finally` cancel the others
(`CancelAll`, and `CancelledAt` for each await); a cancellation from outside does so
twice.

### CampaignView and HarborReport

What a file says is one of five contents: the frozen one, an overlay, an edited one,
a half-written one, none.  `builder[b]` is a process at one of the steps between its
reads and writes: it verifies the descriptor, audits the release, compares the two,
writes every task into a hidden directory, adds the manifest, checks the result
(Putnam, Vericoding) and renames it into place.  What each campaign checks against
constants of the program and what only against the descriptor differs (`Verify...`,
`Audit...`, `ViewChecked`), and so does where an entry comes from (`...Entry`): memory,
the descriptor, a second read, or a link to the canonical dataset.  Capture
(`Capture...`) writes the descriptor itself.  `refresher` is `dataset.py refresh`,
which empties and rewrites a spec, then its mirror.  Edits, disk errors and kills
may come between any two steps.

`HarborReport` adds a job: its `result.json`, and per directory the lock, the reward
and the result of a trial, written by Harbor at their times, some after half of
their text.  `reader` is a process that summarises: `todo` the files it is going to
read, each once for its digest (`HashFile`) and once for its content (`ParseFile`),
`inputs` what it got.  `Report` is the pure part: rows, issues, arms, completeness.
`published` are the three files, replaced one after the other, and `Verified` is
`verify` at any later time.

## 3. Runs

| run | question | bounds | result |
|---|---|---|---|
| `pool_safety` | do permits, inventory, owners, wake-ups and the lock stay consistent, and is the pool a bounded supply? | 2 producers, 2 renewers, 2 episodes, 4 instances, size 2, both switches on | holds, 797 450 states |
| `pool_supply` | is every waiter served, does shutdown end, is no instance forgotten? | 1 producer, 2 renewers, 1 episode, 3 instances, both switches off | holds, 59 540 states |
| `pool_lock_early` | does the lock cover every instance the pool still has? | 1 producer, 2 renewers, 1 episode, 3 instances, both switches off | **violated** |
| `pool_shutdown_leak` | does shutdown destroy every owned instance? | 2 producers, close interruptible | **violated** |
| `rollout` | queue bound, one holder per prompt, end of sampling after the last rollout and after a failure; are checkpoints exact, is the ledger kept, is a pause quiet, does every call end, is no clean-up cancelled twice? | 3 prompts, 2 rollouts; 2 in flight with preemption; 1 in flight with 1 drop and 1 evaluation and preemption; with 1 drop, 1 crash and a restart; with 1 drop, 1 stale group and 1 evaluation | holds, 1 026 873 states |
| `rollout_lost_groups` | is every checkpoint complete when a save comes late, or an evaluation last? | 1 in flight, 1 evaluation | **violated**, either way alone |
| `agent_loop` | do guard and verifier decide right, does the file stay intact, is every history answerable, does the run end? | 3 originals, 8 edits, 3 configurations, 3 calls, 2 attempts, 2 tool calls a reply, 1 compaction, 2 truncation nudges | holds, 351 982 states |
| `agent_lost_edit` | does the guard replace only what breaks the specification? | 1 original, 2 edits | **violated** |
| `harbor` | are registry, counts and permits exact, what is trained, whom does a flush reach, does every request end? | 2 samples of a group, 1 or 2 instances, 1 permit, 4 outcomes of a trial, 1 abort | holds, 211 448 states |
| `evaluation` | is the trained stream the sampled one, the score the one verdict, the reserve kept, and does the evaluation end cleanly? | seven setups: one trial of 3 turns and 6 tokens; one against the clock; 3 trials on 2 slots and 1 permit; 2 samples of a task, also with a cancellation from outside; a record listed twice; an output that exists | holds, 430 780 states |
| `eval_cancel` | does a cancelled evaluation wait for the clean-up of its trials? | 2 trials | **violated** |
| `campaign` | is a view whole, does an official pass@k count judged trials only, with a crash of each grader among them, does `verify` notice every change? | 19 situations: 2 tasks, at most 2 materialisers, 3 trial directories, 2 reports | holds, 656 582 states |

The two setups of `rollout_lost_groups` are two findings.  TLC stops at the shortest
counterexample; with `Setups <- LateSave` or `Setups <- EvalAfterFinal` it shows
each by itself.

**Why these bounds are enough.**  The pool's invariants relate at most two tasks
of a kind and one instance: two producers, two renewers (`min(_MAINTENANCE_CONCURRENCY,
size)` for a size of 2) and two episodes make every pair, size 2
with four instances lets an instance be queued, claimed, renewed and replaced at
the same time, and the theorems of section 6 remove the bound.  In the pipeline
two groups in flight beside a queue of two reach the full queue while a pause
publishes finished episodes; two rollouts are the least with an overlap of
`generate(r+1)` and `save(r)` and with a last rollout; three prompts allow one to
be trained, one to be read ahead and one to be unread; one crash separates two
lives of the process, and a restart leaves the pipeline in a state like the
initial one except for its files.  `drops`, `stale`, `evals` and `crashes` of a
setup cap what would otherwise repeat for ever.

The edits of `agent_loop` contain each way in which a file can differ: inside and
outside an editable section, by white space, by a nested, crossed, missing or merely
mentioned marker, and no file at all; two of them in sequence show whether a bad one
is ever remembered.  Two attempts and three calls are the least at which a budget is
spent after something else happened (a nudge, a compaction, a tool call), and two
calls in a reply the least with one unanswered while the other is guarded.  The code's
values (16 attempts, 64 calls) add only length.  In `harbor` two samples with one
permit make one wait for the other; on one instance they share a count, a registry
entry and a flush, on two they do not, and one group of both is refused for the
fault of one.  The outcomes are a grade of 0, of 1, no finite number, and a
reward beside an exception.

In `evaluation` six tokens and three turns reach the budget inside a reply, at the
synthetic end of a turn and inside an answer; the deadlines are one step of the clock
each and the margin two, so that one unit forgotten in the reserve shows.  Trials do
not share anything but permits, slots and the output, so the fan-outs give them no
room for a reply; two slots and one permit make one trial wait for each, and an early
stop after two results leaves the third in any phase.  In `campaign` two tasks are
what a mixed view or report takes; a second materialiser is wanted for the race of
two renames and of two `--force`; two attempts with a third directory let one be
copied, surplus, foreign or missing; and a reward that is written again changes once,
because a file that says one thing, another, and the first again for ever is beyond
what digests can notice (section 5).

Deadlock checking is off where the system really stops: the driver ends once a call
has raised, the agent's run has returned, every group of the Harbor service is
settled, an evaluation is over, and materialisers and reports come to an end.

### How to read the properties

A property says in its comment which lines of the code it is about.  Those that carry
most, and what breaks them in the mutants of `PROJECT.json`: permits that are given
back once too often or too seldom (`SlotAccounting`), a group that is published
before it is on record (`CheckpointExact`, `HeldOnce`), a guard that remembers before
it has checked (`LastGoodIntact`), a flush that forgets who waits for a permit
(`FlushStopsTrials`), a verifier that is run again after a failed read
(`ScoreIsVerdict`), a reserve that forgets one of its phases (`ReserveKept`), a trial
that two directories tell of (`ReportSound`), a digest that is taken after the parse
(`VerifyDetects`).

## 4. Fairness

*Pool.*  Every await of a pool task has a deadline in the code (creation, exec,
35 s renewals, 30 s kills) and asyncio runs every runnable task, so each task's
steps are weakly fair; that is enough for `ShutdownCompletes`.  That a waiter is
served needs more than the pool can give: a provider that answers often enough
and stops losing instances (`ProviderFairness`, `StableProvider`).

*Pipeline.*  The loop's steps, the delivery of a cancellation and the steps of the
call in progress are weakly fair (threads are scheduled).  An episode ends, by its
own timeout, as the loop suspends again and again: strong fairness of
`EpisodeEnds`.  `Resume` is strongly fair because it waits only for the loop to be
at an await.  Failures, deadlines of a live worker and the driver's calls need
not happen.  A pause of a worker that no longer runs can only time out, so that
deadline counts as progress.

*Agent.*  Every await of `run` ends by itself: the HTTP client has a timeout, exec
calls have one, and `_post_with_retry` counts its attempts; `Run` is weakly fair.
What the model answers, what a command does and whether the trial is cancelled is
not up to fairness, so `RunEnds` rests on the counters alone.

*Harbor.*  The client's request has a timeout and so has its flush (`Receive` or
`PostFails`, `CancelledRunEnds`); on the server a trial ends by the agent's and the
verifier's timeouts, its teardown by the provider's, and the semaphore wakes its
waiters (`ServerStep`).  Arrivals, flushes and cancellations need not happen.

*Evaluation.*  `evaluate_records` (`Main`) and each trial are weakly fair: every await
of an episode has a timeout, its semaphores wake their waiters, and asyncio runs
every runnable task.  Cancellations from outside, the clock, lost sandboxes and
commands left running need not happen.

The campaign tools have no liveness property: they are run by hand and may be killed.

## 5. Findings

Six places where the code does not do what its comments or tests say (the
quotations are in `PROJECT.json`):

1. *Shutdown can leak an instance* (`pool_shutdown_leak`).  `_close` cancels a task
   that is already inside `await sandbox.close()` of its own `finally`; the kill is
   abandoned and nobody else knows the instance.  Its provider lifetime ends it.
2. *Shutdown frees the run lock too early* (`pool_lock_early`).  Of two renewers the one
   that sleeps ends at its cancellation, and with it the gather of `_keep_alive` and the
   wait of `_close`; the other, cancelled inside a renewal, is still killing its instance
   when the `flock` is dropped and another process may own the run.  `LockCoversStock`
   (run `pool_safety`) says what the lock does cover: all but such instances.
3. *A save after a failed generate is incomplete* (`rollout_lost_groups`, setup
   `LateSave`).  The failure path of `generate(r+1)` forgets the worker and its
   cancelled episodes; `save(r)` finds no worker and writes a buffer without their
   prompts, beside a cursor that has passed them.
4. *An evaluation after the last generate restarts the sampler*
   (`rollout_lost_groups`, setup `EvalAfterFinal`).  The new worker numbers its groups
   from 0, its results overwrite recorded groups, and the last checkpoint loses
   prompts.  It needs `EVAL_INTERVAL` to divide `NUM_ROLLOUT - 1`.
5. *A reading that fails discards an intact edit* (`agent_lost_edit`).
   `_read_task_file` answers `None` for a missing file and for an exec call that
   raised; the guard takes both for a deletion and writes back the content before
   the edit.
6. *A cancelled evaluation does not wait for every clean-up* (`eval_cancel`).
   `asyncio.gather` is done when the first cancelled trial has ended; the `finally`
   block then cancels the others a second time, inside the clean-up the first
   cancellation started, and their sandboxes are not killed.

Observed while modelling, without a run of its own.

*Sampler.*  Two races need a thread to be suspended between two adjacent statements
for a whole iteration of the other: a stale `_idle` after `resume`
(`QuietWhilePaused`), and a second cancellation of episodes that are cleaning up
(`CleanupUninterrupted`).  Both properties, and `CheckpointExact` that rests on the
first, have the premise `Unpreempted`; TLC finds both races without it.

*Agent and Harbor service.*  `stop_reason` stays `final_answer` when the last allowed
call ends in tool calls; guard and verifier differ on malformed originals; a flush
for one cancelled run stops the trials of its siblings on the same instance, and one
of those then opens the circuit; a flush that overtakes its request leaves the trial
running for nobody.

*Episode and evaluation.*

- A verifier that crashes publishes `{"reward": 0, "grader_error": 1}` and its
  `test.sh` exits 0; `_grade` reads the 0 (`generate_with_prover.py:554`), so a crash
  is trained as a wrong proof, while `tests/test_rl_async_e2b.py:292` is named
  `test_grader_infrastructure_failures_are_not_reward_zero` and `harbor_results.py:330`
  calls the same file an `infra_error`.
- An exec call whose transport times out returns an ordinary result, so a tool's
  command may still be writing while `_grade` verifies (`LateWrite`).
- Tool arguments no command can be made of end the episode as failed (`ToolRaises`).
- A first cancellation that lands in the `close` of a trial that was ending normally
  abandons its kill too (`box = "abandoned"`), and so does `Abort`.
- A record that is listed twice makes `summarize_results` raise after every trial has
  run (setup `Twice`): rows, but no summary.
- `rl/README.md:338` says that the verifier's limit is 600 s; `GRADE_TIMEOUT_SEC` is larger.

*Campaigns.*

- A VeriSoft view has record digests in its manifest and no `environment/task.lean`, a
  Vero view no manifest, and Vero's reward lacks the five sub-metrics: reports over
  these two can never be complete.
- *Grader crashes that count.*  A crash of the repository's or VeriSoft's grader
  publishes zeros without `grader_error` (`grade_repo.py:318-320`,
  `verisoft/harbor_grade.py:302-310`), which the report takes for a failed attempt of an
  official pass@k.  `MIGRATION.md:104-106` says that a grader crash fails closed, and
  `README.md:119-121` that only attempts that passed strictly or failed normally let
  pass@k be official.  `ReportSound` therefore does not say that each attempt has a
  verdict: `Genuine` admits these two crashes by name, and no others, and `Won` that none
  of them is rewarded.  The run `campaign` has a crash of each grader; without the
  exception TLC finds a complete arm with a crashed trial.
- VeriSoft's `--force` removes the published view before the new one is renamed
  (`PublishedWhole` has this exception, and no other).
- `verify` cannot notice a file that changed between its digest and its content and
  changed back (`Regraded` excludes it), nor a view that `--force` removed and built
  again between the two (`~Overwrites` excludes it); trial directories that appear after the
  listing are not among its inputs; a spec that was edited during a job and restored
  before the report leaves no trace.

## 6. Proofs

Eight modules; `PROJECT.json` lists their 47 theorems.  Each holds for every value of
the constants under the named assumption of the specification it is about.  `tlapm`
checks them to the last leaf.

**`WarmPoolProofs`** proves, for any finite sets of producers, renewers and episodes,
any set of instances and any size (`PoolAssumption`), that `Spec` keeps the inductive
invariant `IInv`, and from it the type invariant, the other invariants of
`pool_safety` and `InventoryBound`.  None of them is inductive alone.  `IInv` is their
conjunction with

- `HoldsMatchAwait`: a task has a sandbox in its local variable exactly at the
  awaits of `Holding`; `ExclusiveOwner` and `ActiveLifetime` need it to say what a
  step at an await may touch.  That a new instance is not one somebody still refers
  to is a guard (`Fresh`) of the allocating actions, so it needs no invariant.
- `PhaseDiscipline`: what each phase says of the run lock, the inventory, the
  cancelled tasks and where a pool task can be.  `LockCoversStock` follows from it:
  nothing is owned before `start`, and after `_close` has returned only what renewers
  at `unwind` hold.  It also shows that the exits on `self._closed` are not taken: the
  cancellation comes first (`WorkingOpen`, `NextOpen`).
- `SlotBound`: `SlotAccounting` is an equation of the running pool only; once
  shutdown begins the queue is emptied into `reclaiming` and permits go unreturned,
  and what is left is the upper bound permit holders + queued + reclaimed <= `Size`.

`InventoryBound` follows from `SlotBound`: each instance the pool owns has a permit
holder that holds it, or is queued, or is being reclaimed (`BoundFollows`).

Over the same invariant the module proves the refinement `Spec => ImplementsSupply`
step by step (every action is a step of `SandboxSupply` or a stutter), and `OrphanFree`
under `Reliable`: kills succeed and no cancellation lands inside a close.

**`RolloutPipelineProofs`** proves `TypeOK`, `QueueWithinBound` and
`FailureStopsSampling` for every dataset, batch, number of rollouts, retry budget and
setup (`PipelineAssumption`), so with any crashes, restarts, late saves and
preemptions.  The inductive invariant is `PipelineInv`: the types by groups of
variables, `QueueWithinBound`, and

- `OnItsWay`: the worker has a result in its hands exactly at the points between its
  accesses to the data source and the queue.  Without it the bound would be lost where
  an episode that has left `active` is not in `queue` yet.
- `Stopped`: a worker that a call has stopped stays stopped while the call waits for
  it, and after a call that raised, also inside the later save that may still come.

There are many actions and many variables; one frame lemma per group of variables says
which actions change it, and the rest of the proof only looks at those.
`FS_AddElement` and `FS_RemoveElement` count the episodes in flight.

A second invariant, `Discipline`, is about the driver's calls against the worker.
`CallPlan` says which call is at which point and how it may end, `NothingLeft` what a
thread or a process leaves behind.  On these rest three parts, each with the one
condition it needs:

- `LastRollout` (`NoEvalAfterFinal`): who can still start a worker once every rollout
  has its batch.  `SamplingEndsWithLastRollout` follows.  Finding 3 is why the
  condition is there.
- `PauseHolds` (`Unpreempted`): `idle` is true only while the loop is at a point from
  which it starts nothing, and a call that relies on the pause has seen it so.
  `QuietWhilePaused` follows.
- `OneCancellation` (`Unpreempted`): the cancellation of `stop` is sent once, to a loop
  that is not cleaning up.  `CleanupUninterrupted` follows.

With `"preemption"` TLC finds the last two broken (section 5).

**`PromptLedgerProofs`** follows the prompts.  The steps of the pipeline are sorted by
how they move groups (`IsDropped`, `IsTaken`, `IsLost`, `GoesBack`, ...), so that each
argument looks at a few movements instead of all actions.

- `IdsInOrder`, with `StaysStopped` and `OneWorker`: the ids of a worker tell its groups
  apart, from the episode to the rollout that takes the group, and a worker is
  replaced only after a call has raised.  Collector and data source know a completed
  group by its id alone, so nothing else can be shown without it.
- `Separate` and `FilesSound` (`NoRollback`): buffer, episodes, the result on its way
  and completed groups have no prompt in common; a prompt in play is read and open; a
  checkpoint file holds prompts that were open when it was written.  From these follow
  `HeldOnce`, `ImplementsLedger` and half of `CheckpointExact` (`CheckpointsSound`:
  nothing settled, nothing unread), with any crashes, preemptions, late saves and
  evaluations.  A rollback would write a new file beside an old cursor.
- `NothingLost`, `CallsTimely` and `FilesWhole` (`NoRisk`): while no call has failed,
  every prompt that was read has a place or a fate, and what a rollout has taken stays
  on record until it is saved.  From these follows the other half, that a checkpoint
  misses nothing, and so `CheckpointExact` and `CheckpointComplete`.  Each risk has to
  be absent: the late save and the last evaluation are findings 2 and 3, a preemption
  breaks the pause a save relies on, and a rollback writes over files.

**`AgentLoopProofs`** proves `TypeOK`, `LastGoodIntact`, `GuardedFileIntact` and
`TranscriptAnswerable` for any files, edits, budgets and configurations.  `AgentInv`
adds what the guard's memory is (`LastGoodAccepted`: the original or a file it has
accepted; `FileIsLastGood`: between tool calls the file is what it saw or put last)
and how far a reply's calls are answered (`TalkInv`).  Here
`ReadonlyProjection` stays opaque: the argument is about the order of reading,
remembering and restoring.

`GuardIsExact` is about the comparison alone, for files of any length, and is proved
along its two loops (`Stepwise`: what holds before the first line, and after a line if
before it, holds at the end):

- `SectionIsOpen`: while the scan goes well, its section is the one whose start marker
  is the last marker so far.  From this, `MalformedIsUnpaired`: the scan complains
  exactly about files that are not `Paired`; and `BodyIsSkipped`: on those that are, it
  drops exactly the lines of editable bodies.
- `ScanAgrees`: of a paired file, the normal form of what the scan keeps and the
  `Outline` can be computed from each other, by putting in or taking out the
  sentinels.  So two projections are equal just when the outlines are (`GuardDecides`).

With the first argument it gives `GuardKeepsTask`: the file an undisturbed guard leaves
behind is the original but for white space and editable bodies.  `AgentAssumption` asks
that files are sequences of `Lines`.

**`HarborServiceProofs`** proves `TypeOK`, `RegistersExact`, `TrainedIsVerified` and
`FlushStopsTrials` for any samples, instances, groups and permits.  The registers are
counts of other variables, so the proof is one of finite sets, one element joining or
leaving at a time.  `TrainedIsVerified` is about a number at the end of its way;
`ServiceInv` adds what each station says of the one before it: `RepliesVerified` (an
answer on its way), `AnswersTrue` (what a sample keeps of it), `GroupsSettled` (what
a rewarded group has).

**`CampaignViewProofs`** proves `PublishedWhole` for any tasks, overlays, number of
materialisers and situations.  What a rename publishes was written many steps earlier;
`BuiltWhole` says what each step of a materialiser has established of its hidden
directory; it also says that only `--force` removes a view.
**`HarborReportProofs`** shows that the composition with jobs and reports implements
`CampaignView`'s specification (`ReportKeepsView`), and so keeps its invariant.  It
then proves what a report promises, for any plan, directories and submissions
(`ReportAssumption`) and any interleaving of trials, graders, copies, edits and
reports:

- `VerifyDetects`.  `verify` compares digests with the files of the day; the contents
  were read at another time.  The argument is that each file only goes forward:
  `Superseded` says which values a file has left behind and can never have again (a
  job's counts grow, a result stays once it can be read, a reward is written again
  once at most), `SupersededDiffers` that such a value is not the present one.  An
  entry whose digest and content disagree has a superseded digest (`Recorded`),
  and so has what is in the reader's hands between its two reads (`InHand`).  A
  manifest that `--force` removes and builds again goes back, so the property has the
  premise `~Overwrites`.
- `ReportSound`.  `JudgedOK` says of each directory whose verdict it shows: that of its
  own trial, or it is a copy, or it gives itself away by its job, its agent or its
  plan.  `ReaderKeeps` says of a report in the making that the results it keeps are
  those of the directories, each read once, and that no copy is kept; that holds
  because directories are opened in order and the trial that was copied comes first
  (`OriginalFirst`), so `Duplicate` refuses the copy.  With that, rows and directories
  are in bijection, and a complete arm, which has as many rows as attempts, has as many
  trials behind it (`ArmCounts`).  `GradersSpeak` says what each grader's crash leaves:
  a mark, metrics that are not scored, or zeros, and never a reward.  What was judged
  stays judged (`ArmStays`), so a published report stays sound while the job goes on.

`ReportAssumption` asks of a situation that the plan is finite and no longer than there
are directories, that no planned agent has the name the model gives a stranger, that
leftovers other than copies have a planned attempt to resemble, and that submissions
are ones the graders of `Verifier` know.

**`EvaluationProofs`** proves the safety invariants of the run `evaluation`
(`ScoreIsVerdict`, `ReserveKept`, `StreamExact`, `TypeOK`, `EvaluationClean`) for any
trials, plans, deadlines, budgets and setups (`EpisodeAssumption`).  `StreamExact` has
a premise, `PromptFits`: the budget has room for the prompt.  With a longer prompt the
code's own check of the stream (`generate_with_prover.py:480-481`) raises.  The
inductive invariant has four parts:

- `Order`: `EpisodeOK` says of each await of an episode that its clock is within the
  deadlines it was granted and the slack of the waits it has left (`Allowed`,
  `InTime`), which grade and score it carries (`Graded`, `Scored`), and what a
  failure excludes (`Failed`).  `OneVerdict` and `VerifierKeepsReserve` follow.
- `StreamsOK`: tokens, mask and logprobs agree (`Exact`) and fit the budget (`Fits`),
  and while a tool or a probe runs the last token closes the turn.  What the tool
  answers is appended after that await, so agreement alone is not inductive.
- `Books`: the free permits and the trials that hold one make the number there is;
  the same for the slots of episodes; `TrialOK`: an open sandbox
  belongs to a trial with a permit.
- `Stages`: what each stage of the fan-out says of the trials; as long as no task has
  raised, the rows are those of the trials that are done (`Booked`).

A step of an episode is proved once for each part (the lemmas `...Moves`, `...Streams`
and `...Busy`), and the theorems lift it to the function of all trials.

**Only model-checked.**  Liveness (`WaiterServed`, `ShutdownCompletes`, `CallsReturn`,
`RunEnds`, `EveryRequestEnds`, `EvaluationEnds`), which needs fairness.  Every other
property of a passing run is a theorem.

## 7. What comes next

In this order, if the project goes on:

1. An abstract specification of the Harbor service (a request is answered once with
   its own verdict, or refused) that `HarborService` implements.
2. One module over `WarmPool` and `Evaluation`, so that an evaluation's sandboxes come
   from the pool and a shutdown meets trials in every phase.
3. `run_dlc.sh`: no pod reports success unless rank 0 did, and every pod ends.

## 8. Not modelled, and why

* `agents/container/mcp_bridge.py`: one lock around one request and its answer, nothing
  interleaves inside it.
* `rl/run_dlc.sh`: shell processes that share one file; its hazard is listed.
* `rl/submit_dlc.py`, `rl/run_prover_rl.sh`: argument checks and command lines.
* `agents/qwen_native_v1.py` and the message fidelity checks: the text form of tool
  calls; the loops only branch on what was decoded.
* preflight, provenance, checkpoint conversion: one-shot checks of files and tensors.
* `tools/distill_ops.py` and its scripts: an operator copies finished trees, alone.
* generators of tasks and training sets: offline, run once, no concurrency.
* `tasks/`, `images/`, `configs/`, `server/`: data and deployment.
* in `AgentLoop`: the argument checks and path policy of the tools (a refused call is one
  that changes nothing), the transcript, token counts, and what a compaction summary says.
* in `HarborService`: URL, path and digest checks (they refuse a request), the trial's
  configuration, and what Harbor does with a sandbox when a trial is cancelled.
* in `RolloutPipeline`: the arithmetic of weight versions, metrics, and an event loop
  that closes between `stop`'s check and its `call_soon_threadsafe`.
* in `Episode`: what the setup of the tool surface does, weight versions, the spec guard's
  restorations (they are `AgentLoop`'s subject), and how long a transient error takes.
* in `Evaluation`: the order of the plan, seeds and budgets (inputs), and the metrics
  beside completeness.
* in `CampaignView`: image contexts, VeriSoft's `--limit` (a view of fewer tasks), what an
  entry's files contain beside spec and mirror.
* in `HarborReport`: paired outcomes of two arms, token usage and distributions, the
  metadata of `task.toml`, and an agent that a result does not name.
* time: every deadline is "may fire", except in the timed setups of `Episode` and
  where a liveness property needs that it does.
