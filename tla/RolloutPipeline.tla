--------------------------- MODULE RolloutPipeline ---------------------------
(***************************************************************************)
(* The fully-asynchronous sampling pipeline of the RL campaign:            *)
(* rl/fully_async_rollout.py, rl/persistent_data_source.py and the         *)
(* evaluation entry of rl/evaluate.py.                                     *)
(*                                                                         *)
(* Two threads share a data source.  The worker thread runs the asyncio    *)
(* loop of AsyncRolloutWorker: it fetches prompt groups, runs an episode   *)
(* task for each, and queues the results.  The actor thread serves the     *)
(* calls of the Miles driver one at a time: generate (collect a batch),    *)
(* save (checkpoint), eval.  An action is the code between two points      *)
(* where the other thread can interfere: an await, a lock, or an access to *)
(* a flag they share.  A process crash loses everything but the files.     *)
(*                                                                         *)
(* A prompt group is its position in the dataset and the number of its     *)
(* infrastructure retries; ids of async groups restart with each worker.   *)
(***************************************************************************)
EXTENDS Naturals, Sequences, FiniteSets, Functions

CONSTANTS
  NumRollouts,   \* --num-rollout
  Batch,         \* rollout_batch_size
  MaxRetries,    \* --prover-async-max-group-retries
  Prompts,       \* bound: length of the dataset
  Setups         \* one of them is chosen for a behaviour: see SetupType

Nothing == [id |-> 0, group |-> [prompt |-> 0, tries |-> 0], back |-> "reap"]
Rollouts == 0..(NumRollouts - 1)
Open == NumRollouts
Dropped == NumRollouts + 1
Unread == NumRollouts + 2

\* "late save":        the driver saves rollout r after generate(r+1) failed.
\* "eval after final": the evaluation of the rollout before the last, which comes
\*                     after the generate call of the last one, is due.
\* "preemption":       a thread is suspended between two accesses to a flag
\*                     for as long as an iteration of the other one takes.
\* "rollback":         a restart may choose an older complete checkpoint.
AllRisks == {"late save", "eval after final", "preemption", "rollback"}

\* active is sampling_batch_size (episode groups in flight), queue the worker's
\* queue_capacity; the others bound the groups filtered or given up, the groups
\* sent back as stale, the evaluations and the crashes of the process.
SetupType ==
  [active : Nat \ {0}, queue : Nat, drops : Nat, stale : Nat, evals : Nat,
   crashes : Nat, risks : SUBSET AllRisks]

ASSUME PipelineAssumption ==
  /\ NumRollouts \in Nat \ {0} /\ Batch \in Nat \ {0}
  /\ MaxRetries \in Nat /\ Prompts \in Nat
  /\ Setups \subseteq SetupType
  /\ \A s \in Setups : s.queue >= s.active        \* queue_capacity is a max()
                     /\ Batch <= s.active        \* checked by __init__

VARIABLES
  setup,         \* the member of Setups this behaviour has
  \* PersistentRolloutDataSource
  cursor,        \* prompts fetched from the dataset
  buffer,        \* self.buffer, as a set: a prompt is held once (HeldOnce)
  uncommitted,   \* self._uncommitted: id -> completed group
  taken,         \* self._rollout_groups, as pairs <<rollout, id>>
  \* AsyncRolloutWorker
  worker,        \* is _global_worker set?
  wpc,           \* where the worker thread is
  running, failed, pausing, idle,    \* running, _failure, _pause_requested, _idle
  interrupt,     \* a main_task.cancel() on its way to the loop
  active,        \* id -> [group, st] of the episode tasks
  publishing,    \* the result being published, or Nothing
  queue,         \* self.output_queue: [id, group]
  nextId,        \* self._next_group_id
  \* the actor thread and the driver
  at,            \* where the current call is, "free" between calls
  call, rollout, \* the call and its rollout id
  leave,         \* how the call ends once the worker is stopped
  held,          \* does the save have a paused worker to resume?
  got,           \* groups accepted by the current generate
  nextRollout, saved,     \* the rollouts generated and saved so far
  driver,        \* "run", "late" (a generate failed), "over", "crashed"
  snapshot,      \* checkpoint_buffer of the current save
  \* the checkpoint directory
  bufferFile, cursorFile, \* rollout -> content
  \* history
  fate,          \* prompt -> Open, Dropped, or the rollout that took it
  fateFile,      \* fate as of the buffer file of each rollout
  stale, evals, crashes

source == <<cursor, buffer, uncommitted, taken>>
flags == <<running, failed, pausing, idle, interrupt>>
tasks == <<active, publishing, queue, nextId>>
sampler == <<worker, wpc, flags, tasks>>
inCall == <<call, rollout, held, got, nextRollout, saved, driver, snapshot>>
actor == <<at, leave, inCall>>
files == <<bufferFile, cursorFile, fateFile>>
bounds == <<stale, evals, crashes>>
vars == <<setup, source, sampler, actor, files, fate, bounds>>

MaxActive == setup.active
QueueMax == setup.queue
MaxDrops == setup.drops
MaxStale == setup.stale
MaxEvals == setup.evals
MaxCrashes == setup.crashes
Risks == setup.risks

Group == [prompt : 1..Prompts, tries : 0..MaxRetries]
Ids == Nat
Ended == {"returned", "raised", "cancelled"}
Awaits == {"warming", "sleep", "quiesce", "cleanup"}

TypeOK ==
  /\ setup \in Setups
  /\ cursor \in 0..Prompts
  /\ buffer \subseteq Group
  /\ DOMAIN uncommitted \subseteq Ids /\ Range(uncommitted) \subseteq Group
  /\ taken \subseteq Rollouts \X Ids
  /\ worker \in BOOLEAN
  /\ wpc \in Awaits \cup {"reap", "record", "put", "check", "settle", "park",
                          "clear", "fill", "dead"}
  /\ {running, failed, pausing, idle, interrupt} \subseteq BOOLEAN
  /\ DOMAIN active \subseteq Ids
  /\ Range(active) \subseteq
       [group : Group, st : Ended \cup {"run", "cancelling", "torn"}]
  /\ publishing \in [id : Ids, group : Group, back : {"reap", "settle"}] \cup {Nothing}
  /\ queue \in Seq([id : Ids, group : Group])
  /\ nextId \in Ids
  /\ at \in {"free", "collect", "pause", "await", "snapshot", "write", "cursor",
             "resume", "evaluate", "stop", "cancel", "join", "done"}
  /\ call \in {"none", "generate", "save", "eval"}
  /\ rollout \in Rollouts /\ leave \in {"return", "raise"} /\ held \in BOOLEAN
  /\ got \in 0..Batch /\ nextRollout \in 0..NumRollouts
  /\ saved \in 0..NumRollouts
  /\ driver \in {"run", "late", "over", "crashed"}
  /\ snapshot \subseteq Group
  /\ DOMAIN bufferFile \subseteq Rollouts /\ Range(bufferFile) \subseteq SUBSET Group
  /\ DOMAIN cursorFile \subseteq Rollouts /\ Range(cursorFile) \subseteq 0..Prompts
  /\ fate \in [1..Prompts -> Rollouts \cup {Open, Dropped}]

Prompt(groups) == {g.prompt : g \in groups}
Store(f, k, v) == [x \in DOMAIN f \cup {k} |-> IF x = k THEN v ELSE f[x]]
Without(f, K) == Restrict(f, DOMAIN f \ K)
Empty == <<>>
Alive == worker /\ wpc # "dead"
Complete == DOMAIN bufferFile \cap DOMAIN cursorFile
InFlight == {active[i].group : i \in DOMAIN active}
Publishing == IF publishing = Nothing THEN {} ELSE {publishing.group}
-----------------------------------------------------------------------------
Init ==
  /\ setup \in Setups
  /\ cursor = 0 /\ buffer = {} /\ uncommitted = Empty /\ taken = {}
  /\ worker = FALSE /\ wpc = "dead"
  /\ running = FALSE /\ failed = FALSE
  /\ pausing = FALSE /\ idle = FALSE /\ interrupt = FALSE
  /\ active = Empty /\ publishing = Nothing /\ queue = <<>> /\ nextId = 0
  /\ at = "free" /\ call = "none" /\ rollout = 0 /\ leave = "return"
  /\ held = FALSE /\ got = 0 /\ nextRollout = 0 /\ saved = 0
  /\ driver = "run" /\ snapshot = {}
  /\ bufferFile = Empty /\ cursorFile = Empty /\ fateFile = Empty
  /\ fate = [p \in 1..Prompts |-> Open]
  /\ stale = 0 /\ evals = 0 /\ crashes = 0
-----------------------------------------------------------------------------
(***************************************************************************)
(* The episode tasks.  They run only while the loop is suspended.          *)
(***************************************************************************)
Mark(i, st) == active' = [active EXCEPT ![i].st = st]

EpisodeEnds(i) ==
  /\ wpc \in Awaits
  /\ \/ active[i].st = "run" /\ Mark(i, "returned")
     \/ active[i].st \in {"run", "cancelling"} /\ Mark(i, "raised")
     \/ active[i].st = "cancelling" /\ \/ Mark(i, "returned")
                                       \/ Mark(i, "cancelled")
     \/ active[i].st = "torn" /\ Mark(i, "cancelled")
  /\ UNCHANGED <<source, worker, wpc, flags, publishing, queue, nextId,
                 actor, files, fate, bounds>>

\* task.cancel() of every task that is neither done nor being cancelled.
CancelActive ==
  active' = [i \in DOMAIN active |->
               IF active[i].st = "run" THEN [active[i] EXCEPT !.st = "cancelling"]
                                       ELSE active[i]]
AllEnded == \A i \in DOMAIN active : active[i].st \in Ended
-----------------------------------------------------------------------------
(***************************************************************************)
(* AsyncRolloutWorker._loop                                                *)
(***************************************************************************)
Step(from, to) == wpc = from /\ wpc' = to
PublishFailure == failed' = TRUE /\ running' = FALSE
OnlyLoop == UNCHANGED <<worker, actor, files, fate, bounds>>

Warmed ==
  /\ Step("warming", IF running THEN "reap" ELSE "cleanup")
  /\ UNCHANGED <<source, flags, tasks>> /\ OnlyLoop

\* A finished task is taken out of active; a raised one ends the reaping.
Reap ==
  /\ wpc = "reap"
  /\ \E i \in DOMAIN active :
       /\ active[i].st \in Ended
       /\ active' = Without(active, {i})
       /\ IF active[i].st = "returned"
          THEN /\ publishing' = [id |-> i, group |-> active[i].group, back |-> "reap"]
               /\ wpc' = "record"
               /\ UNCHANGED <<failed, running>>
          ELSE wpc' = "check" /\ PublishFailure /\ UNCHANGED publishing
  /\ UNCHANGED <<source, pausing, idle, interrupt, queue, nextId>> /\ OnlyLoop

Reaped ==
  /\ \A i \in DOMAIN active : active[i].st \notin Ended
  /\ Step("reap", "check")
  /\ UNCHANGED <<source, flags, tasks>> /\ OnlyLoop

\* _publish_result: the data source records the group, then it is queued.
Record ==
  /\ Step("record", "put")
  /\ uncommitted' = Store(uncommitted, publishing.id, publishing.group)
  /\ UNCHANGED <<cursor, buffer, taken, flags, tasks>> /\ OnlyLoop

Enqueue ==
  /\ Step("put", publishing.back)
  /\ queue' = Append(queue, [id |-> publishing.id, group |-> publishing.group])
  /\ publishing' = Nothing
  /\ UNCHANGED <<source, flags, active, nextId>> /\ OnlyLoop

\* Mutant: the loop parks without waiting for the cancelled episodes.
SeePauseHasty ==
  /\ pausing
  /\ Step("check", "park")
  /\ CancelActive
  /\ UNCHANGED <<source, flags, publishing, queue, nextId>> /\ OnlyLoop

\* if self._pause_requested.is_set(): _cancel_for_pause(active)
SeePause ==
  /\ pausing
  /\ Step("check", IF active = Empty THEN "park" ELSE "quiesce")
  /\ CancelActive
  /\ UNCHANGED <<source, flags, publishing, queue, nextId>> /\ OnlyLoop

SeeNoPause ==
  /\ ~pausing
  /\ Step("check", "clear")
  /\ UNCHANGED <<source, flags, tasks>> /\ OnlyLoop

Quiesced ==
  /\ AllEnded
  /\ Step("quiesce", "settle")
  /\ UNCHANGED <<source, flags, tasks>> /\ OnlyLoop

\* Each result of the gather: recycled, fatal, or published.
Settle ==
  /\ wpc = "settle"
  /\ \E i \in DOMAIN active :
       /\ active' = Without(active, {i})
       /\ CASE active[i].st = "cancelled" ->
                 /\ buffer' = buffer \cup {active[i].group}
                 /\ UNCHANGED <<wpc, failed, running, publishing>>
            [] active[i].st = "raised" ->
                 PublishFailure /\ UNCHANGED <<wpc, buffer, publishing>>
            [] OTHER ->
                 /\ publishing' = [id |-> i, group |-> active[i].group,
                                   back |-> "settle"]
                 /\ wpc' = "record"
                 /\ UNCHANGED <<buffer, failed, running>>
  /\ UNCHANGED <<cursor, uncommitted, taken, pausing, idle, interrupt, queue, nextId>>
  /\ OnlyLoop

Settled ==
  /\ active = Empty
  /\ Step("settle", "park")
  /\ UNCHANGED <<source, flags, tasks>> /\ OnlyLoop

Park ==
  /\ Step("park", "sleep")
  /\ idle' = TRUE
  /\ UNCHANGED <<source, running, failed, pausing, interrupt, tasks>> /\ OnlyLoop

Unpark ==
  /\ Step("clear", "fill")
  /\ idle' = FALSE
  /\ UNCHANGED <<source, running, failed, pausing, interrupt, tasks>> /\ OnlyLoop

\* get_samples(1): the buffer first, then the dataset.
NextGroup(g) ==
  \/ /\ g \in buffer /\ buffer' = buffer \ {g}
     /\ UNCHANGED cursor
  \/ /\ buffer = {} /\ cursor < Prompts
     /\ g = [prompt |-> cursor + 1, tries |-> 0]
     /\ cursor' = cursor + 1
     /\ UNCHANGED buffer

\* Mutant: the room check forgets the episodes in flight.
MayFetchBlind ==
  /\ running
  /\ Cardinality(DOMAIN active) < MaxActive
  /\ Len(queue) < QueueMax

MayFetch ==
  /\ running
  /\ Cardinality(DOMAIN active) < MaxActive
  /\ Len(queue) + Cardinality(DOMAIN active) < QueueMax

Fetch ==
  /\ wpc = "fill" /\ MayFetch
  /\ \E g \in Group :
       /\ NextGroup(g)
       /\ active' = Store(active, nextId, [group |-> g, st |-> "run"])
  /\ nextId' = nextId + 1
  /\ UNCHANGED <<uncommitted, taken, wpc, flags, publishing, queue>> /\ OnlyLoop

\* except BaseException: a failure is published only while running.
LoopRaises ==
  /\ wpc = "warming" \/ (wpc = "fill" /\ MayFetch)
  /\ wpc' = "cleanup"
  /\ IF running THEN PublishFailure ELSE UNCHANGED <<failed, running>>
  /\ CancelActive
  /\ UNCHANGED <<source, pausing, idle, interrupt, publishing, queue, nextId>>
  /\ OnlyLoop

Filled ==
  /\ ~(MayFetch /\ \E g \in Group : g \in buffer \/ cursor < Prompts)
  /\ Step("fill", "sleep")
  /\ UNCHANGED <<source, flags, tasks>> /\ OnlyLoop

Wake ==
  /\ running
  /\ Step("sleep", "reap")
  /\ UNCHANGED <<source, flags, tasks>> /\ OnlyLoop

LoopEnds ==
  /\ ~running
  /\ Step("sleep", "cleanup")
  /\ CancelActive
  /\ UNCHANGED <<source, flags, publishing, queue, nextId>> /\ OnlyLoop

\* Mutant: the gather of _cancel_for_pause is not shielded.
InterruptedUnshielded ==
  /\ interrupt /\ interrupt' = FALSE
  /\ wpc \in Awaits /\ wpc' = "cleanup"
  /\ active' = [i \in DOMAIN active |->
       CASE active[i].st = "run" -> [active[i] EXCEPT !.st = "cancelling"]
         [] active[i].st = "cancelling" -> [active[i] EXCEPT !.st = "torn"]
         [] OTHER -> active[i]]
  /\ UNCHANGED <<source, running, failed, pausing, idle, publishing, queue, nextId>>
  /\ OnlyLoop

\* The cancellation of stop() arrives: at the loop's await, or at the gather
\* of its finally block, which passes it on to the tasks once more.
Interrupted ==
  /\ interrupt /\ interrupt' = FALSE
  /\ wpc \in Awaits /\ wpc' = "cleanup"
  /\ active' = [i \in DOMAIN active |->
       CASE active[i].st = "run" -> [active[i] EXCEPT !.st = "cancelling"]
         [] active[i].st = "cancelling" /\ wpc = "cleanup" ->
              [active[i] EXCEPT !.st = "torn"]
         [] OTHER -> active[i]]
  /\ UNCHANGED <<source, running, failed, pausing, idle, publishing, queue, nextId>>
  /\ OnlyLoop

\* The finally block: the tasks have ended and the warm pool is closed.
LoopDone ==
  /\ AllEnded
  /\ Step("cleanup", "dead")
  /\ active' = Empty /\ interrupt' = FALSE
  /\ UNCHANGED <<source, running, failed, pausing, idle, publishing, queue, nextId>>
  /\ OnlyLoop

LoopStep ==
  \/ Warmed \/ Reap \/ Reaped \/ Record \/ Enqueue \/ SeePause \/ SeeNoPause
  \/ Quiesced \/ Settle \/ Settled \/ Park \/ Unpark \/ Fetch \/ Filled
  \/ Wake \/ LoopEnds \/ LoopDone

\* Unless threads are preempted at length, stop() sends its cancellation before
\* the loop moves on, and the loop sees it at the await it is suspended in.
Undisturbed ==
  "preemption" \in Risks \/ (at # "cancel" /\ ~(interrupt /\ wpc \in Awaits))
-----------------------------------------------------------------------------
(***************************************************************************)
(* The calls of the driver, served one at a time by the actor thread.      *)
(***************************************************************************)
Goto(from, to) == at = from /\ at' = to
OnlyActor == UNCHANGED <<files, fate, bounds>>
Raise == at' = "stop" /\ leave' = "raise"

\* A call has its local variables until it ends.
EndCall ==
  /\ call' = "none" /\ rollout' = 0 /\ leave' = "return"
  /\ held' = FALSE /\ got' = 0 /\ snapshot' = {}

\* A worker object as __init__ leaves it: ids start at 0.
FreshWorker ==
  /\ failed' = FALSE /\ pausing' = FALSE /\ idle' = FALSE /\ interrupt' = FALSE
  /\ active' = Empty /\ publishing' = Nothing /\ queue' = <<>> /\ nextId' = 0
NewWorker == worker' = TRUE /\ wpc' = "warming" /\ running' = TRUE /\ FreshWorker
NoWorker == worker' = FALSE /\ wpc' = "dead" /\ running' = FALSE /\ FreshWorker

GetGlobalWorker(then) ==
  IF worker /\ failed THEN Raise /\ UNCHANGED sampler
  ELSE /\ at' = then /\ leave' = "return"
       /\ IF Alive THEN UNCHANGED sampler ELSE NewWorker

\* The checks ahead of it: the weight-version preflight, load_records.
CallRefused == Raise /\ UNCHANGED sampler

\* generate_rollout_fully_async, up to its collector loop.
Generate ==
  /\ at = "free" /\ driver = "run" /\ nextRollout < NumRollouts
  /\ call' = "generate" /\ rollout' = nextRollout /\ got' = 0
  /\ GetGlobalWorker("collect") \/ CallRefused
  /\ UNCHANGED <<source, held, nextRollout, saved, driver, snapshot>> /\ OnlyActor

\* Mutant: the error is handed back with the worker still sampling.
CollectFailsOpen ==
  /\ at = "collect" /\ at' = "free" /\ EndCall /\ driver' = "late"
  /\ UNCHANGED <<source, sampler, nextRollout, saved>> /\ OnlyActor

\* raise_if_failed, the no-progress watchdog, the weight-version deadline.
CollectFails ==
  /\ at = "collect" /\ Raise
  /\ UNCHANGED <<source, sampler, inCall>> /\ OnlyActor

WorkerFailureSeen == failed /\ CollectFails

Popped == Head(queue)
Pop == at = "collect" /\ ~failed /\ queue # <<>> /\ queue' = Tail(queue)
OnlyCollect == UNCHANGED <<cursor, worker, wpc, flags, active, publishing, nextId,
                           call, rollout, held, nextRollout, saved, driver,
                           snapshot, files, evals, crashes>>

\* Mutant: the completed group stays on record.
RetryCompletedKeeps(group) ==
  /\ buffer' = buffer \cup {group}
  /\ UNCHANGED <<uncommitted, taken>>

\* retry_completed: back to the buffer, out of the uncommitted groups.
RetryCompleted(group) ==
  /\ uncommitted' = Without(uncommitted, {Popped.id})
  /\ buffer' = buffer \cup {group}
  /\ UNCHANGED taken

DiscardCompleted ==
  /\ uncommitted' = Without(uncommitted, {Popped.id})
  /\ fate' = [fate EXCEPT ![Popped.group.prompt] = Dropped]
  /\ UNCHANGED <<buffer, taken>>

MayDrop == Cardinality({p \in 1..Prompts : fate[p] = Dropped}) < MaxDrops

\* Mutant: the retry budget is not looked at.
RetryFailedAlways ==
  /\ Pop
  /\ RetryCompleted([Popped.group EXCEPT !.tries = @ + 1])
  /\ UNCHANGED <<at, leave, got, fate, stale>> /\ OnlyCollect

RetryFailed ==
  /\ Pop /\ Popped.group.tries < MaxRetries
  /\ RetryCompleted([Popped.group EXCEPT !.tries = @ + 1])
  /\ UNCHANGED <<at, leave, got, fate, stale>> /\ OnlyCollect

\* The dynamic filter, or the retry budget of an infrastructure failure.
Discard ==
  /\ Pop /\ MayDrop
  /\ DiscardCompleted
  /\ UNCHANGED <<at, leave, got, stale>> /\ OnlyCollect

\* A stale group goes back without using up a retry.
SendBackStale ==
  /\ Pop /\ stale < MaxStale /\ stale' = stale + 1
  /\ RetryCompleted(Popped.group)
  /\ UNCHANGED <<at, leave, got, fate>> /\ OnlyCollect

\* Mutant: the worker goes on after the last batch.
AfterBatchNoStop == "done"

\* The last rollout pauses the worker to stop it.
AfterBatch == IF rollout + 1 >= NumRollouts THEN "pause" ELSE "done"

\* record_accepted
Accept ==
  /\ Pop
  /\ IF Popped.id \in DOMAIN uncommitted
     THEN /\ taken' = taken \cup {<<rollout, Popped.id>>}
          /\ fate' = [fate EXCEPT ![Popped.group.prompt] = rollout]
          /\ got' = got + 1 /\ leave' = "return"
          /\ at' = IF got' < Batch THEN "collect"
                   ELSE AfterBatch
     ELSE Raise /\ UNCHANGED <<taken, fate, got>>
  /\ UNCHANGED <<buffer, uncommitted, stale>> /\ OnlyCollect

\* The call returns to the driver.
Done ==
  /\ Goto("done", "free")
  /\ nextRollout' = IF call = "generate" THEN rollout + 1 ELSE nextRollout
  /\ saved' = IF call = "save" THEN rollout + 1 ELSE saved
  /\ EndCall
  /\ UNCHANGED <<source, sampler, driver>> /\ OnlyActor

\* worker.pause(): request it, then wait for the loop to be idle.
RequestPause ==
  /\ Goto("pause", "await")
  /\ pausing' = TRUE
  /\ UNCHANGED <<source, worker, wpc, running, failed, idle, interrupt, tasks,
                 leave, inCall>> /\ OnlyActor

AfterPause == CASE call = "generate" -> "stop"
                [] call = "save" -> "snapshot"
                [] call = "eval" -> "evaluate"

Paused ==
  /\ at = "await" /\ idle
  /\ IF failed THEN Raise ELSE at' = AfterPause /\ UNCHANGED leave
  /\ UNCHANGED <<source, sampler, inCall>> /\ OnlyActor

PauseTimesOut ==
  /\ at = "await" /\ ~idle /\ Raise
  /\ UNCHANGED <<source, sampler, inCall>> /\ OnlyActor

\* Mutant: resume() leaves the pause requested.
ResumeFlagsHalf == idle' = FALSE /\ UNCHANGED pausing

\* worker.resume()
ResumeFlags == idle' = FALSE /\ pausing' = FALSE
MayResume == "preemption" \in Risks \/ wpc # "park"

Resume ==
  /\ MayResume /\ Goto("resume", "done")
  /\ ResumeFlags
  /\ UNCHANGED <<source, worker, wpc, running, failed, interrupt, tasks, leave,
                 inCall>> /\ OnlyActor
-----------------------------------------------------------------------------
(***************************************************************************)
(* PersistentRolloutDataSource.save and .load                              *)
(***************************************************************************)
\* save(r), after generate(r) and no later than the call after generate(r+1).
Save(r) ==
  /\ at = "free" /\ saved <= r /\ r < nextRollout
  /\ r + 2 >= nextRollout
  /\ driver = "run" \/ (driver = "late" /\ "late save" \in Risks)
  /\ call' = "save" /\ rollout' = r
  /\ IF worker /\ failed THEN Raise /\ UNCHANGED held
     ELSE /\ held' = Alive /\ leave' = "return"
          /\ at' = IF Alive THEN "pause" ELSE "snapshot"
  /\ UNCHANGED <<source, sampler, got, nextRollout, saved, driver, snapshot>>
  /\ OnlyActor

\* Mutant: the rollout being saved does not count as trained.
CommittedBefore(r) == {t[2] : t \in {u \in taken : u[1] < r}}

\* The groups accepted up to rollout r are the trained ones.
Committed(r) == {t[2] : t \in {u \in taken : u[1] <= r}}
\* Mutant: only the input buffer is written.
ReadAheadBuffer(left) == buffer

\* checkpoint_buffer
ReadAhead(left) == buffer \cup Range(left)
Snapshot ==
  /\ Goto("snapshot", "write")
  /\ uncommitted' = Without(uncommitted, Committed(rollout))
  /\ taken' = {t \in taken : t[1] > rollout}
  /\ snapshot' = ReadAhead(uncommitted')
  /\ UNCHANGED <<cursor, buffer, sampler, call, rollout, leave, held, got,
                 nextRollout, saved, driver>> /\ OnlyActor

\* os.replace: the buffer file appears at once.
WriteBuffer ==
  /\ Goto("write", "cursor")
  /\ bufferFile' = Store(bufferFile, rollout, snapshot)
  /\ fateFile' = Store(fateFile, rollout,
       [p \in 1..Prompts |-> IF fate[p] \in Rollouts /\ fate[p] > rollout
                             THEN Open ELSE fate[p]])
  /\ UNCHANGED <<source, sampler, leave, inCall, cursorFile, fate, bounds>>

\* super().save: the cursor as it is now.
SaveCursor ==
  /\ Goto("cursor", IF held THEN "resume" ELSE "done")
  /\ cursorFile' = Store(cursorFile, rollout, cursor)
  /\ UNCHANGED <<source, sampler, leave, inCall, bufferFile, fateFile, fate, bounds>>

SaveFails ==
  /\ at \in {"write", "cursor"} /\ Raise
  /\ UNCHANGED <<source, sampler, inCall>> /\ OnlyActor
-----------------------------------------------------------------------------
(***************************************************************************)
(* rl/evaluate.py: generate_rollout_eval                                   *)
(***************************************************************************)
\* The driver evaluates after saving; the last evaluation follows everything.
Eval(r) ==
  /\ at = "free" /\ driver = "run" /\ r < nextRollout /\ r + 2 >= nextRollout
  /\ \/ nextRollout < NumRollouts
     \/ saved = NumRollouts /\ r + 1 = NumRollouts
     \/ "eval after final" \in Risks /\ saved = r + 1
  /\ evals < MaxEvals /\ evals' = evals + 1
  /\ call' = "eval" /\ rollout' = r
  /\ GetGlobalWorker("pause") \/ CallRefused
  /\ UNCHANGED <<source, held, got, nextRollout, saved, driver, snapshot, files,
                 fate, stale, crashes>>

Evaluated ==
  /\ Goto("evaluate", IF rollout + 1 >= NumRollouts THEN "stop" ELSE "resume")
  /\ UNCHANGED <<source, sampler, leave, inCall>> /\ OnlyActor

EvalFails ==
  /\ at = "evaluate" /\ Raise
  /\ UNCHANGED <<source, sampler, inCall>> /\ OnlyActor
-----------------------------------------------------------------------------
(***************************************************************************)
(* AsyncRolloutWorker.stop and stop_global_worker                          *)
(***************************************************************************)
\* running is cleared; a worker that was running is to be interrupted.
Stop ==
  /\ at = "stop"
  /\ at' = IF Alive /\ running THEN "cancel" ELSE "join"
  /\ running' = FALSE
  /\ UNCHANGED <<source, worker, wpc, failed, pausing, idle, interrupt, tasks,
                 leave, inCall>> /\ OnlyActor

\* call_soon_threadsafe(main_task.cancel)
StopCancel ==
  /\ Goto("cancel", "join")
  /\ interrupt' = (wpc # "dead")
  /\ UNCHANGED <<source, worker, wpc, running, failed, pausing, idle, tasks,
                 leave, inCall>> /\ OnlyActor

\* What the driver is left with once a call has raised.
AfterRaise == IF call = "generate" THEN "late" ELSE "over"

Joined ==
  /\ at = "join" /\ wpc = "dead"
  /\ IF leave = "return"
     THEN /\ at' = "done"
          /\ UNCHANGED <<sampler, call, rollout, leave, held, got, driver, snapshot>>
     ELSE at' = "free" /\ EndCall /\ driver' = AfterRaise /\ NoWorker
  /\ UNCHANGED <<source, nextRollout, saved>> /\ OnlyActor

\* The join deadline: the worker stays set; a second stop() only joins again.
JoinTimesOut ==
  /\ at = "join" /\ wpc # "dead"
  /\ IF leave = "return"
     THEN Raise /\ UNCHANGED <<call, rollout, held, got, driver, snapshot>>
     ELSE at' = "free" /\ EndCall /\ driver' = AfterRaise
  /\ UNCHANGED <<source, sampler, nextRollout, saved>> /\ OnlyActor
-----------------------------------------------------------------------------
(***************************************************************************)
(* The process dies and is started again from a checkpoint.                *)
(***************************************************************************)
Crash ==
  /\ crashes < MaxCrashes /\ driver # "crashed" /\ crashes' = crashes + 1
  /\ driver' = "crashed"
  /\ cursor' = 0 /\ buffer' = {} /\ uncommitted' = Empty /\ taken' = {}
  /\ NoWorker /\ at' = "free" /\ EndCall
  /\ nextRollout' = 0 /\ saved' = 0
  /\ UNCHANGED <<files, fate, stale, evals>>

\* load(r): both files must be there.
Loadable(r) ==
  /\ r \in Complete
  /\ "rollback" \in Risks \/ \A k \in Complete : k <= r

Load(r) ==
  /\ driver = "crashed" /\ Loadable(r) /\ driver' = "run"
  /\ cursor' = cursorFile[r] /\ buffer' = bufferFile[r] /\ fate' = fateFile[r]
  /\ nextRollout' = r + 1 /\ saved' = r + 1
  /\ UNCHANGED <<uncommitted, taken, sampler, at, call, rollout, leave, held, got,
                 snapshot, files, bounds>>

\* No checkpoint yet (load(-1)), or --prover-reset-rollout-data-state.
LoadFresh ==
  /\ driver = "crashed" /\ driver' = "run"
  /\ \/ (Complete = {} \/ "rollback" \in Risks) /\ nextRollout' = 0 /\ saved' = 0
     \/ \E r \in Rollouts : Loadable(r) /\ nextRollout' = r + 1 /\ saved' = r + 1
  /\ cursor' = 0 /\ buffer' = {} /\ fate' = [p \in 1..Prompts |-> Open]
  /\ UNCHANGED <<uncommitted, taken, sampler, at, call, rollout, leave, held, got,
                 snapshot, files, bounds>>
-----------------------------------------------------------------------------
CallStep ==
  \/ Generate \/ CollectFails \/ RetryFailed \/ Discard \/ SendBackStale \/ Accept
  \/ Done \/ RequestPause \/ Paused \/ PauseTimesOut \/ Resume
  \/ (\E r \in Rollouts : Save(r) \/ Eval(r))
  \/ Snapshot \/ WriteBuffer \/ SaveCursor \/ SaveFails \/ Evaluated \/ EvalFails
  \/ Stop \/ StopCancel \/ Joined \/ JoinTimesOut

Next ==
  /\ \/ Undisturbed /\ (LoopStep \/ LoopRaises)
     \/ Interrupted \/ CallStep
     \/ \E i \in DOMAIN active : EpisodeEnds(i)
     \/ Crash \/ LoadFresh \/ \E r \in Rollouts : Load(r)
  /\ UNCHANGED setup

\* Threads, episodes and the timer that ends a wait for a dead worker make
\* progress; the loop suspends again and again, which is when its episodes run
\* and when resume() finds it suspended.  A batch fills up in the end: drops,
\* retries and stale groups are bounded, so a group that can be accepted is.  The
\* driver's calls, failures and the deadlines of a live worker need not happen.
CallProgress ==
  \/ WorkerFailureSeen \/ Accept \/ Done \/ RequestPause \/ Paused
  \/ Snapshot \/ WriteBuffer \/ SaveCursor \/ Evaluated
  \/ Stop \/ StopCancel \/ Joined \/ (~running /\ PauseTimesOut)

Fairness ==
  /\ WF_vars(Undisturbed /\ LoopStep /\ UNCHANGED setup)
  /\ WF_vars(Interrupted /\ UNCHANGED setup)
  /\ SF_vars((\E i \in DOMAIN active : EpisodeEnds(i)) /\ UNCHANGED setup)
  /\ WF_vars(CallProgress /\ UNCHANGED setup) /\ SF_vars(Resume /\ UNCHANGED setup)

Spec == Init /\ [][Next]_vars
FairSpec == Spec /\ Fairness
-----------------------------------------------------------------------------
(***************************************************************************)
(* Safety                                                                  *)
(***************************************************************************)
\* put_nowait never finds the queue full: every episode in flight has a place
\* waiting for it (the room check of _loop, against every pop and retry).
QueueWithinBound ==
  Len(queue) + Cardinality(DOMAIN active)
    + (IF publishing = Nothing THEN 0 ELSE 1) <= QueueMax

\* A prompt is held in one place only (buffer, episode, result on its way, or
\* completed group), and once settled it is never sampled again.
Holders(p) ==
  {<<"buffer", g.tries>> : g \in {h \in buffer : h.prompt = p}}
  \cup {<<"active", i>> : i \in {j \in DOMAIN active : active[j].group.prompt = p}}
  \cup {<<"done", i>> : i \in {j \in DOMAIN uncommitted : uncommitted[j].prompt = p}}
  \cup {<<"hand", 0>> : g \in {h \in Publishing : wpc = "record" /\ h.prompt = p}}
HeldOnce ==
  \A p \in 1..Prompts :
    /\ Cardinality(Holders(p)) <= 1
    /\ fate[p] # Open => p \notin Prompt(buffer \cup InFlight \cup Publishing)

\* No thread stands still for a whole iteration of the worker's loop.
Unpreempted == "preemption" \notin Risks

\* While a save or an evaluation counts on the pause, no episode runs and no
\* result is on its way, unless threads are preempted at length.
QuietWhilePaused ==
  Unpreempted /\ at \in {"snapshot", "write", "cursor", "evaluate"} =>
    active = Empty /\ publishing = Nothing

\* A restart from a complete checkpoint skips no prompt that was fetched and is
\* neither trained by then nor given up.
Unsettled(r) == {p \in 1..cursorFile[r] : fateFile[r][p] = Open}
CheckpointComplete == \A r \in Complete : Unsettled(r) \subseteq Prompt(bufferFile[r])

\* ... and, unless threads are preempted at length, samples none again that was.
CheckpointExact ==
  Unpreempted => \A r \in Complete : Prompt(bufferFile[r]) = Unsettled(r)

\* Once the last batch is complete no more episodes are started, and once a call
\* has raised none are.
SamplingEndsWithLastRollout ==
  nextRollout = NumRollouts /\ call \in {"none", "save"} => ~running

FailureStopsSampling == driver \in {"late", "over"} /\ at = "free" => ~running

NoneTorn == \A i \in DOMAIN active : active[i].st # "torn"

\* An episode that is cleaning up after its cancellation is not cancelled again,
\* with the same exception.
CleanupUninterrupted == Unpreempted => NoneTorn

(***************************************************************************)
(* Liveness                                                                *)
(***************************************************************************)
\* Every call returns or raises.
CallsReturn == call # "none" ~> call = "none"

(***************************************************************************)
(* The pipeline keeps the ledger of prompts it promises to keep.           *)
(***************************************************************************)
View(n, f) == [p \in 1..Prompts |-> IF p <= n THEN f[p] ELSE Unread]
FileView(r) == [p \in 1..Prompts |->
  IF p > cursorFile[r] THEN Unread
  ELSE IF p \in Prompt(bufferFile[r]) THEN Open ELSE fateFile[r][p]]
Ledger == INSTANCE PromptLedger WITH
  state <- View(cursor, fate), disk <- [r \in Complete |-> FileView(r)]
ImplementsLedger == Ledger!Spec
=============================================================================
