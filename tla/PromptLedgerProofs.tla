------------------------- MODULE PromptLedgerProofs -------------------------
(***************************************************************************)
(* Proofs about the prompts of the pipeline: each is in one place, what    *)
(* becomes of them is what PromptLedger promises, and a checkpoint holds   *)
(* exactly the ones that are read and not settled.                         *)
(*                                                                         *)
(* The steps are sorted by how they move groups, so that each of the three *)
(* arguments looks at a handful of movements.  The ids of a worker tell    *)
(* its groups apart (IdsInOrder); groups and files agree (Separate,        *)
(* FilesSound); and, without risks, none is lost (NothingLost, FilesWhole).*)
(***************************************************************************)
EXTENDS RolloutPipelineProofs

(***************************************************************************)
(* How groups move.  The buffer is a set B of groups, the episodes a map A *)
(* to tasks, the completed groups a map U, and H has the group between an  *)
(* episode and the data source.                                            *)
(***************************************************************************)
OnePlace(B, A, U, H) ==
  /\ \A g \in B : \A h \in B : g.prompt = h.prompt => g = h
  /\ \A i \in DOMAIN A : \A j \in DOMAIN A :
       A[i].group.prompt = A[j].group.prompt => i = j
  /\ \A i \in DOMAIN U : \A j \in DOMAIN U : U[i].prompt = U[j].prompt => i = j
  /\ \A g \in B : \A i \in DOMAIN A : g.prompt # A[i].group.prompt
  /\ \A g \in B : \A i \in DOMAIN U : g.prompt # U[i].prompt
  /\ \A i \in DOMAIN A : \A j \in DOMAIN U : A[i].group.prompt # U[j].prompt
  /\ \A h \in H : /\ \A g \in B : g.prompt # h.prompt
                  /\ \A i \in DOMAIN A : A[i].group.prompt # h.prompt
                  /\ \A i \in DOMAIN U : U[i].prompt # h.prompt

\* Fewer groups are as separate.
LEMMA FewerPlaces ==
  ASSUME NEW B, NEW A, NEW U, NEW H, NEW B2 \in SUBSET B, NEW A2, NEW U2,
         NEW H2 \in SUBSET H, OnePlace(B, A, U, H),
         DOMAIN A2 \subseteq DOMAIN A,
         \A i \in DOMAIN A2 : A2[i].group = A[i].group,
         DOMAIN U2 \subseteq DOMAIN U, \A i \in DOMAIN U2 : U2[i] = U[i]
  PROVE  OnePlace(B2, A2, U2, H2)
BY DEF OnePlace

\* A group moves from an episode to its result, into the buffer, on record, into an
\* episode, and back from the record: it is as separate there as it was.
LEMMA ToHand ==
  ASSUME NEW B, NEW A, NEW U, OnePlace(B, A, U, {}), NEW i \in DOMAIN A
  PROVE  OnePlace(B, Without(A, {i}), U, {A[i].group})
BY DEF OnePlace, Without, Restrict

LEMMA ToBuffer ==
  ASSUME NEW B, NEW A, NEW U, NEW H, OnePlace(B, A, U, H), NEW i \in DOMAIN A, H = {}
  PROVE  OnePlace(B \cup {A[i].group}, Without(A, {i}), U, H)
BY DEF OnePlace, Without, Restrict

LEMMA ToRecord ==
  ASSUME NEW B, NEW A, NEW U, NEW g, OnePlace(B, A, U, {g}), NEW i
  PROVE  OnePlace(B, A, Store(U, i, g), {})
BY DEF OnePlace, Store

LEMMA ToEpisode ==
  ASSUME NEW B, NEW A, NEW U, NEW g, NEW i, OnePlace(B, A, U, {}), NEW B2 \in SUBSET B,
         \A h \in B2 : h.prompt # g.prompt,
         \A j \in DOMAIN A : A[j].group.prompt # g.prompt,
         \A j \in DOMAIN U : U[j].prompt # g.prompt
  PROVE  OnePlace(B2, Store(A, i, [group |-> g, st |-> "run"]), U, {})
BY DEF OnePlace, Store

LEMMA SentBack ==
  ASSUME NEW B, NEW A, NEW U, NEW H, OnePlace(B, A, U, H), NEW i \in DOMAIN U,
         NEW g, g.prompt = U[i].prompt
  PROVE  OnePlace(B \cup {g}, A, Without(U, {i}), H)
BY DEF OnePlace, Without, Restrict

\* A prompt in one place has one holder.
LEMMA OneHolder ==
  ASSUME PipelineInv, NEW p \in 1..Prompts,
         OnePlace(buffer, active, uncommitted,
                  IF wpc = "record" THEN {publishing.group} ELSE {})
  PROVE  Cardinality(Holders(p)) <= 1
<1>1. \A x, y \in Holders(p) : x = y
  <2>1. wpc = "record" => Publishing = {publishing.group}
    BY DEF PipelineInv, OnItsWay, Publishing
  <2> QED  BY <2>1 DEF OnePlace, Holders
<1>2. Cardinality({}) = 0
  BY FS_EmptySet
<1>3. \A x : Cardinality({x}) = 1
  BY FS_Singleton
<1>4. Holders(p) = {} \/ \E x \in Holders(p) : Holders(p) = {x}
  BY <1>1
<1> HIDE DEF Holders
<1>5. Cardinality(Holders(p)) = 0 \/ Cardinality(Holders(p)) = 1
  BY <1>2, <1>3, <1>4
<1> QED  BY <1>5
-----------------------------------------------------------------------------
(***************************************************************************)
(* What a step does to the groups.                                         *)
(***************************************************************************)

\* Episodes are cancelled, end, or go; nothing else moves.
Fewer ==
  /\ UNCHANGED <<source, publishing, queue, nextId>> /\ publishing = Nothing
  /\ wpc' \notin {"record", "put"}
  /\ DOMAIN active' \subseteq DOMAIN active
  /\ \A i \in DOMAIN active' : active'[i].group = active[i].group
  /\ DOMAIN active' = DOMAIN active \/ failed' \/ wpc = "cleanup"

\* A finished episode's result is taken on, or its cancelled group given back.
TakenOut ==
  \E i \in DOMAIN active :
    /\ active' = Without(active, {i})
    /\ publishing'.id = i /\ publishing'.group = active[i].group
    /\ publishing = Nothing /\ wpc' = "record"
    /\ UNCHANGED <<source, queue, nextId, failed, running>>

Recycled ==
  \E i \in DOMAIN active :
    /\ active' = Without(active, {i})
    /\ buffer' = buffer \cup {active[i].group}
    /\ publishing = Nothing /\ wpc' = "settle"
    /\ UNCHANGED <<cursor, uncommitted, taken, publishing, queue, nextId, failed,
                   running>>

\* A cancellation or an end leaves the episodes their groups.
LEMMA SameGroups ==
  ASSUME PipelineInv,
         \/ SeePause \/ LoopEnds \/ LoopRaises \/ Interrupted
         \/ \E i \in DOMAIN active : EpisodeEnds(i)
  PROVE  /\ DOMAIN active' = DOMAIN active
         /\ \A i \in DOMAIN active' : active'[i].group = active[i].group
<1>. USE DEF PipelineInv
<1>1. \A i \in DOMAIN active : \A st :
        [active[i] EXCEPT !.st = st].group = active[i].group
  BY ActiveFacts DEF Task
<1>2. CASE SeePause \/ LoopEnds \/ LoopRaises
  <2>1. CancelActive
    BY <1>2 DEF SeePause, LoopEnds, LoopRaises
  <2> QED  BY <1>1, <2>1 DEF CancelActive
<1>3. CASE Interrupted
  BY <1>1, <1>3 DEF Interrupted
<1>4. CASE \E i \in DOMAIN active : EpisodeEnds(i)
  <2>1. PICK i \in DOMAIN active, st \in Ended : active' = [active EXCEPT ![i].st = st]
    BY <1>4 DEF EpisodeEnds, Mark, Ended
  <2> QED  BY <1>1, <2>1
<1> QED  BY <1>2, <1>3, <1>4

\* Every step of the worker is one of these.
LEMMA WorkerMoves ==
  ASSUME PipelineInv, WorkerStep
  PROVE  Fewer \/ TakenOut \/ Recycled \/ Record \/ Enqueue \/ Fetch
<1>. USE DEF PipelineInv, OnItsWay
<1>1. CASE SeePause \/ LoopEnds \/ LoopRaises \/ Interrupted
           \/ \E i \in DOMAIN active : EpisodeEnds(i)
  <2>1. /\ wpc \notin {"record", "put"} /\ wpc' \notin {"record", "put"}
        /\ UNCHANGED <<source, publishing, queue, nextId>>
    BY <1>1 DEF SeePause, LoopEnds, LoopRaises, Interrupted, EpisodeEnds, Step, Awaits
  <2> QED  BY <1>1, <2>1, SameGroups DEF Fewer
<1>2. CASE LoopDone
  BY <1>2, EmptyMaps DEF LoopDone, Step, Fewer
<1>3. CASE Warmed \/ Reaped \/ SeeNoPause \/ Quiesced \/ Settled \/ Park \/ Unpark
           \/ Filled \/ Wake
  BY <1>3 DEF Warmed, Reaped, SeeNoPause, Quiesced, Settled, Park, Unpark, Filled, Wake,
     Step, tasks, Fewer
<1>4. CASE Reap
  <2>1. PICK i \in DOMAIN active :
          /\ active' = Without(active, {i})
          /\ \/ /\ publishing' = [id |-> i, group |-> active[i].group, back |-> "reap"]
                /\ wpc' = "record" /\ UNCHANGED <<failed, running>>
             \/ wpc' = "check" /\ failed' = TRUE /\ publishing' = publishing
    BY <1>4 DEF Reap, PublishFailure
  <2>2. wpc = "reap" /\ publishing = Nothing /\ UNCHANGED <<source, queue, nextId>>
    BY <1>4 DEF Reap
  <2>3. /\ DOMAIN Without(active, {i}) \subseteq DOMAIN active
        /\ \A j \in DOMAIN Without(active, {i}) : Without(active, {i})[j] = active[j]
    BY DEF Without, Restrict
  <2>4. CASE wpc' = "record"
    <3>1. /\ publishing'.id = i /\ publishing'.group = active[i].group
          /\ active' = Without(active, {i}) /\ UNCHANGED <<source, failed, running>>
      BY <2>1, <2>2, <2>4 DEF source
    <3>2. TakenOut
      BY <2>2, <2>4, <3>1 DEF TakenOut
    <3> QED  BY <3>2
  <2>5. CASE wpc' = "check"
    BY <2>1, <2>2, <2>3, <2>5 DEF Fewer
  <2> QED  BY <2>1, <2>4, <2>5
<1>5. CASE Settle
  <2>1. PICK i \in DOMAIN active :
          /\ active' = Without(active, {i})
          /\ \/ /\ buffer' = buffer \cup {active[i].group}
                /\ UNCHANGED <<wpc, failed, running, publishing>>
             \/ failed' = TRUE /\ UNCHANGED <<wpc, buffer, publishing>>
             \/ /\ publishing' = [id |-> i, group |-> active[i].group, back |-> "settle"]
                /\ wpc' = "record" /\ UNCHANGED <<buffer, failed, running>>
    BY <1>5 DEF Settle, PublishFailure
  <2>2. /\ wpc = "settle" /\ publishing = Nothing
        /\ UNCHANGED <<cursor, uncommitted, taken, queue, nextId>>
    BY <1>5 DEF Settle
  <2>3. /\ DOMAIN Without(active, {i}) \subseteq DOMAIN active
        /\ \A j \in DOMAIN Without(active, {i}) : Without(active, {i})[j] = active[j]
    BY DEF Without, Restrict
  <2>4. CASE wpc' = "record"
    <3>1. /\ publishing'.id = i /\ publishing'.group = active[i].group
          /\ active' = Without(active, {i}) /\ UNCHANGED <<source, failed, running>>
      BY <2>1, <2>2, <2>4 DEF source
    <3>2. TakenOut
      BY <2>2, <2>4, <3>1 DEF TakenOut
    <3> QED  BY <3>2
  <2>5. CASE failed' = TRUE /\ UNCHANGED <<wpc, buffer, publishing>>
    BY <2>1, <2>2, <2>3, <2>5 DEF Fewer, source
  <2>6. CASE buffer' = buffer \cup {active[i].group}
               /\ UNCHANGED <<wpc, failed, running, publishing>>
    BY <2>1, <2>2, <2>6 DEF Recycled
  <2> QED  BY <2>1, <2>4, <2>5, <2>6
<1> QED  BY <1>1, <1>2, <1>3, <1>4, <1>5 DEF WorkerStep, LoopStep

\* The actor's steps that move groups, and the ones that leave them alone or
\* start and forget a worker.
StandsStill ==
  /\ UNCHANGED <<source, fate>>
  /\ UNCHANGED <<wpc, tasks>> \/ Renewed
  /\ driver' = "crashed" <=> driver = "crashed"

\* Every other step is one of a call that moves groups, a restart, or stands still.
LEMMA ActorMoves ==
  ASSUME PipelineInv, CallPlan, [Next]_vars, ~WorkerStep
  PROVE  PopStep \/ Snapshot \/ Crash \/ LoadStep \/ StandsStill
<1>1. CASE Generate \/ (\E r \in Rollouts : Eval(r))
  BY <1>1 DEF Generate, Eval, GetGlobalWorker, CallRefused, NewWorker, Renewed, sampler,
     tasks, OnlyActor, StandsStill
<1>2. CASE (\E r \in Rollouts : Save(r)) \/ CollectFails \/ PauseTimesOut \/ SaveFails
           \/ EvalFails \/ Paused \/ Evaluated \/ Done \/ WriteBuffer \/ SaveCursor
  BY <1>2 DEF Save, CollectFails, PauseTimesOut, SaveFails, EvalFails, Paused,
     Evaluated, Done, WriteBuffer, SaveCursor, sampler, tasks, inCall, OnlyActor,
     StandsStill
<1>3. CASE RequestPause \/ Resume \/ Stop \/ StopCancel
  BY <1>3 DEF RequestPause, Resume, Stop, StopCancel, tasks, inCall, OnlyActor,
     StandsStill
<1>4. CASE Joined \/ JoinTimesOut
  <2>1. driver # "crashed" /\ driver' # "crashed"
    BY <1>4 DEF Joined, JoinTimesOut, AfterRaise, CallPlan, PipelineInv, ActorTypes
  <2>2. UNCHANGED <<source, fate>> /\ (UNCHANGED sampler \/ NoWorker)
    BY <1>4 DEF Joined, JoinTimesOut, OnlyActor
  <2> QED  BY <2>1, <2>2 DEF NoWorker, Renewed, sampler, tasks, StandsStill
<1>5. CASE LoadFresh \/ \E r \in Rollouts : Load(r)
  BY <1>5 DEF LoadStep
<1>6. CASE UNCHANGED vars
  BY <1>6 DEF vars, actor, inCall, sampler, tasks, StandsStill
<1> QED  BY <1>1, <1>2, <1>3, <1>4, <1>5, <1>6 DEF Next, CallStep, WorkerStep, PopStep

\* What becomes of a group that is popped.
GoesBack ==
  \E g \in Group :
    /\ g.prompt = Popped.group.prompt /\ buffer' = buffer \cup {g}
    /\ uncommitted' = Without(uncommitted, {Popped.id})
    /\ UNCHANGED <<taken, fate>>
IsDropped ==
  /\ uncommitted' = Without(uncommitted, {Popped.id})
  /\ fate' = [fate EXCEPT ![Popped.group.prompt] = Dropped]
  /\ UNCHANGED <<buffer, taken>>
IsTaken ==
  /\ Popped.id \in DOMAIN uncommitted
  /\ taken' = taken \cup {<<rollout, Popped.id>>}
  /\ fate' = [fate EXCEPT ![Popped.group.prompt] = rollout]
  /\ UNCHANGED <<buffer, uncommitted>>
IsLost ==
  /\ Popped.id \notin DOMAIN uncommitted
  /\ at' = "stop" /\ leave' = "raise" /\ UNCHANGED <<source, fate>>
FromQueue ==
  /\ at = "collect" /\ queue # <<>> /\ queue' = Tail(queue)
  /\ UNCHANGED <<cursor, worker, wpc, flags, active, publishing, nextId, call, rollout,
                 nextRollout, saved, driver, files>>

\* A group is popped by the collector and meets one of these ends.
LEMMA PopMoves ==
  ASSUME PipelineInv, PopStep
  PROVE  /\ FromQueue /\ Popped \in Result
         /\ at' \in {"collect", "pause", "done", "stop"}
         /\ GoesBack \/ IsDropped \/ IsTaken \/ IsLost
<1>1. FromQueue
  BY DEF PopStep, RetryFailed, Discard, SendBackStale, Accept, Pop, OnlyCollect,
     FromQueue
<1>2. Popped \in Result
  BY <1>1, PoppedTypes DEF PipelineInv, FromQueue
<1>3. at' \in {"collect", "pause", "done", "stop"}
  BY <1>1 DEF PopStep, RetryFailed, Discard, SendBackStale, Accept, AfterBatch, Raise,
     FromQueue
<1>4. CASE RetryFailed
  <2>1. /\ [Popped.group EXCEPT !.tries = @ + 1] \in Group
        /\ [Popped.group EXCEPT !.tries = @ + 1].prompt = Popped.group.prompt
    BY <1>2, <1>4, SetupBounds DEF RetryFailed, Result, Group, PipelineInv
  <2> QED  BY <1>1, <1>2, <1>3, <1>4, <2>1 DEF RetryFailed, RetryCompleted, GoesBack
<1>5. CASE SendBackStale
  <2>1. Popped.group \in Group
    BY <1>2 DEF Result
  <2> QED  BY <1>1, <1>2, <1>3, <1>5, <2>1 DEF SendBackStale, RetryCompleted, GoesBack
<1>6. CASE Discard
  BY <1>1, <1>2, <1>3, <1>6 DEF Discard, DiscardCompleted, IsDropped
<1>7. CASE Accept
  BY <1>1, <1>2, <1>3, <1>7 DEF Accept, Raise, IsTaken, IsLost, OnlyCollect, source
<1> QED  BY <1>4, <1>5, <1>6, <1>7 DEF PopStep
-----------------------------------------------------------------------------
(***************************************************************************)
(* Ids.  They tell the groups of one worker apart, from the episode to the *)
(* rollout that takes the group.                                           *)
(***************************************************************************)
Sampled == driver = "run" /\ nextRollout < NumRollouts
Given(i) == \E r \in Rollouts : <<r, i>> \in taken
Queued(i) == \E k \in 1..Len(queue) : queue[k].id = i

\* A loop that ends or is interrupted has been told to stop.
StaysStopped ==
  /\ interrupt => ~running
  /\ wpc \in {"cleanup", "dead"} => ~running

\* While there are rollouts to sample, a worker is replaced only after a call
\* has raised: a fresh one finds nothing of another.
OneWorker ==
  Sampled =>
    /\ ~worker => DOMAIN uncommitted = {} /\ taken = {}
    /\ worker /\ ~running =>
         \/ failed \/ at \in Stopping
         \/ at = "done" /\ call = "generate" /\ rollout + 1 = NumRollouts

\* Nobody sets running but the start of a worker.
LEMMA StaysStoppedKept ==
  ASSUME PipelineInv, CallPlan, StaysStopped, [Next]_vars
  PROVE  StaysStopped'
<1>. USE DEF PipelineInv, StaysStopped, FlagTypes
<1>1. CASE LoopStep \/ LoopRaises
  <2>1. (running' => running) /\ (interrupt' => interrupt)
    BY <1>1, WorkerFlags DEF WorkerStep
  <2>2. wpc' = "dead" => wpc = "cleanup"
    BY <1>1, WorkerThere DEF WorkerStep
  <2>3. CASE Warmed \/ LoopEnds \/ LoopRaises
    BY <2>1, <2>2, <2>3 DEF Warmed, LoopEnds, LoopRaises, PublishFailure, Step, flags
  <2>4. CASE LoopStep /\ ~Warmed /\ ~LoopEnds
    <3>1. wpc' # "cleanup"
      BY <2>4 DEF LoopStep, Step, Reap, Reaped, Record, Enqueue, SeePause, SeeNoPause,
         Quiesced, Settle, Settled, Park, Unpark, Fetch, Filled, Wake, LoopDone,
         TaskTypes, OnItsWay
    <3> QED  BY <2>1, <2>2, <3>1
  <2> QED  BY <1>1, <2>3, <2>4
<1>2. CASE Interrupted \/ \E i \in DOMAIN active : EpisodeEnds(i)
  BY <1>2 DEF Interrupted, EpisodeEnds, flags
<1>3. UNCHANGED sampler => StaysStopped'
  BY DEF sampler, flags
<1>4. CASE Generate \/ (\E r \in Rollouts : Eval(r)) \/ Joined \/ JoinTimesOut \/ Crash
  <2>1. NewWorker \/ NoWorker \/ UNCHANGED sampler
    BY <1>4 DEF Generate, Eval, GetGlobalWorker, CallRefused, Joined, JoinTimesOut,
       Crash
  <2>2. CASE NewWorker
    BY <2>2 DEF NewWorker, FreshWorker
  <2>3. CASE NoWorker
    BY <2>3 DEF NoWorker, FreshWorker
  <2> QED  BY <1>3, <2>1, <2>2, <2>3
<1>5. CASE (\E r \in Rollouts : Save(r)) \/ CollectFails \/ PauseTimesOut \/ SaveFails
           \/ EvalFails \/ Paused \/ Evaluated \/ Done \/ WriteBuffer \/ SaveCursor
           \/ Snapshot \/ LoadFresh \/ (\E r \in Rollouts : Load(r)) \/ UNCHANGED vars
  BY <1>3, <1>5 DEF Save, CollectFails, PauseTimesOut, SaveFails, EvalFails, Paused,
     Evaluated, Done, WriteBuffer, SaveCursor, Snapshot, LoadFresh, Load, vars
<1>6. CASE PopStep
  BY <1>6, PopMoves DEF FromQueue, flags
<1>7. CASE RequestPause \/ Resume
  BY <1>7 DEF RequestPause, Resume
<1>8. CASE Stop \/ StopCancel
  BY <1>8 DEF Stop, StopCancel, Goto, Stopped
<1> QED  BY <1>1, <1>2, <1>4, <1>5, <1>6, <1>7, <1>8 DEF Next, CallStep, PopStep

\* A worker that has failed stays failed.
LEMMA FailureSticks ==
  ASSUME PipelineInv, WorkerStep
  PROVE  (failed => failed') /\ (running /\ ~running' => failed')
<1>. USE DEF PipelineInv, FlagTypes
<1>1. CASE Reap \/ Settle \/ LoopRaises
  <2>1. UNCHANGED <<failed, running>> \/ failed' = TRUE
    BY <1>1 DEF Reap, Settle, LoopRaises, PublishFailure
  <2> QED  BY <2>1
<1>2. CASE WorkerStep /\ ~Reap /\ ~Settle /\ ~LoopRaises
  BY <1>2 DEF WorkerStep, LoopStep, Warmed, Reaped, Record, Enqueue, SeePause,
     SeeNoPause, Quiesced, Settled, Park, Unpark, Fetch, Filled, Wake, LoopEnds,
     LoopDone, Interrupted, EpisodeEnds, flags
<1> QED  BY <1>1, <1>2

\* While the batch of a rollout is due only a call that raises forgets a worker.
LEMMA OneWorkerKept ==
  ASSUME PipelineInv, CallPlan, NothingLeft, LastRollout, StaysStopped, OneWorker,
         [Next]_vars
  PROVE  OneWorker'
<1>. USE DEF PipelineInv, OneWorker
<1>1. worker \in BOOLEAN /\ running \in BOOLEAN /\ failed \in BOOLEAN
  BY DEF FlagTypes
<1>2. CASE WorkerStep
  <2>1. worker /\ worker' /\ UNCHANGED <<at, call, rollout, driver, nextRollout>>
    BY <1>1, <1>2, WorkerThere, WorkerFrame DEF NothingLeft, actor, inCall
  <2> QED  BY <1>1, <1>2, <2>1, FailureSticks, WorkerFlags DEF Sampled
<1>3. ASSUME UNCHANGED <<uncommitted, taken, worker, running, failed>>, Sampled' => Sampled,
             \/ at' \in Stopping
             \/ at \notin Stopping /\ at # "done"
             \/ UNCHANGED <<at, call, rollout>>
      PROVE  OneWorker'
  BY <1>1, <1>3 DEF Stopping
<1>4. CASE Generate \/ (\E r \in Rollouts : Eval(r))
  <2>1. /\ UNCHANGED <<uncommitted, taken, driver, nextRollout>> /\ at = "free"
        /\ NewWorker \/ UNCHANGED sampler
    BY <1>4 DEF Generate, Eval, GetGlobalWorker, CallRefused, source
  <2>2. CASE NewWorker
    BY <2>2 DEF NewWorker
  <2>3. CASE UNCHANGED sampler
    BY <1>3, <2>1, <2>3 DEF sampler, flags, Sampled, Stopping
  <2> QED  BY <2>1, <2>2, <2>3
<1>5. CASE (\E r \in Rollouts : Save(r)) \/ CollectFails \/ PauseTimesOut \/ SaveFails
           \/ EvalFails \/ Paused \/ Evaluated \/ WriteBuffer \/ SaveCursor
  <2>1. UNCHANGED <<uncommitted, taken, sampler, driver, nextRollout>>
    BY <1>5 DEF Save, CollectFails, PauseTimesOut, SaveFails, EvalFails, Paused,
       Evaluated, WriteBuffer, SaveCursor, source, inCall
  <2>2. at \notin Stopping /\ at # "done"
    BY <1>5 DEF Save, CollectFails, PauseTimesOut, SaveFails, EvalFails, Paused,
       Evaluated, WriteBuffer, SaveCursor, Goto, Stopping
  <2> QED  BY <1>3, <2>1, <2>2 DEF sampler, flags, Sampled
<1>6. CASE Done
  <2>1. UNCHANGED <<uncommitted, taken, sampler, driver>> /\ at = "done" /\ at' = "free"
    BY <1>6 DEF Done, Goto, source
  <2>2. /\ Sampled' => Sampled
        /\ call = "generate" /\ rollout + 1 = NumRollouts => ~Sampled'
    BY <1>6, <2>1, SetupBounds DEF Done, Sampled, CallPlan, ActorTypes, Rollouts
  <2> QED  BY <1>1, <2>1, <2>2 DEF sampler, flags, Stopping
<1>7. CASE PopStep
  <2>1. FromQueue /\ at' \in {"collect", "pause", "done", "stop"}
        /\ (GoesBack \/ IsDropped \/ IsTaken \/ IsLost)
    BY <1>7, PopMoves
  <2>2. worker /\ UNCHANGED <<worker, running, failed, driver, nextRollout>>
        /\ at \notin Stopping /\ at # "done"
    BY <2>1 DEF FromQueue, flags, NothingLeft, Stopping
  <2> QED  BY <1>1, <2>1, <2>2 DEF Sampled
<1>8. CASE RequestPause \/ Resume \/ Stop \/ StopCancel
  <2>1. UNCHANGED <<uncommitted, taken, worker, failed, driver, nextRollout, call, rollout>>
    BY <1>8 DEF RequestPause, Resume, Stop, StopCancel, source, inCall
  <2>2. \/ running' = running /\ at \notin Stopping /\ at # "done"
        \/ at' \in Stopping
    BY <1>8 DEF RequestPause, Resume, Stop, StopCancel, Goto, Stopping
  <2> QED  BY <1>1, <2>1, <2>2 DEF Sampled
<1>9. CASE Snapshot
  <2>1. /\ UNCHANGED <<sampler, driver, nextRollout>> /\ at = "snapshot"
        /\ DOMAIN uncommitted' \subseteq DOMAIN uncommitted /\ taken' \subseteq taken
    BY <1>9 DEF Snapshot, Goto, Without, Restrict
  <2> QED  BY <1>1, <2>1 DEF sampler, flags, Sampled, Stopping
<1>10. CASE Joined \/ JoinTimesOut
  <2>1. UNCHANGED <<source, nextRollout>> /\ at = "join"
    BY <1>10 DEF Joined, JoinTimesOut
  <2>2. CASE leave = "return"
    <3>1. UNCHANGED <<sampler, call, rollout, driver>>
          /\ (at' = "done" \/ at' = "stop")
      BY <1>10, <2>2 DEF Joined, JoinTimesOut, Raise
    <3>2. Sampled => call = "generate" /\ rollout + 1 = NumRollouts
      <4>1. call \in {"generate", "eval"} /\ rollout + 1 = NumRollouts
        BY <2>1, <2>2 DEF CallPlan, Stopping
      <4>2. call = "eval" => rollout < nextRollout
        BY DEF CallPlan
      <4> QED  BY <4>1, <4>2, SetupBounds DEF Sampled, ActorTypes, Rollouts
    <3> QED  BY <1>1, <2>1, <3>1, <3>2 DEF sampler, flags, source, Sampled, Stopping
  <2>3. CASE leave # "return"
    BY <1>10, <2>3 DEF Joined, JoinTimesOut, AfterRaise, Sampled
  <2> QED  BY <2>2, <2>3
<1>11. CASE Crash
  BY <1>11 DEF Crash, Sampled
<1>12. CASE LoadFresh \/ \E r \in Rollouts : Load(r)
  <2>1. ~worker /\ worker' = worker /\ DOMAIN uncommitted = {} /\ taken = {}
        /\ UNCHANGED <<uncommitted, taken>>
    BY <1>12, EmptyMaps DEF LoadFresh, Load, NothingLeft, sampler
  <2> QED  BY <2>1
<1>13. CASE UNCHANGED vars
  BY <1>3, <1>13 DEF vars, source, sampler, flags, actor, inCall, Sampled
<1> QED  BY <1>2, <1>4, <1>5, <1>6, <1>7, <1>8, <1>9, <1>10, <1>11, <1>12, <1>13
            DEF Next, CallStep, WorkerStep, PopStep

\* A call that finds no usable worker while there are rollouts to sample finds
\* nothing left of an earlier one.
LEMMA FreshStart ==
  ASSUME PipelineInv, CallPlan, NothingLeft, StaysStopped, OneWorker, Sampled,
         Generate \/ \E r \in Rollouts : Eval(r)
  PROVE  \/ UNCHANGED sampler
         \/ /\ NewWorker /\ ~failed /\ DOMAIN active = {} /\ publishing = Nothing
            /\ DOMAIN uncommitted = {} /\ taken = {}
<1>. USE DEF PipelineInv, FlagTypes
<1>1. at = "free"
  BY DEF Generate, Eval
<1>2. UNCHANGED sampler \/ (NewWorker /\ ~(worker /\ failed) /\ ~Alive)
  BY DEF Generate, Eval, GetGlobalWorker, CallRefused
<1>3. ASSUME NewWorker, ~(worker /\ failed), ~Alive
      PROVE  /\ ~failed /\ DOMAIN active = {} /\ publishing = Nothing
             /\ DOMAIN uncommitted = {} /\ taken = {}
  <2>1. wpc = "dead" /\ ~running
    BY <1>3 DEF Alive, NothingLeft, StaysStopped
  <2>2. ~worker
    BY <1>1, <1>3, <2>1 DEF OneWorker, Stopping
  <2> QED  BY <2>1, <2>2, EmptyMaps DEF NothingLeft, OneWorker
<1> QED  BY <1>2, <1>3

\* What the ids of episodes, completed groups, the result on its way and the queued
\* results say of each other.
EpisodeIds ==
  \A i \in DOMAIN active :
    i < nextId /\ i \notin DOMAIN uncommitted /\ ~Given(i) /\ ~Queued(i)
GroupIds ==
  /\ \A i \in DOMAIN uncommitted : i < nextId
  /\ \A i \in Ids : Given(i) => i < nextId
ResultId ==
  /\ publishing # Nothing =>
       /\ publishing.id < nextId /\ publishing.id \notin DOMAIN active
       /\ ~Given(publishing.id) /\ ~Queued(publishing.id)
  /\ wpc = "record" => publishing.id \notin DOMAIN uncommitted
  /\ wpc = "put" => /\ publishing.id \in DOMAIN uncommitted
                    /\ uncommitted[publishing.id] = publishing.group
QueueIds ==
  /\ \A k \in 1..Len(queue) :
       /\ queue[k].id \in DOMAIN uncommitted /\ ~Given(queue[k].id)
       /\ uncommitted[queue[k].id] = queue[k].group
  /\ \A k, l \in 1..Len(queue) : queue[k].id = queue[l].id => k = l
IdsInOrder == Sampled => EpisodeIds /\ GroupIds /\ ResultId /\ QueueIds

\* An id names one group of the worker: in an episode, on its way, or completed.
LEMMA IdsByWorker ==
  ASSUME PipelineInv, EpisodeIds, GroupIds, ResultId, QueueIds, WorkerStep
  PROVE  EpisodeIds' /\ GroupIds' /\ ResultId' /\ QueueIds'
<1>. USE DEF PipelineInv
<1>1. nextId \in Nat /\ \A i \in DOMAIN active : i \in Nat
  BY DEF TaskTypes, Maps, Ids
<1>2. CASE Fewer
  BY <1>2 DEF Fewer, source, EpisodeIds, GroupIds, ResultId, QueueIds, Given, Queued
<1>3. CASE TakenOut
  <2>1. PICK i \in DOMAIN active :
          /\ DOMAIN active' = DOMAIN active \ {i} /\ publishing'.id = i /\ wpc' = "record"
          /\ UNCHANGED <<uncommitted, taken, queue, nextId>>
    BY <1>3 DEF TakenOut, Without, Restrict, source
  <2>2. EpisodeIds' /\ GroupIds' /\ QueueIds'
    BY <2>1 DEF EpisodeIds, GroupIds, QueueIds, Given, Queued
  <2>3. ResultId'
    BY <2>1 DEF EpisodeIds, ResultId, Given, Queued
  <2> QED  BY <2>2, <2>3
<1>4. CASE Recycled
  <2>1. PICK i \in DOMAIN active :
          /\ DOMAIN active' = DOMAIN active \ {i} /\ wpc' = "settle" /\ publishing' = Nothing
          /\ UNCHANGED <<uncommitted, taken, queue, nextId>>
    BY <1>4 DEF Recycled, Without, Restrict
  <2> QED  BY <2>1 DEF EpisodeIds, GroupIds, ResultId, QueueIds, Given, Queued
<1>5. CASE Record
  <2>1. /\ wpc = "record" /\ wpc' = "put" /\ publishing # Nothing
        /\ uncommitted' = Store(uncommitted, publishing.id, publishing.group)
        /\ UNCHANGED <<taken, active, publishing, queue, nextId>>
    BY <1>5 DEF Record, Step, tasks, OnItsWay
  <2>2. /\ DOMAIN uncommitted' = DOMAIN uncommitted \cup {publishing.id}
        /\ uncommitted'[publishing.id] = publishing.group
        /\ \A i \in DOMAIN uncommitted :
             i # publishing.id => uncommitted'[i] = uncommitted[i]
    BY <2>1 DEF Store
  <2>3. EpisodeIds'
    BY <2>1, <2>2 DEF EpisodeIds, ResultId, Given, Queued
  <2>4. GroupIds' /\ ResultId'
    BY <2>1, <2>2 DEF GroupIds, ResultId, Given, Queued
  <2>5. QueueIds'
    BY <2>1, <2>2 DEF QueueIds, ResultId, Given
  <2> QED  BY <2>3, <2>4, <2>5
<1>6. CASE Enqueue
  <2> DEFINE e == [id |-> publishing.id, group |-> publishing.group]
  <2>1. /\ wpc = "put" /\ wpc' \notin {"record", "put"} /\ publishing # Nothing
        /\ queue' = Append(queue, e) /\ publishing' = Nothing
        /\ UNCHANGED <<uncommitted, taken, active, nextId>>
    BY <1>6 DEF Enqueue, Step, source, OnItsWay, TaskTypes
  <2>2. /\ Len(queue') = Len(queue) + 1 /\ Len(queue) \in Nat
        /\ \A k \in 1..Len(queue) : queue'[k] = queue[k]
        /\ queue'[Len(queue) + 1] = e
    BY <2>1 DEF TaskTypes
  <2>3. e.id = publishing.id /\ e.group = publishing.group
    OBVIOUS
  <2> HIDE DEF e
  <2>4. \A i : Queued(i)' <=> Queued(i) \/ i = publishing.id
    BY <2>2, <2>3 DEF Queued
  <2>5. EpisodeIds' /\ GroupIds' /\ ResultId'
    BY <2>1, <2>4 DEF EpisodeIds, GroupIds, ResultId, Given
  <2>6. QueueIds'
    BY <2>1, <2>2, <2>3 DEF QueueIds, ResultId, Given, Queued
  <2> QED  BY <2>5, <2>6
<1>7. CASE Fetch
  <2>1. PICK g \in Group : active' = Store(active, nextId, [group |-> g, st |-> "run"])
    BY <1>7 DEF Fetch
  <2>2. /\ UNCHANGED <<uncommitted, taken, wpc, publishing, queue>>
        /\ nextId' = nextId + 1 /\ publishing = Nothing /\ wpc = "fill"
    BY <1>7 DEF Fetch, OnItsWay
  <2>3. DOMAIN active' = DOMAIN active \cup {nextId}
    BY <2>1 DEF Store
  <2>4. \A i \in DOMAIN uncommitted : i \in Nat
    BY DEF SourceTypes, Maps, Ids
  <2>5. nextId \notin DOMAIN uncommitted /\ ~Given(nextId)
    BY <1>1, <2>4 DEF GroupIds, Ids
  <2>6. ~Queued(nextId)
    BY <2>5 DEF QueueIds, Queued
  <2>7. EpisodeIds'
    BY <1>1, <2>2, <2>3, <2>5, <2>6 DEF EpisodeIds, Given, Queued
  <2>8. GroupIds'
    BY <1>1, <2>2, <2>4 DEF GroupIds, Given, Ids
  <2>9. ResultId' /\ QueueIds'
    BY <2>2 DEF ResultId, QueueIds, Given, Queued
  <2> QED  BY <2>7, <2>8, <2>9
<1> QED  BY <1>2, <1>3, <1>4, <1>5, <1>6, <1>7, WorkerMoves

\* The group that is popped is the completed one its id names.
LEMMA PoppedIds ==
  ASSUME PipelineInv, QueueIds, queue # <<>>
  PROVE  /\ Popped.id \in DOMAIN uncommitted /\ ~Given(Popped.id) /\ Queued(Popped.id)
         /\ uncommitted[Popped.id] = Popped.group
         /\ Len(Tail(queue)) = Len(queue) - 1 /\ Len(queue) \in Nat \ {0}
         /\ \A k \in 1..Len(Tail(queue)) :
              Tail(queue)[k] = queue[k + 1] /\ queue[k + 1].id # Popped.id
<1>1. queue \in Seq(Result)
  BY DEF PipelineInv, TaskTypes
<1>2. /\ Len(queue) \in Nat \ {0} /\ Popped = queue[1]
      /\ Len(Tail(queue)) = Len(queue) - 1
      /\ \A k \in 1..Len(Tail(queue)) : Tail(queue)[k] = queue[k + 1]
  BY <1>1 DEF Popped
<1> QED  BY <1>2 DEF QueueIds, Queued

\* A popped group is on record once more, gone, or taken.
LEMMA IdsByPop ==
  ASSUME PipelineInv, EpisodeIds, GroupIds, ResultId, QueueIds, PopStep
  PROVE  EpisodeIds' /\ GroupIds' /\ ResultId' /\ QueueIds'
<1>1. /\ FromQueue /\ Popped \in Result
      /\ GoesBack \/ IsDropped \/ IsTaken \/ IsLost
  BY PopMoves
<1>2. /\ UNCHANGED <<wpc, active, publishing, nextId>> /\ queue # <<>>
      /\ queue' = Tail(queue)
  BY <1>1 DEF FromQueue
<1>3. Popped.id \in DOMAIN uncommitted /\ Queued(Popped.id)
  BY <1>2, PoppedIds
<1>4. \A i : Queued(i)' => Queued(i)
  <2>1. \A k \in 1..Len(queue') : k + 1 \in 1..Len(queue) /\ queue'[k] = queue[k + 1]
    BY <1>2, PoppedIds
  <2> QED  BY <2>1 DEF Queued
<1>5. \A k \in 1..Len(queue') :
        k + 1 \in 1..Len(queue) /\ queue'[k] = queue[k + 1] /\ queue'[k].id # Popped.id
  BY <1>2, PoppedIds
<1>6. \A i \in Ids : Given(i)' => Given(i) \/ i = Popped.id
  BY <1>1 DEF GoesBack, IsDropped, IsTaken, IsLost, source, Given
<1>7. /\ DOMAIN uncommitted' \subseteq DOMAIN uncommitted
      /\ \A i \in DOMAIN uncommitted \ {Popped.id} :
           i \in DOMAIN uncommitted' /\ uncommitted'[i] = uncommitted[i]
  BY <1>1 DEF GoesBack, IsDropped, IsTaken, IsLost, source, Without, Restrict
<1>8. /\ \A i \in DOMAIN active \cup DOMAIN uncommitted : i \in Ids
      /\ publishing # Nothing => publishing.id \in Ids
  BY DEF PipelineInv, TaskTypes, SourceTypes, Maps
<1>9. EpisodeIds'
  BY <1>2, <1>3, <1>4, <1>6, <1>7, <1>8 DEF EpisodeIds
<1>10. GroupIds'
  BY <1>2, <1>3, <1>6, <1>7 DEF GroupIds
<1>11. ResultId'
  <2>1. wpc \in {"record", "put"} => publishing # Nothing
    BY DEF PipelineInv, OnItsWay
  <2> QED  BY <1>2, <1>3, <1>4, <1>6, <1>7, <1>8, <2>1 DEF ResultId
<1>12. QueueIds'
  <2>1. \A k, l \in 1..Len(queue') : queue'[k].id = queue'[l].id => k = l
    BY <1>5 DEF QueueIds
  <2>2. ASSUME NEW k \in 1..Len(queue')
        PROVE  /\ queue'[k].id \in DOMAIN uncommitted'
               /\ \A r \in Rollouts : <<r, queue'[k].id>> \notin taken'
               /\ uncommitted'[queue'[k].id] = queue'[k].group
    <3>1. /\ queue'[k].id \in DOMAIN uncommitted \ {Popped.id} /\ ~Given(queue'[k].id)
          /\ uncommitted[queue'[k].id] = queue'[k].group
      BY <1>5 DEF QueueIds
    <3> QED  BY <1>6, <1>7, <1>8, <3>1 DEF Given
  <2> QED  BY <2>1, <2>2 DEF QueueIds, Given
<1> QED  BY <1>9, <1>10, <1>11, <1>12

\* No other step gives ids away, except that a fresh worker starts with none.
LEMMA IdsByActor ==
  ASSUME PipelineInv, CallPlan, NothingLeft, StaysStopped, OneWorker, [Next]_vars,
         StandsStill, ~WorkerStep, ~PopStep, ~Snapshot, ~LoadStep, ~Crash, Sampled'
  PROVE  /\ Sampled
         /\ \/ UNCHANGED <<wpc, tasks>>
            \/ /\ Renewed /\ ~failed /\ DOMAIN active = {} /\ publishing = Nothing
               /\ DOMAIN uncommitted = {} /\ taken = {}
<1>. USE DEF PipelineInv, ActorTypes
<1>1. CASE Generate \/ (\E r \in Rollouts : Eval(r))
  <2>1. Sampled
    BY <1>1 DEF Generate, Eval, Sampled
  <2> QED  BY <1>1, <2>1, FreshStart DEF NewWorker, Renewed, sampler, tasks
<1>2. CASE (\E r \in Rollouts : Save(r)) \/ CollectFails \/ PauseTimesOut \/ SaveFails
           \/ EvalFails \/ Paused \/ Evaluated \/ WriteBuffer \/ SaveCursor
  <2>1. UNCHANGED <<sampler, driver, nextRollout>>
    BY <1>2 DEF Save, CollectFails, PauseTimesOut, SaveFails, EvalFails, Paused,
       Evaluated, WriteBuffer, SaveCursor, inCall
  <2> QED  BY <2>1 DEF sampler, tasks, Sampled
<1>3. CASE RequestPause \/ Resume \/ Stop \/ StopCancel
  BY <1>3 DEF RequestPause, Resume, Stop, StopCancel, inCall, tasks, Sampled
<1>4. CASE Done
  BY <1>4, SetupBounds DEF Done, CallPlan, Rollouts, sampler, tasks, Sampled
<1>5. CASE Joined \/ JoinTimesOut
  BY <1>5 DEF Joined, JoinTimesOut, Raise, AfterRaise, sampler, tasks, Sampled
<1>6. CASE UNCHANGED vars
  BY <1>6 DEF vars, actor, inCall, sampler, tasks, Sampled
<1> QED  BY <1>1, <1>2, <1>3, <1>4, <1>5, <1>6 DEF Next, CallStep, WorkerStep, PopStep,
            LoadStep

\* Ids stay in order across calls, failures and restarts.
LEMMA IdsInOrderKept ==
  ASSUME PipelineInv, CallPlan, NothingLeft, StaysStopped, OneWorker, IdsInOrder,
         [Next]_vars
  PROVE  IdsInOrder'
<1>. USE DEF PipelineInv
<1> SUFFICES ASSUME Sampled'
             PROVE  EpisodeIds' /\ GroupIds' /\ ResultId' /\ QueueIds'
  BY DEF IdsInOrder
<1>1. CASE WorkerStep
  <2>1. Sampled
    BY <1>1, WorkerFrame DEF Sampled, actor, inCall
  <2> QED  BY <1>1, <2>1, IdsByWorker DEF IdsInOrder
<1>2. CASE PopStep
  <2>1. Sampled
    BY <1>2, PopMoves DEF FromQueue, Sampled
  <2> QED  BY <1>2, <2>1, IdsByPop DEF IdsInOrder
<1>3. CASE Snapshot
  <2>1. /\ UNCHANGED <<wpc, tasks>> /\ Sampled
        /\ uncommitted' = Without(uncommitted, Committed(rollout))
        /\ taken' \subseteq taken
    BY <1>3 DEF Snapshot, sampler, tasks, Sampled
  <2>2. \A i \in Committed(rollout) : Given(i)
    BY DEF Committed, Given, SourceTypes
  <2>3. /\ DOMAIN uncommitted' \subseteq DOMAIN uncommitted
        /\ \A i \in DOMAIN uncommitted :
             ~Given(i) => i \in DOMAIN uncommitted' /\ uncommitted'[i] = uncommitted[i]
    BY <2>1, <2>2 DEF Without, Restrict
  <2>4. EpisodeIds /\ GroupIds /\ ResultId /\ QueueIds
    BY <2>1 DEF IdsInOrder
  <2>5. \A i : Given(i)' => Given(i)
    BY <2>1 DEF Given
  <2>6. wpc \in {"record", "put"} => publishing # Nothing
    BY DEF OnItsWay
  <2>7. EpisodeIds' /\ GroupIds'
    BY <2>1, <2>3, <2>4, <2>5 DEF tasks, EpisodeIds, GroupIds, Queued
  <2>8. ResultId'
    BY <2>1, <2>3, <2>4, <2>5, <2>6 DEF tasks, ResultId, Queued
  <2>9. QueueIds'
    BY <2>1, <2>3, <2>4, <2>5 DEF tasks, QueueIds, Given
  <2> QED  BY <2>7, <2>8, <2>9
<1>4. ASSUME DOMAIN active' = {}, publishing' = Nothing, wpc' \notin {"record", "put"},
             queue' = <<>>, DOMAIN uncommitted' = {}, taken' = {}
      PROVE  EpisodeIds' /\ GroupIds' /\ ResultId' /\ QueueIds'
  BY <1>4 DEF EpisodeIds, GroupIds, ResultId, QueueIds, Given
<1>5. CASE LoadStep
  <2>1. driver = "crashed" /\ UNCHANGED <<uncommitted, taken, sampler>>
    BY <1>5 DEF LoadStep, LoadFresh, Load
  <2>2. /\ DOMAIN active = {} /\ publishing = Nothing /\ wpc = "dead" /\ queue = <<>>
        /\ DOMAIN uncommitted = {} /\ taken = {}
    BY <2>1, EmptyMaps DEF NothingLeft
  <2> QED  BY <1>4, <2>1, <2>2 DEF sampler, tasks
<1>6. CASE Crash
  BY <1>6 DEF Crash, Sampled
<1>7. CASE /\ StandsStill /\ ~WorkerStep /\ ~PopStep /\ ~Snapshot
            /\ ~LoadStep /\ ~Crash
  <2>1. /\ Sampled /\ UNCHANGED source
        /\ \/ UNCHANGED <<wpc, tasks>>
           \/ /\ Renewed /\ DOMAIN active = {} /\ publishing = Nothing
              /\ DOMAIN uncommitted = {} /\ taken = {}
    BY <1>7, IdsByActor DEF StandsStill
  <2>2. CASE UNCHANGED <<wpc, tasks>>
    BY <2>1, <2>2 DEF IdsInOrder, EpisodeIds, GroupIds, ResultId, QueueIds, Given,
       Queued, source, tasks
  <2>3. CASE Renewed /\ DOMAIN uncommitted = {} /\ taken = {}
    BY <1>4, <2>1, <2>3, EmptyMaps DEF Renewed, FreshWorker, source
  <2> QED  BY <2>1, <2>2, <2>3
<1> QED  BY <1>1, <1>2, <1>3, <1>5, <1>6, <1>7, ActorMoves
-----------------------------------------------------------------------------
(***************************************************************************)
(* Groups and files.  Without rollbacks a prompt is in one place only, and *)
(* still open there unless a rollout has taken it; a checkpoint file holds *)
(* open prompts that its cursor has passed.                                *)
(***************************************************************************)
NoRollback == "rollback" \notin Risks
Hand == IF wpc = "record" THEN {publishing.group} ELSE {}
InPlay(g) == g.prompt <= cursor /\ fate[g.prompt] = Open
OpenBy(f, r) ==
  [p \in 1..Prompts |-> IF f[p] \in Rollouts /\ f[p] > r THEN Open ELSE f[p]]
OneEach(B) == \A g \in B : \A h \in B : g.prompt = h.prompt => g = h

\* Where the groups are, and how far they are settled.
Separate ==
  /\ OnePlace(buffer, active, uncommitted, Hand)
  /\ \A g \in buffer : InPlay(g)
  /\ \A i \in DOMAIN active : InPlay(active[i].group)
  /\ publishing # Nothing => InPlay(publishing.group)
  /\ \A i \in DOMAIN uncommitted :
       /\ uncommitted[i].prompt <= cursor
       /\ \/ fate[uncommitted[i].prompt] = Open
          \/ <<fate[uncommitted[i].prompt], i>> \in taken
  /\ driver # "crashed" => \A p \in 1..Prompts : fate[p] # Open => p <= cursor

\* What a save has in hand, and what the files say.
FilesSound ==
  /\ at = "write" =>
       /\ OneEach(snapshot)
       /\ \A g \in snapshot :
            g.prompt <= cursor /\ OpenBy(fate, rollout)[g.prompt] = Open
  /\ at = "cursor" =>
       /\ rollout \in DOMAIN bufferFile /\ fateFile[rollout] = OpenBy(fate, rollout)
       /\ \A g \in bufferFile[rollout] : g.prompt <= cursor
  /\ \A r \in DOMAIN bufferFile :
       OneEach(bufferFile[r]) /\ \A g \in bufferFile[r] : fateFile[r][g.prompt] = Open
  /\ DOMAIN cursorFile \subseteq DOMAIN bufferFile
  /\ \A r \in DOMAIN cursorFile :
       /\ \A g \in bufferFile[r] : g.prompt <= cursorFile[r]
       /\ \A p \in 1..Prompts : fateFile[r][p] # Open => p <= cursorFile[r]
  /\ driver # "crashed" =>
       \A k \in DOMAIN cursorFile :
         \/ k < saved
         \/ k = rollout /\ call = "save" /\ at \in {"resume", "done"}

\* The types in the form the proofs use.
LEMMA PlaceTypes ==
  ASSUME PipelineInv
  PROVE  /\ cursor \in Nat /\ \A g \in buffer : g \in Group
         /\ \A i \in DOMAIN active : active[i].group \in Group
         /\ \A i \in DOMAIN uncommitted : uncommitted[i] \in Group /\ i \in Ids
         /\ publishing # Nothing => publishing.group \in Group
         /\ \A g \in Group : g.prompt \in 1..Prompts
         /\ fate \in Fates /\ Open \notin Rollouts /\ Prompts \in Nat
<1>1. cursor \in Nat /\ fate \in Fates /\ Prompts \in Nat
  BY SetupBounds DEF PipelineInv, SourceTypes, FileTypes
<1>2. /\ \A g \in buffer : g \in Group
      /\ \A i \in DOMAIN uncommitted : uncommitted[i] \in Group /\ i \in Ids
  BY DEF PipelineInv, SourceTypes, Maps
<1>3. \A i \in DOMAIN active : active[i].group \in Group
  BY ActiveFacts DEF PipelineInv
<1>4. publishing # Nothing => publishing.group \in Group
  BY DEF PipelineInv, TaskTypes
<1>5. \A g \in Group : g.prompt \in 1..Prompts
  BY DEF Group
<1>6. Open \notin Rollouts
  BY SetupBounds DEF PipelineInv, Open, Rollouts
<1> QED  BY <1>1, <1>2, <1>3, <1>4, <1>5, <1>6

\* The worker moves a group from one place to the next, or reads one more.
LEMMA SeparateByWorker ==
  ASSUME PipelineInv, NothingLeft, Separate, WorkerStep
  PROVE  Separate'
<1>. USE DEF PipelineInv
<1>1. UNCHANGED <<fate, driver>> /\ driver # "crashed" /\ wpc # "dead"
  BY WorkerFrame, WorkerThere DEF actor, inCall, NothingLeft
<1>2. publishing = Nothing => Hand = {}
  BY DEF OnItsWay, Hand
<1>3. CASE Fewer
  <2>1. Hand' = {} /\ Hand = {}
    BY <1>2, <1>3 DEF Fewer, Hand
  <2>2. /\ UNCHANGED <<cursor, buffer, uncommitted, taken, publishing>>
        /\ publishing = Nothing
        /\ DOMAIN active' \subseteq DOMAIN active
        /\ \A i \in DOMAIN active' : active'[i].group = active[i].group
    BY <1>3 DEF Fewer, source
  <2>3. OnePlace(buffer, active', uncommitted, {})
    BY <2>1, <2>2, FewerPlaces DEF Separate
  <2> QED  BY <1>1, <2>1, <2>2, <2>3 DEF Separate, InPlay
<1>4. CASE TakenOut
  <2>1. PICK i \in DOMAIN active :
          /\ active' = Without(active, {i})
          /\ publishing'.group = active[i].group
          /\ publishing = Nothing /\ wpc' = "record"
          /\ UNCHANGED <<cursor, buffer, uncommitted, taken>>
    BY <1>4 DEF TakenOut, source
  <2>2. Hand' = {active[i].group} /\ Hand = {}
    BY <1>2, <2>1 DEF Hand
  <2>3. OnePlace(buffer, Without(active, {i}), uncommitted, {active[i].group})
    BY <2>2, ToHand DEF Separate
  <2>4. /\ DOMAIN active' \subseteq DOMAIN active
        /\ \A j \in DOMAIN active' : active'[j] = active[j]
    BY <2>1 DEF Without, Restrict
  <2> QED  BY <1>1, <2>1, <2>2, <2>3, <2>4 DEF Separate, InPlay
<1>5. CASE Recycled
  <2>1. PICK i \in DOMAIN active :
          /\ active' = Without(active, {i})
          /\ buffer' = buffer \cup {active[i].group}
          /\ publishing = Nothing /\ wpc' = "settle"
          /\ UNCHANGED <<cursor, uncommitted, taken, publishing>>
    BY <1>5 DEF Recycled
  <2>2. Hand' = {} /\ Hand = {}
    BY <1>2, <2>1 DEF Hand
  <2>3. OnePlace(buffer', active', uncommitted, {})
    BY <2>1, <2>2, ToBuffer DEF Separate
  <2>4. /\ DOMAIN active' \subseteq DOMAIN active
        /\ \A j \in DOMAIN active' : active'[j] = active[j]
    BY <2>1 DEF Without, Restrict
  <2> QED  BY <1>1, <2>1, <2>2, <2>3, <2>4 DEF Separate, InPlay
<1>6. CASE Record
  <2>1. /\ wpc = "record" /\ wpc' = "put" /\ publishing # Nothing
        /\ uncommitted' = Store(uncommitted, publishing.id, publishing.group)
        /\ UNCHANGED <<cursor, buffer, taken, active, publishing>>
    BY <1>6 DEF Record, Step, tasks, OnItsWay
  <2>2. Hand = {publishing.group} /\ Hand' = {}
    BY <2>1 DEF Hand
  <2>3. OnePlace(buffer, active, uncommitted', {})
    BY <2>1, <2>2, ToRecord DEF Separate
  <2>4. \A i \in DOMAIN uncommitted' :
          IF i = publishing.id THEN uncommitted'[i] = publishing.group
          ELSE i \in DOMAIN uncommitted /\ uncommitted'[i] = uncommitted[i]
    BY <2>1 DEF Store
  <2> QED  BY <1>1, <2>1, <2>2, <2>3, <2>4 DEF Separate, InPlay
<1>7. CASE Enqueue
  <2>1. /\ wpc = "put" /\ wpc' # "record" /\ publishing' = Nothing
        /\ UNCHANGED <<cursor, buffer, uncommitted, taken, active>>
    BY <1>7 DEF Enqueue, Step, source, OnItsWay, TaskTypes
  <2>2. Hand = {} /\ Hand' = {}
    BY <2>1 DEF Hand
  <2> QED  BY <1>1, <2>1, <2>2 DEF Separate, InPlay
<1>8. CASE Fetch
  <2>1. PICK g \in Group : /\ NextGroup(g)
                           /\ active' = Store(active, nextId, [group |-> g, st |-> "run"])
    BY <1>8 DEF Fetch
  <2>2. /\ UNCHANGED <<uncommitted, taken, wpc, publishing>> /\ publishing = Nothing
    BY <1>8 DEF Fetch, OnItsWay
  <2>3. Hand = {} /\ Hand' = {}
    BY <1>2, <2>2 DEF Hand
  <2>4. /\ cursor' \in {cursor, cursor + 1} /\ g.prompt <= cursor'
        /\ fate[g.prompt] = Open
        /\ \A h \in buffer' : h \in buffer /\ h.prompt # g.prompt
        /\ \A j \in DOMAIN active : active[j].group.prompt # g.prompt
        /\ \A j \in DOMAIN uncommitted : uncommitted[j].prompt # g.prompt
    <3>1. CASE g \in buffer /\ buffer' = buffer \ {g} /\ cursor' = cursor
      BY <3>1 DEF Separate, OnePlace, InPlay
    <3>2. CASE /\ buffer = {} /\ buffer' = {} /\ g = [prompt |-> cursor + 1, tries |-> 0]
               /\ cursor' = cursor + 1
      <4>1. g.prompt = cursor + 1 /\ cursor \in Nat /\ g.prompt \in 1..Prompts
        BY <3>2, PlaceTypes
      <4>2. fate[g.prompt] = Open
        BY <1>1, <4>1 DEF Separate
      <4>3. /\ \A j \in DOMAIN active : active[j].group.prompt \in Nat
            /\ \A j \in DOMAIN uncommitted : uncommitted[j].prompt \in Nat
        BY PlaceTypes
      <4>4. /\ \A j \in DOMAIN active : active[j].group.prompt # g.prompt
            /\ \A j \in DOMAIN uncommitted : uncommitted[j].prompt # g.prompt
        <5>1. /\ \A j \in DOMAIN active : active[j].group.prompt <= cursor
              /\ \A j \in DOMAIN uncommitted : uncommitted[j].prompt <= cursor
          BY DEF Separate, InPlay
        <5> QED  BY <4>1, <4>3, <5>1
      <4> QED  BY <3>2, <4>1, <4>2, <4>4
    <3> QED  BY <2>1, <3>1, <3>2 DEF NextGroup
  <2>5. OnePlace(buffer', active', uncommitted, {})
    <3>1. OnePlace(buffer, active, uncommitted, {}) /\ buffer' \in SUBSET buffer
      BY <2>3, <2>4 DEF Separate
    <3>2. OnePlace(buffer', Store(active, nextId, [group |-> g, st |-> "run"]),
                   uncommitted, {})
      BY <2>4, <3>1, ToEpisode
    <3> QED  BY <2>1, <3>2
  <2>6. \A i \in DOMAIN active' :
          \/ active'[i].group = g
          \/ i \in DOMAIN active /\ active'[i] = active[i]
    BY <2>1 DEF Store
  <2>7. \A p \in Nat : p <= cursor => p <= cursor'
    BY <2>4, PlaceTypes
  <2>8. /\ \A h \in buffer' : InPlay(h)'
        /\ \A i \in DOMAIN active' : active'[i].group.prompt <= cursor'
                                     /\ fate[active'[i].group.prompt] = Open
    BY <1>1, <2>4, <2>6, <2>7, PlaceTypes DEF Separate, InPlay
  <2> QED  BY <1>1, <2>2, <2>3, <2>5, <2>7, <2>8, PlaceTypes DEF Separate, InPlay
<1> QED  BY <1>3, <1>4, <1>5, <1>6, <1>7, <1>8, WorkerMoves

\* The popped group is completed and still open, and in no other place.
LEMMA PoppedPlace ==
  ASSUME PipelineInv, Separate, QueueIds, ResultId, PopStep
  PROVE  /\ Popped.id \in DOMAIN uncommitted /\ Popped.group.prompt \in 1..Prompts
         /\ uncommitted[Popped.id] = Popped.group /\ InPlay(Popped.group)
         /\ \A g \in buffer : g.prompt # Popped.group.prompt
         /\ \A i \in DOMAIN active : active[i].group.prompt # Popped.group.prompt
         /\ \A i \in DOMAIN uncommitted \ {Popped.id} :
              uncommitted[i].prompt # Popped.group.prompt
         /\ publishing # Nothing => publishing.group.prompt # Popped.group.prompt
<1>1. FromQueue /\ Popped \in Result
  BY PopMoves
<1>2. /\ Popped.id \in DOMAIN uncommitted /\ ~Given(Popped.id) /\ Queued(Popped.id)
      /\ uncommitted[Popped.id] = Popped.group
  BY <1>1, PoppedIds DEF FromQueue
<1>3. Popped.group.prompt \in 1..Prompts
  BY <1>1 DEF Result, Group
<1>4. InPlay(Popped.group)
  <2>1. \A r, i : <<r, i>> \in taken => r \in Rollouts
    BY DEF PipelineInv, SourceTypes
  <2> QED  BY <1>2, <2>1 DEF Separate, InPlay, Given
<1>5. /\ \A g \in buffer : g.prompt # Popped.group.prompt
      /\ \A i \in DOMAIN active : active[i].group.prompt # Popped.group.prompt
      /\ \A i \in DOMAIN uncommitted \ {Popped.id} :
           uncommitted[i].prompt # Popped.group.prompt
  BY <1>2 DEF Separate, OnePlace
<1>6. publishing # Nothing => publishing.group.prompt # Popped.group.prompt
  <2>1. CASE wpc = "record"
    BY <1>2, <2>1 DEF Separate, OnePlace, Hand
  <2>2. CASE wpc = "put" /\ publishing # Nothing
    BY <1>2, <1>5, <2>2 DEF ResultId
  <2> QED  BY <2>1, <2>2 DEF PipelineInv, OnItsWay
<1> QED  BY <1>2, <1>3, <1>4, <1>5, <1>6

\* The collector sends a group back, drops it, or gives it to its rollout.
LEMMA SeparateByPop ==
  ASSUME PipelineInv, Separate, QueueIds, ResultId, PopStep
  PROVE  Separate'
<1>1. /\ FromQueue /\ Popped \in Result
      /\ GoesBack \/ IsDropped \/ IsTaken \/ IsLost
  BY PopMoves
<1>2. /\ UNCHANGED <<cursor, active, publishing, wpc, driver>> /\ Hand' = Hand
  BY <1>1 DEF FromQueue, Hand
<1> DEFINE q == Popped.group.prompt
<1>3. /\ Popped.id \in DOMAIN uncommitted /\ q \in 1..Prompts
      /\ uncommitted[Popped.id] = Popped.group /\ InPlay(Popped.group)
      /\ \A g \in buffer : g.prompt # q
      /\ \A i \in DOMAIN active : active[i].group.prompt # q
      /\ \A i \in DOMAIN uncommitted \ {Popped.id} : uncommitted[i].prompt # q
      /\ publishing # Nothing => publishing.group.prompt # q
  BY PoppedPlace
<1>4. \A i \in DOMAIN Without(uncommitted, {Popped.id}) :
        /\ i \in DOMAIN uncommitted \ {Popped.id}
        /\ Without(uncommitted, {Popped.id})[i] = uncommitted[i]
  BY DEF Without, Restrict
<1>5. ASSUME NEW v, fate' = [fate EXCEPT ![q] = v]
      PROVE  /\ fate'[q] = v /\ \A p : p # q => fate'[p] = fate[p]
  BY <1>3, <1>5, PlaceTypes DEF Fates
<1>6. CASE GoesBack
  <2>1. PICK g \in Group : /\ g.prompt = q /\ buffer' = buffer \cup {g}
                           /\ uncommitted' = Without(uncommitted, {Popped.id})
                           /\ UNCHANGED <<taken, fate>>
    BY <1>6 DEF GoesBack
  <2>2. OnePlace(buffer', active, uncommitted', Hand)
    BY <1>3, <2>1, SentBack DEF Separate
  <2> QED  BY <1>2, <1>3, <1>4, <2>1, <2>2 DEF Separate, InPlay
<1>7. CASE IsDropped
  <2>1. /\ uncommitted' = Without(uncommitted, {Popped.id})
        /\ fate' = [fate EXCEPT ![q] = Dropped] /\ UNCHANGED <<buffer, taken>>
    BY <1>7 DEF IsDropped
  <2>2. OnePlace(buffer, active, uncommitted', Hand)
    BY <1>4, <2>1, FewerPlaces DEF Separate
  <2>3. \A p : p # q => fate'[p] = fate[p]
    BY <1>5, <2>1
  <2>4. \A i \in DOMAIN uncommitted' :
          /\ i \in DOMAIN uncommitted \ {Popped.id}
          /\ uncommitted'[i] = uncommitted[i]
    BY <1>4, <2>1
  <2>5. \A i \in DOMAIN uncommitted' :
          /\ uncommitted'[i].prompt <= cursor
          /\ \/ fate'[uncommitted'[i].prompt] = Open
             \/ <<fate'[uncommitted'[i].prompt], i>> \in taken
    BY <1>3, <2>3, <2>4 DEF Separate
  <2>6. driver # "crashed" => \A p \in 1..Prompts : fate'[p] # Open => p <= cursor
    BY <1>3, <2>3 DEF Separate, InPlay
  <2>7. /\ \A g \in buffer : InPlay(g)'
        /\ \A i \in DOMAIN active : active[i].group.prompt <= cursor
                                    /\ fate'[active[i].group.prompt] = Open
        /\ publishing # Nothing => /\ publishing.group.prompt <= cursor
                                  /\ fate'[publishing.group.prompt] = Open
    BY <1>2, <1>3, <2>3 DEF Separate, InPlay
  <2> QED  BY <1>2, <2>1, <2>2, <2>5, <2>6, <2>7 DEF Separate, InPlay
<1>8. CASE IsTaken
  <2>1. /\ taken' = taken \cup {<<rollout, Popped.id>>}
        /\ fate' = [fate EXCEPT ![q] = rollout] /\ UNCHANGED <<buffer, uncommitted>>
    BY <1>8 DEF IsTaken
  <2>2. fate'[q] = rollout /\ \A p : p # q => fate'[p] = fate[p]
    BY <1>5, <2>1
  <2> QED  BY <1>2, <1>3, <2>1, <2>2 DEF Separate, InPlay
<1>9. CASE IsLost
  BY <1>2, <1>9 DEF IsLost, source, Separate, InPlay
<1> QED  BY <1>1, <1>6, <1>7, <1>8, <1>9

\* A snapshot forgets completed groups and moves none.
LEMMA SeparateBySnapshot ==
  ASSUME PipelineInv, Separate, Snapshot
  PROVE  Separate'
<1>1. /\ uncommitted' = Without(uncommitted, Committed(rollout))
      /\ taken' = {t \in taken : t[1] > rollout}
      /\ UNCHANGED <<cursor, buffer, active, publishing, wpc, fate, driver>>
  BY DEF Snapshot, sampler, tasks, OnlyActor
<1>2. \A i \in DOMAIN uncommitted' : /\ i \in DOMAIN uncommitted \ Committed(rollout)
                                     /\ uncommitted'[i] = uncommitted[i]
  BY <1>1 DEF Without, Restrict
<1>3. Hand' = Hand
  BY <1>1 DEF Hand
<1>4. OnePlace(buffer, active, uncommitted', Hand)
  BY <1>2, FewerPlaces DEF Separate
<1>5. \A r, i : <<r, i>> \in taken /\ i \notin Committed(rollout) => <<r, i>> \in taken'
  <2>1. \A r, i : <<r, i>> \in taken /\ ~(r > rollout) => i \in Committed(rollout)
    <3>1. \A r, i : <<r, i>> \in taken => r \in Nat
      BY SetupBounds DEF PipelineInv, SourceTypes, Rollouts
    <3>2. rollout \in Nat
      BY SetupBounds DEF PipelineInv, ActorTypes, Rollouts
    <3> QED  BY <3>1, <3>2 DEF Committed
  <2> QED  BY <1>1, <2>1
<1> QED  BY <1>1, <1>2, <1>3, <1>4, <1>5 DEF Separate, InPlay

\* Crashes and restarts begin with the groups of a file; other calls move nothing.
LEMMA SeparateByActor ==
  ASSUME PipelineInv, NothingLeft, Separate, FilesSound, StandsStill \/ Crash \/ LoadStep
  PROVE  Separate'
<1>. USE DEF PipelineInv
<1>1. CASE StandsStill
  <2>1. UNCHANGED <<cursor, buffer, uncommitted, taken, fate>>
        /\ (driver' = "crashed" <=> driver = "crashed")
    BY <1>1 DEF StandsStill, source
  <2>2. CASE UNCHANGED <<wpc, tasks>>
    BY <2>1, <2>2 DEF tasks, Separate, Hand, InPlay
  <2>3. CASE Renewed
    <3>1. DOMAIN active' = {} /\ publishing' = Nothing /\ Hand' = {}
      BY <2>3, EmptyMaps DEF Renewed, FreshWorker, Hand
    <3>2. OnePlace(buffer, active', uncommitted, {})
      BY <3>1, FewerPlaces DEF Separate
    <3> QED  BY <2>1, <3>1, <3>2 DEF Separate, InPlay
  <2> QED  BY <1>1, <2>2, <2>3 DEF StandsStill
<1>2. CASE Crash
  <2>1. /\ buffer' = {} /\ DOMAIN uncommitted' = {} /\ DOMAIN active' = {} /\ Hand' = {}
        /\ driver' = "crashed" /\ publishing' = Nothing
    BY <1>2, EmptyMaps DEF Crash, NoWorker, FreshWorker, Hand
  <2> QED  BY <2>1 DEF Separate, OnePlace
<1>3. CASE LoadStep
  <2>1. /\ DOMAIN uncommitted = {} /\ DOMAIN active = {} /\ publishing = Nothing
        /\ wpc = "dead" /\ UNCHANGED <<uncommitted, active, publishing, wpc>>
    BY <1>3, EmptyMaps DEF LoadStep, LoadFresh, Load, NothingLeft, sampler, tasks
  <2>2. /\ OneEach(buffer') /\ \A g \in buffer' : InPlay(g)'
        /\ \A p \in 1..Prompts : fate'[p] # Open => p <= cursor'
    <3>1. CASE LoadFresh
      BY <3>1 DEF LoadFresh, OneEach
    <3>2. CASE \E r \in Rollouts : Load(r)
      BY <3>2 DEF Load, Loadable, Complete, FilesSound, InPlay
    <3> QED  BY <1>3, <3>1, <3>2 DEF LoadStep
  <2>3. OnePlace(buffer', active', uncommitted', Hand')
    BY <2>1, <2>2 DEF OneEach, OnePlace, Hand
  <2> QED  BY <2>1, <2>2, <2>3 DEF Separate
<1> QED  BY <1>1, <1>2, <1>3

\* A checkpoint that is there when the process runs is of a rollout saved before
\* or being saved now: none is written over.
LEMMA NoneWrittenOver ==
  ASSUME PipelineInv, CallPlan, FilesSound, at \in Saving
  PROVE  rollout \notin DOMAIN cursorFile
<1>1. call = "save" /\ driver # "crashed" /\ saved <= rollout
  BY DEF CallPlan, Saving
<1>2. rollout \in Nat /\ saved \in Nat
  BY SetupBounds DEF PipelineInv, ActorTypes, Rollouts
<1> QED  BY <1>1, <1>2 DEF FilesSound, Saving

\* Steps that neither write a file nor begin to leave them as sound.
LEMMA SameFiles ==
  ASSUME FilesSound, UNCHANGED files, at' \notin {"write", "cursor"},
         driver' # "crashed" =>
           \A k \in DOMAIN cursorFile :
             \/ k < saved'
             \/ k = rollout' /\ call' = "save" /\ at' \in {"resume", "done"}
  PROVE  FilesSound'
<1>1. at' # "write" /\ at' # "cursor" /\ UNCHANGED <<bufferFile, cursorFile, fateFile>>
  BY DEF files
<1> QED  BY <1>1 DEF FilesSound

\* The buffer file of a rollout holds the snapshot of its save.
LEMMA FilesByWrite ==
  ASSUME PipelineInv, CallPlan, Separate, FilesSound, WriteBuffer
  PROVE  FilesSound'
<1>1. /\ at = "write" /\ at' = "cursor"
      /\ bufferFile' = Store(bufferFile, rollout, snapshot)
      /\ fateFile' = Store(fateFile, rollout, OpenBy(fate, rollout))
      /\ UNCHANGED <<cursor, rollout, call, saved, driver, snapshot, cursorFile, fate>>
  BY DEF WriteBuffer, Goto, inCall, source, OpenBy
<1>2. rollout \notin DOMAIN cursorFile
  BY <1>1, NoneWrittenOver DEF Saving
<1>3. /\ DOMAIN bufferFile' = DOMAIN bufferFile \cup {rollout}
      /\ bufferFile'[rollout] = snapshot /\ fateFile'[rollout] = OpenBy(fate, rollout)
      /\ \A r \in DOMAIN bufferFile :
           r # rollout => bufferFile'[r] = bufferFile[r] /\ fateFile'[r] = fateFile[r]
  <2>1. DOMAIN bufferFile \subseteq DOMAIN fateFile
    BY DEF PipelineInv, FileTypes
  <2> QED  BY <1>1, <2>1 DEF Store
<1>4. /\ OneEach(snapshot)
      /\ \A g \in snapshot : g.prompt <= cursor /\ OpenBy(fate, rollout)[g.prompt] = Open
  BY <1>1 DEF FilesSound
<1> HIDE DEF OpenBy, OneEach
<1>5. at' = "cursor" =>
        /\ rollout' \in DOMAIN bufferFile' /\ fateFile'[rollout'] = OpenBy(fate', rollout')
        /\ \A g \in bufferFile'[rollout'] : g.prompt <= cursor'
  BY <1>1, <1>3, <1>4
<1>6. \A r \in DOMAIN bufferFile' :
        /\ OneEach(bufferFile'[r])
        /\ \A g \in bufferFile'[r] : fateFile'[r][g.prompt] = Open
  BY <1>3, <1>4 DEF FilesSound
<1>7. /\ DOMAIN cursorFile' \subseteq DOMAIN bufferFile'
      /\ \A r \in DOMAIN cursorFile' :
           /\ \A g \in bufferFile'[r] : g.prompt <= cursorFile'[r]
           /\ \A p \in 1..Prompts : fateFile'[r][p] # Open => p <= cursorFile'[r]
  BY <1>1, <1>2, <1>3 DEF FilesSound
<1>8. driver' # "crashed" => \A k \in DOMAIN cursorFile' : k < saved'
  BY <1>1 DEF FilesSound
<1> QED  BY <1>1, <1>5, <1>6, <1>7, <1>8 DEF FilesSound

\* The cursor file only makes complete what was written for it.
LEMMA FilesByCursor ==
  ASSUME PipelineInv, CallPlan, Separate, FilesSound, SaveCursor
  PROVE  FilesSound'
<1>1. /\ at = "cursor" /\ at' \in {"resume", "done"} /\ call = "save"
      /\ cursorFile' = Store(cursorFile, rollout, cursor)
      /\ UNCHANGED <<rollout, call, saved, driver, bufferFile, fateFile>>
  BY DEF SaveCursor, Goto, inCall, CallPlan
<1>2. /\ DOMAIN cursorFile' = DOMAIN cursorFile \cup {rollout}
      /\ cursorFile'[rollout] = cursor
      /\ \A r \in DOMAIN cursorFile : r # rollout => cursorFile'[r] = cursorFile[r]
  BY <1>1 DEF Store
<1>3. /\ rollout \in DOMAIN bufferFile /\ fateFile[rollout] = OpenBy(fate, rollout)
      /\ \A g \in bufferFile[rollout] : g.prompt <= cursor
  BY <1>1 DEF FilesSound
<1>4. \A p \in 1..Prompts : fateFile[rollout][p] # Open => p <= cursor
  <2>1. \A p \in 1..Prompts : fateFile[rollout][p] # Open => fate[p] # Open
    BY <1>3 DEF OpenBy
  <2>2. driver # "crashed"
    BY <1>1 DEF CallPlan
  <2> QED  BY <2>1, <2>2 DEF Separate
<1>5. \A k \in DOMAIN cursorFile : k < saved
  BY <1>1 DEF FilesSound, CallPlan
<1> QED  BY <1>1, <1>2, <1>3, <1>4, <1>5 DEF FilesSound

\* Files stay sound: a save writes what is separate, and no file a second time.
LEMMA FilesSoundKept ==
  ASSUME PipelineInv, CallPlan, NothingLeft, Separate, FilesSound, NoRollback,
         [Next]_vars
  PROVE  FilesSound'
<1>1. \A k \in DOMAIN cursorFile : k \in Nat
  BY SetupBounds DEF PipelineInv, FileTypes, Maps, Rollouts
<1>2. rollout \in Nat /\ saved \in Nat
  BY SetupBounds DEF PipelineInv, ActorTypes, Rollouts
<1>3. ASSUME UNCHANGED <<files, saved>>, at' \notin {"write", "cursor"},
             at \notin {"resume", "done"}, driver' = "crashed" \/ driver # "crashed"
      PROVE  FilesSound'
  <2>1. driver' # "crashed" => \A k \in DOMAIN cursorFile : k < saved'
    BY <1>3 DEF FilesSound
  <2> QED  BY <1>3, <2>1, SameFiles
<1>4. CASE WorkerStep
  <2>1. UNCHANGED <<files, fate, at, call, rollout, saved, driver, snapshot>>
    BY <1>4, WorkerFrame DEF actor, inCall
  <2>2. cursor \in Nat /\ cursor' \in {cursor, cursor + 1}
    <3>1. CASE Fetch
      BY <3>1, PlaceTypes DEF Fetch, NextGroup
    <3> QED  BY <1>4, <3>1, WorkerMoves, PlaceTypes DEF Fewer, TakenOut, Recycled,
                Record, Enqueue, source
  <2>3. /\ at = "write" => \A g \in snapshot : g.prompt <= cursor'
        /\ at = "cursor" => \A g \in bufferFile[rollout] : g.prompt <= cursor'
    <3>1. \A g \in Group : g.prompt \in Nat
      BY DEF Group
    <3>2. snapshot \subseteq Group
      BY DEF PipelineInv, ActorTypes
    <3>3. \A r \in DOMAIN bufferFile : bufferFile[r] \subseteq Group
      BY DEF PipelineInv, FileTypes, Maps
    <3> QED  BY <2>2, <3>1, <3>2, <3>3 DEF FilesSound
  <2> QED  BY <2>1, <2>3 DEF FilesSound, files
<1>5. CASE Generate \/ (\E r \in Rollouts : Save(r) \/ Eval(r))
  <2>1. /\ UNCHANGED <<files, saved, driver>> /\ driver # "crashed"
        /\ at = "free" /\ at' \notin {"write", "cursor"}
    BY <1>5 DEF Generate, Save, Eval, GetGlobalWorker, CallRefused, Raise, OnlyActor
  <2> QED  BY <1>3, <2>1
<1>6. CASE CollectFails \/ PauseTimesOut \/ SaveFails \/ EvalFails \/ Paused \/ Evaluated
           \/ RequestPause
  <2>1. /\ UNCHANGED <<files, saved, driver>>
        /\ at \notin {"resume", "done", "free"}
        /\ at' \notin {"write", "cursor"}
    BY <1>6 DEF CollectFails, PauseTimesOut, SaveFails, EvalFails, Paused, Evaluated,
       RequestPause, AfterPause, Raise, Goto, OnlyActor, inCall, PipelineInv, ActorTypes
  <2>2. driver # "crashed"
    BY <2>1 DEF NothingLeft
  <2> QED  BY <1>3, <2>1, <2>2
<1>7. CASE PopStep
  <2>1. FromQueue /\ at' \in {"collect", "pause", "done", "stop"}
    BY <1>7, PopMoves
  <2> QED  BY <1>3, <2>1 DEF FromQueue, NothingLeft
<1>8. CASE Stop \/ StopCancel \/ Joined \/ JoinTimesOut
  <2>1. /\ UNCHANGED <<files, saved>> /\ at \in Stopping
        /\ at' \in {"cancel", "join", "stop", "free", "done"}
    BY <1>8 DEF Stop, StopCancel, Joined, JoinTimesOut, Raise, Goto, OnlyActor, inCall,
       Stopping
  <2> QED  BY <1>3, <2>1 DEF NothingLeft, Stopping
<1>9. CASE Resume
  <2>1. /\ UNCHANGED <<files, saved, rollout, call, driver>>
        /\ at = "resume" /\ at' = "done"
    BY <1>9 DEF Resume, Goto, OnlyActor, inCall
  <2> QED  BY <2>1, SameFiles DEF FilesSound
<1>10. CASE Done
  <2>1. /\ UNCHANGED <<files, driver>> /\ at = "done" /\ at' = "free"
        /\ saved' = IF call = "save" THEN rollout + 1 ELSE saved
    BY <1>10 DEF Done, Goto, OnlyActor
  <2>2. driver' # "crashed" => \A k \in DOMAIN cursorFile : k < saved'
    BY <1>1, <1>2, <2>1 DEF FilesSound, CallPlan
  <2> QED  BY <2>1, <2>2, SameFiles
<1>11. CASE Snapshot
  <2>1. /\ at = "snapshot" /\ at' = "write" /\ snapshot' = buffer \cup Range(uncommitted')
        /\ UNCHANGED <<files, fate, cursor, saved, rollout, driver>>
    BY <1>11 DEF Snapshot, Goto, OnlyActor, ReadAhead
  <2>2. Separate' /\ buffer' = buffer
    BY <1>11, SeparateBySnapshot DEF Snapshot
  <2>3. OneEach(snapshot')
    BY <2>1, <2>2 DEF Separate, OnePlace, OneEach, Range
  <2>4. \A i \in DOMAIN uncommitted' :
          OpenBy(fate, rollout)[uncommitted'[i].prompt] = Open
    <3>1. \A i \in DOMAIN uncommitted' :
            i \in DOMAIN uncommitted /\ uncommitted'[i] = uncommitted[i]
      BY <1>11 DEF Snapshot, Without, Restrict
    <3>2. \A r, i : <<r, i>> \in taken' => r \in Rollouts /\ r > rollout
      BY <1>11 DEF Snapshot, PipelineInv, SourceTypes
    <3>3. \A i \in DOMAIN uncommitted' : uncommitted'[i].prompt \in 1..Prompts
      BY <3>1, PlaceTypes
    <3> QED  BY <2>1, <2>2, <3>2, <3>3 DEF Separate, OpenBy
  <2>5. \A g \in buffer : OpenBy(fate, rollout)[g.prompt] = Open
    BY PlaceTypes DEF Separate, InPlay, OpenBy
  <2>6. \A g \in snapshot' : g.prompt <= cursor /\ OpenBy(fate, rollout)[g.prompt] = Open
    BY <2>1, <2>2, <2>4, <2>5 DEF Separate, InPlay, Range
  <2> QED  BY <2>1, <2>3, <2>6 DEF FilesSound, files
<1>12. CASE Crash
  BY <1>12, SameFiles DEF Crash, files
<1>13. CASE LoadFresh \/ \E r \in Rollouts : Load(r)
  <2>1. /\ at = "free" /\ at' = at /\ UNCHANGED files
        /\ \A k \in Complete : k < saved'
    <3>1. Complete \subseteq Nat
      BY <1>1 DEF Complete
    <3> QED  BY <1>13, <3>1 DEF LoadFresh, Load, Loadable, NothingLeft, NoRollback,
                Rollouts
  <2>2. \A k \in DOMAIN cursorFile : k < saved'
    BY <2>1 DEF Complete, FilesSound
  <2> QED  BY <2>1, <2>2, SameFiles
<1>14. CASE WriteBuffer \/ SaveCursor
  BY <1>14, FilesByWrite, FilesByCursor
<1>15. CASE UNCHANGED vars
  BY <1>15 DEF vars, source, actor, inCall, files, FilesSound
<1> QED  BY <1>4, <1>5, <1>6, <1>7, <1>8, <1>9, <1>10, <1>11, <1>12, <1>13, <1>14, <1>15
            DEF Next, CallStep, WorkerStep, PopStep

LEMMA SeparateKept ==
  ASSUME PipelineInv, CallPlan, NothingLeft, IdsInOrder, Separate, FilesSound,
         [Next]_vars
  PROVE  Separate'
<1>1. CASE WorkerStep
  BY <1>1, SeparateByWorker
<1>2. CASE PopStep
  <2>1. Sampled
    <3>1. at = "collect" /\ rollout \in Rollouts
      BY <1>2, PopMoves DEF FromQueue, PipelineInv, ActorTypes
    <3> QED  BY <3>1, SetupBounds DEF CallPlan, Sampled, PipelineInv, Rollouts
  <2> QED  BY <1>2, <2>1, SeparateByPop DEF IdsInOrder
<1>3. CASE ~WorkerStep /\ ~PopStep
  BY <1>3, ActorMoves, SeparateBySnapshot, SeparateByActor
<1> QED  BY <1>1, <1>2, <1>3

\* The strengthening that HeldOnce and the ledger rest on.
Bookkeeping ==
  /\ Discipline /\ StaysStopped /\ OneWorker /\ IdsInOrder
  /\ NoRollback => Separate /\ FilesSound

LEMMA BookkeepingStarts == Init => Bookkeeping
<1> SUFFICES ASSUME Init PROVE Bookkeeping
  OBVIOUS
<1>1. Discipline /\ PipelineInv
  BY DisciplineStarts DEF Discipline
<1>2. DOMAIN active = {} /\ DOMAIN uncommitted = {} /\ DOMAIN bufferFile = {}
      /\ DOMAIN cursorFile = {}
  BY EmptyMaps DEF Init
<1>3. StaysStopped /\ OneWorker
  BY <1>2 DEF Init, StaysStopped, OneWorker
<1>4. IdsInOrder
  BY <1>2 DEF Init, IdsInOrder, EpisodeIds, GroupIds, ResultId, QueueIds, Given
<1>5. Separate
  BY <1>2 DEF Init, Separate, OnePlace, Hand
<1>6. FilesSound
  BY <1>2 DEF Init, FilesSound
<1> QED  BY <1>1, <1>3, <1>4, <1>5, <1>6 DEF Bookkeeping

LEMMA BookkeepingStep == Bookkeeping /\ [Next]_vars => Bookkeeping'
<1> SUFFICES ASSUME Bookkeeping, [Next]_vars PROVE Bookkeeping'
  OBVIOUS
<1>1. Discipline' /\ PipelineInv /\ CallPlan /\ NothingLeft /\ LastRollout
  BY DisciplineStep DEF Bookkeeping, Discipline
<1>2. setup' = setup /\ Risks' = Risks /\ (NoRollback' <=> NoRollback)
  BY DEF Next, vars, Risks, NoRollback
<1>3. StaysStopped' /\ OneWorker' /\ IdsInOrder'
  BY <1>1, StaysStoppedKept, OneWorkerKept, IdsInOrderKept DEF Bookkeeping
<1>4. NoRollback => Separate' /\ FilesSound'
  BY <1>1, SeparateKept, FilesSoundKept DEF Bookkeeping
<1> QED  BY <1>1, <1>2, <1>3, <1>4 DEF Bookkeeping

\* Ids tell the groups of a worker apart, and groups and files agree.
THEOREM BookkeepingInvariance == Spec => []Bookkeeping
BY BookkeepingStarts, BookkeepingStep, PTL DEF Spec

\* A prompt is in one place only: buffer, episode, result on its way, or completed
\* group; once a rollout has taken it, or it was given up, it is in none that
\* samples it again.  Only a rollback to an older checkpoint undoes that.
THEOREM OnePlaceEach == Spec => [](NoRollback => HeldOnce)
<1>1. Bookkeeping => (NoRollback => HeldOnce)
  <2> SUFFICES ASSUME Bookkeeping, NoRollback, NEW p \in 1..Prompts
               PROVE  /\ Cardinality(Holders(p)) <= 1
                      /\ fate[p] # Open => p \notin Prompt(buffer \cup InFlight \cup Publishing)
    BY DEF HeldOnce
  <2>1. PipelineInv /\ Separate
    BY DEF Bookkeeping, Discipline
  <2>2. Cardinality(Holders(p)) <= 1
    BY <2>1, OneHolder DEF Separate, Hand
  <2>3. fate[p] # Open => p \notin Prompt(buffer \cup InFlight \cup Publishing)
    BY <2>1 DEF Separate, InPlay, Prompt, InFlight, Publishing
  <2> QED  BY <2>2, <2>3
<1> QED  BY <1>1, BookkeepingInvariance, PTL
-----------------------------------------------------------------------------
(***************************************************************************)
(* The refinement of PromptLedger.                                         *)
(***************************************************************************)
State == View(cursor, fate)
Disk == [r \in Complete |-> FileView(r)]

\* What a restart from a checkpoint would see is what its two files say.
LEMMA FileViews ==
  ASSUME PipelineInv, FilesSound
  PROVE  /\ Complete = DOMAIN cursorFile
         /\ \A r \in Complete : FileView(r) = View(cursorFile[r], fateFile[r])
<1>1. Complete = DOMAIN cursorFile
  BY DEF FilesSound, Complete
<1>2. ASSUME NEW r \in Complete PROVE FileView(r) = View(cursorFile[r], fateFile[r])
  <2>1. cursorFile[r] \in Nat
    BY <1>1, SetupBounds DEF PipelineInv, FileTypes, Maps
  <2>2. \A p \in Prompt(bufferFile[r]) : p <= cursorFile[r] /\ fateFile[r][p] = Open
    BY <1>1 DEF FilesSound, Prompt
  <2>3. ASSUME NEW p \in 1..Prompts
        PROVE  (p > cursorFile[r]) <=> ~(p <= cursorFile[r])
    BY <2>1
  <2> QED  BY <2>2, <2>3 DEF FileView, View
<1> QED  BY <1>1, <1>2

\* What neither reads a prompt, settles one nor writes a file is a stutter.
LEMMA SameLedger ==
  ASSUME UNCHANGED <<cursor, fate, files>>
  PROVE  UNCHANGED <<State, Disk>>
BY DEF files, State, Disk, View, FileView, Complete

\* To fetch a group is to read the next prompt, or to take one that is read already.
LEMMA LedgerReads ==
  ASSUME PipelineInv, NothingLeft, Separate, Fetch
  PROVE  UNCHANGED <<State, Disk>> \/ \E p \in 1..Prompts : Ledger!Read(p)
<1>1. UNCHANGED <<files, fate>> /\ driver # "crashed"
  BY WorkerFrame DEF WorkerStep, LoopStep, NothingLeft, Fetch
<1>2. cursor' = cursor \/ (cursor < Prompts /\ cursor' = cursor + 1)
  BY DEF Fetch, NextGroup
<1>3. CASE cursor' = cursor
  BY <1>1, <1>3, SameLedger
<1>4. CASE cursor < Prompts /\ cursor' = cursor + 1
  <2> DEFINE p == cursor + 1
  <2>1. p \in 1..Prompts /\ cursor \in Nat /\ Prompts \in Nat /\ NumRollouts \in Nat
    BY <1>4, PlaceTypes, SetupBounds DEF PipelineInv
  <2>2. fate[p] = Open
    BY <1>1, <2>1 DEF Separate
  <2>3. State[p] = Unread /\ \A q \in 1..(p - 1) : State[q] # Unread
    <3>1. \A q \in 1..Prompts : fate[q] # Unread
      BY <2>1, PlaceTypes DEF Fates, Rollouts, Open, Dropped, Unread
    <3> QED  BY <2>1, <3>1 DEF State, View
  <2>4. State' = [State EXCEPT ![p] = Open]
    <3>1. \A q \in 1..Prompts : q <= cursor' <=> q <= cursor \/ q = p
      BY <1>4, <2>1
    <3> QED  BY <1>1, <2>1, <2>2, <3>1 DEF State, View
  <2>5. UNCHANGED Disk
    BY <1>1 DEF files, Disk, FileView, Complete
  <2>6. Ledger!Read(p)
    BY <2>3, <2>4, <2>5 DEF Ledger!Read, Ledger!Become, Ledger!Unread, Ledger!Open,
       Unread, Open, State, Disk
  <2> QED  BY <2>1, <2>6
<1> QED  BY <1>2, <1>3, <1>4

\* To accept or discard a group settles its prompt; to send it back does not.
LEMMA LedgerSettles ==
  ASSUME PipelineInv, CallPlan, Separate, QueueIds, ResultId, PopStep
  PROVE  \/ UNCHANGED <<State, Disk>>
         \/ \E p \in 1..Prompts :
              Ledger!Discard(p) \/ \E r \in Rollouts : Ledger!Take(p, r)
<1> DEFINE p == Popped.group.prompt
<1>1. /\ UNCHANGED <<cursor, files>>
      /\ GoesBack \/ IsDropped \/ IsTaken \/ IsLost
  BY PopMoves DEF FromQueue
<1>2. p \in 1..Prompts /\ InPlay(Popped.group)
  BY PoppedPlace
<1>3. UNCHANGED Disk
  BY <1>1 DEF files, Disk, FileView, Complete
<1>4. State[p] = Open
  BY <1>2 DEF State, View, InPlay
<1>5. ASSUME NEW v, fate' = [fate EXCEPT ![p] = v]
      PROVE  State' = [State EXCEPT ![p] = v]
  BY <1>1, <1>2, <1>5, PlaceTypes DEF State, View, InPlay, Fates
<1>6. CASE GoesBack \/ IsLost
  BY <1>1, <1>6, SameLedger DEF GoesBack, IsLost
<1>7. CASE IsDropped
  <2>1. State' = [State EXCEPT ![p] = Dropped]
    BY <1>5, <1>7 DEF IsDropped
  <2>2. Ledger!Discard(p)
    BY <1>3, <1>4, <2>1 DEF Ledger!Discard, Ledger!Become, Ledger!Open, Ledger!Dropped,
       Open, Dropped, State, Disk
  <2> QED  BY <1>2, <2>2
<1>8. CASE IsTaken
  <2>1. State' = [State EXCEPT ![p] = rollout]
    BY <1>5, <1>8 DEF IsTaken
  <2>2. Ledger!Take(p, rollout)
    BY <1>3, <1>4, <2>1 DEF Ledger!Take, Ledger!Become, Ledger!Open, Open, State, Disk
  <2>3. rollout \in Rollouts
    BY DEF PipelineInv, ActorTypes
  <2> QED  BY <1>2, <2>2, <2>3
<1> QED  BY <1>1, <1>6, <1>7, <1>8

\* A save checkpoints the ledger when its cursor file appears, not before.
LEMMA LedgerCheckpoints ==
  ASSUME PipelineInv, CallPlan, Separate, FilesSound,
         SaveCursor \/ WriteBuffer
  PROVE  \/ UNCHANGED <<State, Disk>>
         \/ \E r \in Rollouts : Ledger!Checkpoint(r)
<1>1. UNCHANGED State
  BY DEF SaveCursor, WriteBuffer, State, View, source
<1>2. \A r \in Complete : FileView(r) = View(cursorFile[r], fateFile[r])
  BY FileViews
<1>3. CASE WriteBuffer
  <2>1. /\ rollout \notin Complete /\ UNCHANGED cursorFile
        /\ bufferFile' = Store(bufferFile, rollout, snapshot)
        /\ fateFile' = Store(fateFile, rollout, OpenBy(fate, rollout))
    BY <1>3, NoneWrittenOver DEF WriteBuffer, Goto, Saving, Complete, OpenBy
  <2>2. DOMAIN cursorFile \subseteq DOMAIN bufferFile
        /\ DOMAIN bufferFile \subseteq DOMAIN fateFile
    BY DEF FilesSound, PipelineInv, FileTypes
  <2>3. Complete' = Complete
    BY <2>1, <2>2 DEF Complete, Store
  <2>4. \A r \in Complete : bufferFile'[r] = bufferFile[r] /\ fateFile'[r] = fateFile[r]
    BY <2>1, <2>2 DEF Complete, Store
  <2>5. UNCHANGED Disk
    BY <2>1, <2>3, <2>4 DEF Disk, FileView
  <2> QED  BY <1>1, <2>5
<1>4. CASE SaveCursor
  <2>1. PICK r \in Rollouts : r = rollout
    BY DEF PipelineInv, ActorTypes
  <2>2. /\ at = "cursor" /\ cursorFile' = Store(cursorFile, r, cursor)
        /\ UNCHANGED <<bufferFile, fateFile>>
    BY <1>4, <2>1 DEF SaveCursor, Goto
  <2>3. /\ r \in DOMAIN bufferFile /\ fateFile[r] = OpenBy(fate, r)
        /\ \A g \in bufferFile[r] : g.prompt <= cursor /\ fateFile[r][g.prompt] = Open
    BY <2>1, <2>2 DEF FilesSound
  <2>4. /\ Complete' = Complete \cup {r} /\ cursorFile'[r] = cursor
        /\ \A k \in Complete : k # r => cursorFile'[k] = cursorFile[k]
    BY <2>2, <2>3 DEF Complete, Store
  <2>5. \A k \in Complete : k # r => FileView(k)' = FileView(k)
    BY <2>2, <2>4 DEF FileView
  <2> DEFINE After == [p \in 1..Prompts |->
               IF State[p] \in Rollouts /\ State[p] > r THEN Open ELSE State[p]]
  <2>6. FileView(r)' = After
    <3>1. cursor \in Nat /\ r \in Nat /\ NumRollouts \in Nat
      BY <2>1, PlaceTypes, SetupBounds DEF Rollouts, PipelineInv
    <3>2. Unread \notin Rollouts
      BY <3>1 DEF Unread, Rollouts
    <3>3. FileView(r)' = [p \in 1..Prompts |->
                            IF p > cursor THEN Unread
                            ELSE IF p \in Prompt(bufferFile[r]) THEN Open
                            ELSE OpenBy(fate, r)[p]]
      BY <2>2, <2>3, <2>4 DEF FileView
    <3>4. ASSUME NEW p \in 1..Prompts, p \in Prompt(bufferFile[r])
          PROVE  OpenBy(fate, r)[p] = Open
      BY <2>3, <3>4 DEF Prompt
    <3>5. FileView(r)' = [p \in 1..Prompts |->
                            IF p > cursor THEN Unread ELSE OpenBy(fate, r)[p]]
      BY <3>3, <3>4
    <3>6. \A p \in 1..Prompts : p <= cursor <=> ~(p > cursor)
      BY <3>1
    <3> QED  BY <3>2, <3>5, <3>6 DEF OpenBy, State, View
  <2> HIDE DEF After
  <2>7. Disk' = [k \in DOMAIN Disk \cup {r} |-> IF k # r THEN Disk[k] ELSE After]
    BY <2>4, <2>5, <2>6 DEF Disk
  <2>8. Ledger!Checkpoint(r)
    BY <1>1, <2>7 DEF After, Ledger!Checkpoint, Ledger!Rollouts, Ledger!Open, Rollouts,
       Open, State, Disk
  <2> QED  BY <2>8
<1> QED  BY <1>3, <1>4

\* A crash goes back to nothing, a restart to what a checkpoint has.
LEMMA LedgerRestarts ==
  ASSUME PipelineInv, NothingLeft, FilesSound, Crash \/ LoadStep
  PROVE  Ledger!Restart
<1>1. \A f : View(0, f) = Ledger!Fresh
  BY SetupBounds DEF PipelineInv, View, Ledger!Fresh, Unread, Ledger!Unread
<1>2. UNCHANGED files
  BY DEF Crash, LoadStep, LoadFresh, Load
<1>3. UNCHANGED Disk
  BY <1>2 DEF files, Disk, FileView, Complete
<1>4. State' = Ledger!Fresh \/ \E r \in DOMAIN Disk : State' = Disk[r]
  <2>1. CASE Crash \/ LoadFresh
    <3>1. cursor' = 0
      BY <2>1 DEF Crash, LoadFresh
    <3>2. State' = View(0, fate')
      BY <3>1 DEF State, View
    <3> QED  BY <1>1, <3>2
  <2>2. ASSUME NEW r \in Rollouts, Load(r) PROVE \E k \in DOMAIN Disk : State' = Disk[k]
    <3>1. r \in Complete /\ cursor' = cursorFile[r] /\ fate' = fateFile[r]
      BY <2>2 DEF Load, Loadable
    <3>2. FileView(r) = View(cursorFile[r], fateFile[r])
      BY <3>1, FileViews
    <3>3. State' = View(cursorFile[r], fateFile[r])
      BY <3>1 DEF State, View
    <3> QED  BY <3>1, <3>2, <3>3 DEF Disk
  <2> QED  BY <2>1, <2>2 DEF LoadStep
<1> QED  BY <1>3, <1>4 DEF Ledger!Restart, State, Disk

LEMMA LedgerStarts == Init => Ledger!Init
<1> SUFFICES ASSUME Init PROVE Ledger!Init
  OBVIOUS
<1>1. State = Ledger!Fresh
  BY SetupBounds DEF Init, State, View, Ledger!Fresh, Unread, Ledger!Unread
<1>2. Complete = {}
  BY EmptyMaps DEF Init, Complete
<1>3. Disk = <<>>
  BY <1>2 DEF Disk
<1> QED  BY <1>1, <1>3 DEF Ledger!Init, State, Disk

\* Every step is one of these.
LEMMA LedgerStep ==
  ASSUME Bookkeeping, NoRollback, [Next]_vars
  PROVE  Ledger!Next \/ UNCHANGED <<State, Disk>>
<1>1. /\ PipelineInv /\ CallPlan /\ NothingLeft /\ Separate /\ FilesSound /\ IdsInOrder
  BY DEF Bookkeeping, Discipline
<1>2. CASE Fetch
  BY <1>1, <1>2, LedgerReads DEF Ledger!Next
<1>3. CASE PopStep
  <2>1. Sampled
    <3>1. at = "collect" /\ rollout \in Rollouts
      BY <1>1, <1>3, PopMoves DEF FromQueue, PipelineInv, ActorTypes
    <3> QED  BY <1>1, <3>1, SetupBounds DEF CallPlan, Sampled, PipelineInv, Rollouts
  <2>2. QueueIds /\ ResultId
    BY <1>1, <2>1 DEF IdsInOrder
  <2> QED  BY <1>1, <1>3, <2>2, LedgerSettles DEF Ledger!Next, Ledger!Rollouts, Rollouts
<1>4. CASE SaveCursor \/ WriteBuffer
  BY <1>1, <1>4, LedgerCheckpoints DEF Ledger!Next, Ledger!Rollouts, Rollouts
<1>5. CASE Crash \/ LoadStep
  BY <1>1, <1>5, LedgerRestarts DEF Ledger!Next
<1>6. CASE WorkerStep /\ ~Fetch
  <2>1. UNCHANGED cursor
    BY <1>1, <1>6, WorkerMoves DEF Fewer, TakenOut, Recycled, Record, Enqueue, source
  <2> QED  BY <1>6, <2>1, WorkerFrame, SameLedger
<1>7. CASE /\ ~WorkerStep /\ ~PopStep /\ ~Crash /\ ~LoadStep /\ ~SaveCursor
            /\ ~WriteBuffer
  <2>1. UNCHANGED <<files, fate>>
    BY <1>7, FileFrame DEF FileStep, PopStep
  <2>2. UNCHANGED cursor
    BY <1>1, <1>7, ActorMoves DEF Snapshot, StandsStill, source
  <2> QED  BY <2>1, <2>2, SameLedger
<1> QED  BY <1>2, <1>3, <1>4, <1>5, <1>6, <1>7

\* Without rollbacks every step of the pipeline is one of the ledger or leaves the
\* ledger as it is: prompts are read in order, settled once, kept by checkpoints,
\* and a restart goes back to one, whatever crashes, preemptions, late saves and
\* evaluations come between.
THEOREM LedgerRefinement == Spec /\ NoRollback => ImplementsLedger
<1>1. Init => Ledger!Init
  BY LedgerStarts
<1>2. Bookkeeping /\ NoRollback /\ [Next]_vars => [Ledger!Next]_<<State, Disk>>
  BY LedgerStep
<1>3. NoRollback /\ [Next]_vars => NoRollback'
  BY DEF Next, vars, Risks, NoRollback
<1>4. ImplementsLedger <=> Ledger!Init /\ [][Ledger!Next]_<<State, Disk>>
  BY DEF ImplementsLedger, Ledger!Spec, State, Disk
<1> QED  BY <1>1, <1>2, <1>3, <1>4, BookkeepingInvariance, PTL DEF Spec
-----------------------------------------------------------------------------
(***************************************************************************)
(* Checkpoints.  As long as no call has failed every prompt that was read  *)
(* is held or settled, and the completed groups of the rollouts not yet    *)
(* saved are on record; so a save, whose worker stands still, writes all   *)
(* that is open.                                                           *)
(***************************************************************************)
NoRisk == Risks = {}

\* What the rollouts up to here took has been let go of.
Trained ==
  IF call = "save" /\ at \in {"write", "cursor", "resume", "done"} THEN rollout + 1
  ELSE saved
\* A campaign no call of which has failed, with rollouts still to save.
Underway == driver = "run" /\ leave = "return" /\ ~failed /\ saved < NumRollouts
\* The prompt has a place; it is on record for the rollout that took it.
Kept(p) ==
  \/ \E g \in buffer : g.prompt = p
  \/ \E i \in DOMAIN active : active[i].group.prompt = p
  \/ publishing # Nothing /\ publishing.group.prompt = p
  \/ \E i \in DOMAIN uncommitted : uncommitted[i].prompt = p
OnRecord(p) ==
  \E i \in DOMAIN uncommitted : uncommitted[i].prompt = p /\ <<fate[p], i>> \in taken
AllKept == \A p \in 1..Prompts : p <= cursor /\ fate[p] = Open => Kept(p)
AllOnRecord ==
  /\ \A p \in 1..Prompts : fate[p] \in Rollouts /\ fate[p] >= Trained => OnRecord(p)
  /\ \A r \in Rollouts : \A i \in Ids :
       <<r, i>> \in taken => i \in DOMAIN uncommitted /\ fate[uncommitted[i].prompt] = r
NoneSampled == DOMAIN active = {} /\ publishing = Nothing
NothingLost == Underway => AllKept /\ AllOnRecord /\ (~running => NoneSampled)

\* No call comes later than it should, and a save has a worker that did not fail.
CallsTimely ==
  /\ call = "eval" /\ nextRollout = NumRollouts => saved = NumRollouts
  /\ call = "save" => driver = "run"
  /\ at \in Saving => ~failed
\* A save and its files miss no prompt that is open by then.
FilesWhole ==
  /\ at = "write" => \A p \in 1..Prompts :
       p <= cursor /\ OpenBy(fate, rollout)[p] = Open => p \in Prompt(snapshot)
  /\ at = "cursor" => \A p \in 1..Prompts :
       p <= cursor /\ fateFile[rollout][p] = Open => p \in Prompt(bufferFile[rollout])
  /\ \A r \in DOMAIN cursorFile : \A p \in 1..Prompts :
       p <= cursorFile[r] /\ fateFile[r][p] = Open => p \in Prompt(bufferFile[r])
  /\ \A r \in DOMAIN fateFile : \A p \in 1..Prompts :
       fateFile[r][p] \in Rollouts => fateFile[r][p] <= r

LEMMA RiskFree == NoRisk => NoEvalAfterFinal /\ Unpreempted /\ NoRollback
BY DEF NoRisk, NoEvalAfterFinal, Unpreempted, NoRollback

\* As long as no call has failed, ids are in order or nothing is sampled any more.
LEMMA UnderwayIds ==
  ASSUME Bookkeeping, NoRisk, NothingLost, CallsTimely, Underway
  PROVE  \/ Sampled
         \/ ~running /\ NoneSampled
<1>1. /\ PipelineInv /\ CallPlan /\ LastRollout /\ NoEvalAfterFinal
  BY RiskFree DEF Bookkeeping, Discipline
<1>2. CASE nextRollout < NumRollouts
  BY <1>2 DEF Underway, Sampled
<1>3. CASE nextRollout = NumRollouts
  <2>1. call \notin {"generate", "eval"}
    BY <1>1, <1>3, SetupBounds DEF CallPlan, CallsTimely, Underway, PipelineInv,
       ActorTypes, Rollouts
  <2>2. ~running
    BY <1>1, <1>3, <2>1 DEF LastRollout, PipelineInv, ActorTypes
  <2> QED  BY <2>2 DEF NothingLost
<1> QED  BY <1>1, <1>2, <1>3, SetupBounds DEF PipelineInv, ActorTypes

\* The groups on record stay there as long as none is dropped.
LEMMA RecordStays ==
  ASSUME AllOnRecord, UNCHANGED <<fate, taken>>, Trained' = Trained,
         \A i \in DOMAIN uncommitted :
           i \in DOMAIN uncommitted' /\ uncommitted'[i] = uncommitted[i]
  PROVE  AllOnRecord'
<1>1. ASSUME NEW p \in 1..Prompts, fate'[p] \in Rollouts, fate'[p] >= Trained'
      PROVE  OnRecord(p)'
  <2>1. PICK i \in DOMAIN uncommitted :
          uncommitted[i].prompt = p /\ <<fate[p], i>> \in taken
    <3>1. OnRecord(p)
      BY <1>1 DEF AllOnRecord
    <3> QED  BY <3>1 DEF OnRecord
  <2>2. /\ i \in DOMAIN uncommitted' /\ uncommitted'[i].prompt = p
        /\ <<fate'[p], i>> \in taken'
    BY <2>1
  <2> QED  BY <2>2 DEF OnRecord
<1>2. ASSUME NEW r \in Rollouts, NEW i \in Ids, <<r, i>> \in taken'
      PROVE  i \in DOMAIN uncommitted' /\ fate'[uncommitted'[i].prompt] = r
  <2>1. i \in DOMAIN uncommitted /\ fate[uncommitted[i].prompt] = r
    BY <1>2 DEF AllOnRecord
  <2> QED  BY <2>1
<1> QED  BY <1>1, <1>2 DEF AllOnRecord

\* The worker loses no group unless it fails.
LEMMA LostByWorker ==
  ASSUME Bookkeeping, NoRisk, NothingLost, CallsTimely, WorkerStep
  PROVE  NothingLost'
<1> SUFFICES ASSUME Underway' PROVE AllKept' /\ AllOnRecord' /\ (~running' => NoneSampled')
  BY DEF NothingLost
<1>1. /\ PipelineInv /\ StaysStopped /\ IdsInOrder /\ Separate
      /\ UNCHANGED <<fate, at, call, rollout, saved, driver, leave>>
  BY RiskFree, WorkerFrame DEF Bookkeeping, Discipline, actor, inCall
<1>2. Trained' = Trained
  BY <1>1 DEF Trained
<1>3. Underway /\ (~running' => ~running)
  BY <1>1, FailureSticks DEF Underway, PipelineInv, FlagTypes
<1>4. AllKept /\ AllOnRecord /\ (~running => NoneSampled)
  BY <1>3 DEF NothingLost
<1>5. ~NoneSampled => /\ running /\ EpisodeIds /\ ResultId
  BY <1>1, <1>3, <1>4, UnderwayIds DEF IdsInOrder
<1>6. CASE Fewer
  <2>1. DOMAIN active' = DOMAIN active
    <3>1. CASE wpc = "cleanup"
      BY <1>1, <1>4, <1>6, <3>1 DEF StaysStopped, NoneSampled, Fewer
    <3> QED  BY <1>6, <3>1 DEF Fewer, Underway
  <2>2. /\ UNCHANGED <<cursor, buffer, uncommitted, taken, publishing>>
        /\ \A i \in DOMAIN active : active'[i].group = active[i].group
    BY <1>6, <2>1 DEF Fewer, source
  <2>3. AllKept'
    BY <1>1, <1>4, <2>1, <2>2 DEF AllKept, Kept
  <2>4. AllOnRecord'
    BY <1>1, <1>2, <1>4, <2>2, RecordStays
  <2> QED  BY <1>3, <1>4, <2>1, <2>2, <2>3, <2>4 DEF NoneSampled
<1>7. CASE TakenOut
  <2>1. PICK i \in DOMAIN active :
          /\ active' = Without(active, {i}) /\ publishing'.group = active[i].group
          /\ wpc' = "record" /\ publishing = Nothing
          /\ UNCHANGED <<cursor, buffer, uncommitted, taken, running>>
    BY <1>7 DEF TakenOut, source
  <2>2. publishing' # Nothing
    <3>1. publishing'.group.prompt # Nothing.group.prompt
      BY <1>1, <2>1, PlaceTypes DEF Nothing
    <3> QED  BY <3>1
  <2>3. \A j \in DOMAIN active :
          j # i => j \in DOMAIN active' /\ active'[j] = active[j]
    BY <2>1 DEF Without, Restrict
  <2>4. AllKept'
    BY <1>1, <1>4, <2>1, <2>2, <2>3 DEF AllKept, Kept
  <2>5. AllOnRecord'
    BY <1>1, <1>2, <1>4, <2>1, RecordStays
  <2>6. running'
    BY <1>5, <2>1 DEF NoneSampled
  <2> QED  BY <2>4, <2>5, <2>6
<1>8. CASE Recycled
  <2>1. PICK i \in DOMAIN active :
          /\ active' = Without(active, {i}) /\ buffer' = buffer \cup {active[i].group}
          /\ publishing = Nothing
          /\ UNCHANGED <<cursor, uncommitted, taken, publishing, running>>
    BY <1>8 DEF Recycled
  <2>2. \A j \in DOMAIN active :
          j # i => j \in DOMAIN active' /\ active'[j] = active[j]
    BY <2>1 DEF Without, Restrict
  <2>3. AllKept'
    BY <1>1, <1>4, <2>1, <2>2 DEF AllKept, Kept
  <2>4. AllOnRecord'
    BY <1>1, <1>2, <1>4, <2>1, RecordStays
  <2>5. running'
    BY <1>5, <2>1 DEF NoneSampled
  <2> QED  BY <2>3, <2>4, <2>5
<1>9. CASE Record
  <2>1. /\ publishing # Nothing /\ wpc = "record"
        /\ uncommitted' = Store(uncommitted, publishing.id, publishing.group)
        /\ UNCHANGED <<cursor, buffer, taken, active, publishing, running>>
    BY <1>1, <1>9 DEF Record, Step, tasks, flags, PipelineInv, OnItsWay
  <2>2. running /\ publishing.id \notin DOMAIN uncommitted
    BY <1>5, <2>1 DEF NoneSampled, ResultId
  <2>3. \A i \in DOMAIN uncommitted :
          i \in DOMAIN uncommitted' /\ uncommitted'[i] = uncommitted[i]
    BY <2>1, <2>2 DEF Store
  <2>4. AllKept'
    BY <1>1, <1>4, <2>1, <2>3 DEF AllKept, Kept
  <2>5. AllOnRecord'
    BY <1>1, <1>2, <1>4, <2>1, <2>3, RecordStays
  <2> QED  BY <2>1, <2>2, <2>4, <2>5
<1>10. CASE Enqueue
  <2>1. /\ publishing # Nothing /\ wpc = "put" /\ publishing' = Nothing
        /\ UNCHANGED <<cursor, buffer, uncommitted, taken, active, running>>
    BY <1>1, <1>10 DEF Enqueue, Step, source, flags, PipelineInv, OnItsWay
  <2>2. /\ running /\ publishing.id \in DOMAIN uncommitted
        /\ uncommitted[publishing.id] = publishing.group
    BY <1>5, <2>1 DEF NoneSampled, ResultId
  <2>3. AllKept'
    BY <1>1, <1>4, <2>1, <2>2 DEF AllKept, Kept
  <2>4. AllOnRecord'
    BY <1>1, <1>2, <1>4, <2>1, RecordStays
  <2> QED  BY <2>1, <2>2, <2>3, <2>4
<1>11. CASE Fetch
  <2>1. PICK g \in Group : /\ NextGroup(g)
                           /\ active' = Store(active, nextId, [group |-> g, st |-> "run"])
    BY <1>11 DEF Fetch
  <2>2. running /\ UNCHANGED <<running, uncommitted, taken, publishing>>
    BY <1>11 DEF Fetch, MayFetch, flags
  <2>3. nextId \notin DOMAIN active
    <3>1. CASE NoneSampled
      BY <3>1 DEF NoneSampled
    <3>2. CASE ~NoneSampled
      BY <1>1, <1>5, <3>2 DEF EpisodeIds, PipelineInv, TaskTypes, Ids
    <3> QED  BY <3>1, <3>2
  <2>4. /\ nextId \in DOMAIN active' /\ active'[nextId].group = g
        /\ \A i \in DOMAIN active : i \in DOMAIN active' /\ active'[i] = active[i]
    BY <2>1, <2>3 DEF Store
  <2>5. \A h \in buffer : h \in buffer' \/ h = g
    BY <2>1 DEF NextGroup
  <2>6. \A p \in 1..Prompts : p <= cursor' => p <= cursor \/ p = g.prompt
    <3>1. CASE cursor' = cursor
      BY <3>1
    <3>2. CASE cursor' = cursor + 1 /\ g = [prompt |-> cursor + 1, tries |-> 0]
      BY <1>1, <3>2, PlaceTypes
    <3> QED  BY <2>1, <3>1, <3>2 DEF NextGroup
  <2>7. AllKept'
    BY <1>1, <1>4, <2>2, <2>4, <2>5, <2>6 DEF AllKept, Kept
  <2>8. AllOnRecord'
    BY <1>1, <1>2, <1>4, <2>2, RecordStays
  <2> QED  BY <2>2, <2>7, <2>8
<1> QED  BY <1>1, <1>6, <1>7, <1>8, <1>9, <1>10, <1>11, WorkerMoves

\* The collector leaves no group without a place or a rollout.
LEMMA LostByPop ==
  ASSUME Bookkeeping, NoRisk, NothingLost, PopStep
  PROVE  NothingLost'
<1> SUFFICES ASSUME Underway' PROVE AllKept' /\ AllOnRecord' /\ (~running' => NoneSampled')
  BY DEF NothingLost
<1>1. /\ PipelineInv /\ CallPlan /\ Separate /\ IdsInOrder
  BY RiskFree DEF Bookkeeping, Discipline
<1>2. /\ FromQueue /\ Popped \in Result
      /\ GoesBack \/ IsDropped \/ IsTaken \/ IsLost
  BY <1>1, PopMoves
<1>3. /\ UNCHANGED <<cursor, active, publishing, running, failed, call, saved, driver>>
      /\ at = "collect" /\ call = "generate" /\ leave = "return" /\ rollout \in Rollouts
  BY <1>1, <1>2 DEF FromQueue, flags, CallPlan, Stopping, PipelineInv, ActorTypes
<1>4. Trained' = Trained /\ Trained = saved
  BY <1>3 DEF Trained
<1>5. Underway /\ Sampled
  BY <1>1, <1>3, SetupBounds DEF Underway, Sampled, CallPlan, PipelineInv, Rollouts
<1>6. AllKept /\ AllOnRecord /\ (~running => NoneSampled)
  BY <1>5 DEF NothingLost
<1>7. QueueIds /\ ResultId
  BY <1>1, <1>5 DEF IdsInOrder
<1> DEFINE q == Popped.group.prompt
<1>8. /\ Popped.id \in DOMAIN uncommitted /\ q \in 1..Prompts
      /\ uncommitted[Popped.id].prompt = q /\ fate[q] = Open
      /\ \A i \in DOMAIN uncommitted \ {Popped.id} : uncommitted[i].prompt # q
  BY <1>1, <1>7, PoppedPlace DEF InPlay
<1>9. \A r \in Rollouts : <<r, Popped.id>> \notin taken
  BY <1>1, <1>2, <1>7, PoppedIds DEF FromQueue, Given
<1>10. \A i \in DOMAIN uncommitted \ {Popped.id} :
         /\ i \in DOMAIN Without(uncommitted, {Popped.id})
         /\ Without(uncommitted, {Popped.id})[i] = uncommitted[i]
  BY DEF Without, Restrict
<1>11. ASSUME NEW v, fate' = [fate EXCEPT ![q] = v]
       PROVE  fate'[q] = v /\ \A p : p # q => fate'[p] = fate[p]
  BY <1>1, <1>8, <1>11, PlaceTypes DEF Fates
<1>12. ~running' => NoneSampled'
  BY <1>3, <1>6 DEF NoneSampled
<1>13. CASE GoesBack
  <2>1. PICK g \in Group : /\ g.prompt = q /\ buffer' = buffer \cup {g}
                           /\ uncommitted' = Without(uncommitted, {Popped.id})
                           /\ UNCHANGED <<taken, fate>>
    BY <1>13 DEF GoesBack
  <2>2. AllKept'
    BY <1>3, <1>6, <1>8, <1>10, <2>1 DEF AllKept, Kept
  <2>3. AllOnRecord'
    BY <1>4, <1>6, <1>9, <1>10, <2>1 DEF AllOnRecord, OnRecord
  <2> QED  BY <1>12, <2>2, <2>3
<1>14. CASE IsDropped
  <2>1. /\ uncommitted' = Without(uncommitted, {Popped.id})
        /\ fate' = [fate EXCEPT ![q] = Dropped] /\ UNCHANGED <<buffer, taken>>
    BY <1>14 DEF IsDropped
  <2>2. fate'[q] = Dropped /\ \A p : p # q => fate'[p] = fate[p]
    BY <1>11, <2>1
  <2>3. Dropped \notin Rollouts /\ Dropped # Open
    BY <1>1, SetupBounds DEF Dropped, Open, Rollouts, PipelineInv
  <2>4. \A i \in DOMAIN uncommitted \ {Popped.id} :
          i \in DOMAIN uncommitted' /\ uncommitted'[i] = uncommitted[i]
    BY <1>10, <2>1
  <2>5. AllKept'
    <3> SUFFICES ASSUME NEW p \in 1..Prompts, p <= cursor, fate'[p] = Open
                 PROVE  Kept(p)'
      BY <1>3 DEF AllKept
    <3>1. p # q /\ Kept(p)
      BY <1>6, <2>2, <2>3 DEF AllKept
    <3> QED  BY <1>3, <1>8, <2>1, <2>4, <3>1 DEF Kept
  <2>6. AllOnRecord'
    <3>1. ASSUME NEW p \in 1..Prompts, fate'[p] \in Rollouts, fate'[p] >= Trained
          PROVE  OnRecord(p)'
      <4>1. p # q /\ fate'[p] = fate[p]
        BY <2>2, <2>3, <3>1
      <4>2. PICK i \in DOMAIN uncommitted :
              uncommitted[i].prompt = p /\ <<fate[p], i>> \in taken
        BY <1>6, <3>1, <4>1 DEF AllOnRecord, OnRecord
      <4>3. i # Popped.id
        BY <1>8, <4>1, <4>2
      <4> QED  BY <2>1, <2>4, <4>1, <4>2, <4>3 DEF OnRecord
    <3>2. ASSUME NEW r \in Rollouts, NEW i \in Ids, <<r, i>> \in taken
          PROVE  i \in DOMAIN uncommitted' /\ fate'[uncommitted'[i].prompt] = r
      <4>1. /\ i # Popped.id /\ i \in DOMAIN uncommitted
            /\ fate[uncommitted[i].prompt] = r
        BY <1>6, <1>9, <3>2 DEF AllOnRecord
      <4> QED  BY <1>8, <2>2, <2>4, <4>1
    <3> QED  BY <1>4, <2>1, <3>1, <3>2 DEF AllOnRecord
  <2> QED  BY <1>12, <2>5, <2>6
<1>15. CASE IsTaken
  <2>1. /\ taken' = taken \cup {<<rollout, Popped.id>>}
        /\ fate' = [fate EXCEPT ![q] = rollout] /\ UNCHANGED <<buffer, uncommitted>>
    BY <1>15 DEF IsTaken
  <2>2. fate'[q] = rollout /\ \A p : p # q => fate'[p] = fate[p]
    BY <1>11, <2>1
  <2>3. rollout # Open
    BY <1>1, <1>3, PlaceTypes
  <2>4. AllKept'
    BY <1>3, <1>6, <2>1, <2>2, <2>3 DEF AllKept, Kept
  <2>5. AllOnRecord'
    BY <1>4, <1>6, <1>8, <1>9, <2>1, <2>2 DEF AllOnRecord, OnRecord
  <2> QED  BY <1>12, <2>4, <2>5
<1>16. CASE IsLost
  BY <1>16 DEF IsLost, Underway
<1> QED  BY <1>2, <1>13, <1>14, <1>15, <1>16

\* A snapshot lets go only of groups whose rollouts are trained.
LEMMA LostBySnapshot ==
  ASSUME Bookkeeping, NothingLost, Snapshot
  PROVE  NothingLost'
<1> SUFFICES ASSUME Underway' PROVE AllKept' /\ AllOnRecord' /\ (~running' => NoneSampled')
  BY DEF NothingLost
<1>1. PipelineInv /\ CallPlan
  BY DEF Bookkeeping, Discipline
<1>2. /\ at = "snapshot" /\ at' = "write" /\ call = "save"
      /\ uncommitted' = Without(uncommitted, Committed(rollout))
      /\ taken' = {t \in taken : t[1] > rollout}
      /\ UNCHANGED <<cursor, buffer, active, publishing, running, failed, fate, driver,
                     call, leave, rollout, saved>>
  BY <1>1 DEF Snapshot, Goto, sampler, flags, tasks, OnlyActor, CallPlan
<1>3. Underway /\ AllKept /\ AllOnRecord /\ (~running => NoneSampled)
  BY <1>2 DEF Underway, NothingLost
<1>4. /\ rollout \in Nat /\ saved \in Nat /\ saved <= rollout
      /\ \A r \in Rollouts : r \in Nat
  BY <1>1, <1>2, SetupBounds DEF PipelineInv, ActorTypes, Rollouts, CallPlan
<1>5. Trained = saved /\ Trained' = rollout + 1
  BY <1>2 DEF Trained
<1>6. \A r \in Rollouts : \A i \in Ids : <<r, i>> \in taken' <=> <<r, i>> \in taken /\ r > rollout
  BY <1>2
<1>7. \A i \in Committed(rollout) :
        i \in Ids /\ \E r \in Rollouts : <<r, i>> \in taken /\ r <= rollout
  BY <1>1 DEF PipelineInv, SourceTypes, Committed
<1>8. \A i \in DOMAIN uncommitted \ Committed(rollout) :
        i \in DOMAIN uncommitted' /\ uncommitted'[i] = uncommitted[i]
  BY <1>2 DEF Without, Restrict
\* A group taken by a later rollout, or by none, stays.
<1>9. \A i \in DOMAIN uncommitted :
        fate[uncommitted[i].prompt] \notin 0..rollout => i \notin Committed(rollout)
  <2>1. \A r \in Rollouts : r <= rollout => r \in 0..rollout
    BY <1>4
  <2> QED  BY <1>3, <1>7, <2>1 DEF AllOnRecord
<1>10. AllKept'
  <2>1. Open \notin 0..rollout
    BY <1>1, <1>4, SetupBounds DEF Open, Rollouts, PipelineInv, ActorTypes
  <2> QED  BY <1>2, <1>3, <1>8, <1>9, <2>1 DEF AllKept, Kept
<1>11. \A p \in 1..Prompts : fate[p] \in Rollouts /\ fate[p] >= rollout + 1 => OnRecord(p)'
  <2> SUFFICES ASSUME NEW p \in 1..Prompts, fate[p] \in Rollouts, fate[p] >= rollout + 1
               PROVE  OnRecord(p)'
    OBVIOUS
  <2>1. fate[p] >= saved /\ fate[p] > rollout /\ fate[p] \notin 0..rollout
    BY <1>4
  <2>2. PICK i \in DOMAIN uncommitted :
          uncommitted[i].prompt = p /\ <<fate[p], i>> \in taken
    BY <1>3, <1>5, <2>1 DEF AllOnRecord, OnRecord
  <2>3. i \in DOMAIN uncommitted' /\ uncommitted'[i] = uncommitted[i]
    BY <1>8, <1>9, <2>1, <2>2
  <2>4. <<fate[p], i>> \in taken'
    BY <1>2, <2>1, <2>2
  <2> QED  BY <1>2, <2>2, <2>3, <2>4 DEF OnRecord
<1>12. AllOnRecord'
  <2>1. \A r \in Rollouts : \A i \in Ids : <<r, i>> \in taken' =>
          i \in DOMAIN uncommitted' /\ fate[uncommitted'[i].prompt] = r
    <3> SUFFICES ASSUME NEW r \in Rollouts, NEW i \in Ids, <<r, i>> \in taken'
                 PROVE  i \in DOMAIN uncommitted' /\ fate[uncommitted'[i].prompt] = r
      OBVIOUS
    <3>1. r > rollout /\ i \in DOMAIN uncommitted /\ fate[uncommitted[i].prompt] = r
      BY <1>3, <1>6 DEF AllOnRecord
    <3>2. r \notin 0..rollout
      BY <1>4, <3>1
    <3> QED  BY <1>8, <1>9, <3>1, <3>2
  <2> QED  BY <1>2, <1>5, <1>11, <2>1 DEF AllOnRecord
<1> QED  BY <1>2, <1>3, <1>10, <1>12 DEF NoneSampled

\* A call neither loses a group nor makes up for one; it stops a worker that has
\* been paused, and starts one when none is left.
LEMMA LostByCall ==
  ASSUME Bookkeeping, NoRisk, NothingLost, CallsTimely, [Next]_vars, StandsStill,
         ~WorkerStep, ~PopStep, ~Snapshot, ~LoadStep, ~Crash, Underway'
  PROVE  /\ Underway /\ Trained' = Trained
         /\ UNCHANGED tasks \/ (NoneSampled /\ NoneSampled')
         /\ ~running' => ~running \/ NoneSampled
<1>1. /\ PipelineInv /\ CallPlan /\ NothingLeft /\ PauseHolds /\ Unpreempted
      /\ StaysStopped /\ OneWorker
  BY RiskFree DEF Bookkeeping, Discipline
<1>2. rollout \in Rollouts /\ saved \in Nat /\ rollout \in Nat /\ NumRollouts \in Nat
  BY <1>1, SetupBounds DEF PipelineInv, ActorTypes, Rollouts
<1>3. CASE Generate \/ (\E r \in Rollouts : Eval(r))
  <2>1. /\ at = "free" /\ at' \in {"collect", "pause", "stop"}
        /\ UNCHANGED <<driver, nextRollout, saved>> /\ leave = "return"
    BY <1>1, <1>3 DEF Generate, Eval, GetGlobalWorker, CallRefused, Raise, CallPlan,
       Stopping, PipelineInv, ActorTypes
  <2>2. Sampled
    <3>1. CASE Generate
      BY <3>1 DEF Generate, Sampled
    <3>2. ASSUME NEW r \in Rollouts, Eval(r) PROVE Sampled
      <4>1. saved # NumRollouts
        BY <1>2, <2>1 DEF Underway
      <4>2. "eval after final" \notin Risks
        BY RiskFree DEF NoEvalAfterFinal
      <4> QED  BY <3>2, <4>1, <4>2 DEF Eval, Sampled
    <3> QED  BY <1>3, <3>1, <3>2
  <2>3. UNCHANGED sampler \/ (NewWorker /\ ~failed /\ NoneSampled)
    BY <1>1, <1>3, <2>2, FreshStart DEF NoneSampled
  <2>4. ~failed
    BY <2>3 DEF sampler, flags, Underway
  <2>5. NewWorker => NoneSampled' /\ running'
    BY EmptyMaps DEF NewWorker, FreshWorker, NoneSampled
  <2> QED  BY <2>1, <2>2, <2>3, <2>4, <2>5 DEF Underway, Sampled, Trained, sampler,
              flags, tasks
<1>4. CASE \E r \in Rollouts : Save(r)
  <2>1. /\ at = "free" /\ at' \in {"pause", "snapshot", "stop"}
        /\ UNCHANGED <<driver, saved, sampler>> /\ leave = "return"
    BY <1>1, <1>4 DEF Save, Raise, CallPlan, Stopping, PipelineInv, ActorTypes
  <2> QED  BY <2>1 DEF Underway, Trained, sampler, flags, tasks
<1>5. CASE CollectFails \/ PauseTimesOut \/ SaveFails \/ EvalFails
  BY <1>5 DEF CollectFails, PauseTimesOut, SaveFails, EvalFails, Raise, Underway
<1>6. CASE Paused \/ Evaluated \/ RequestPause
  <2>1. /\ UNCHANGED <<driver, saved, call, rollout, leave, running, failed, tasks>>
        /\ at \in {"pause", "await", "evaluate"}
        /\ at' \notin {"write", "cursor", "done"} /\ (at' = "resume" => call = "eval")
    BY <1>1, <1>6 DEF Paused, Evaluated, RequestPause, AfterPause, Raise, Goto, sampler,
       flags, inCall, Underway, CallPlan, PipelineInv, ActorTypes
  <2> QED  BY <2>1 DEF Underway, Trained
<1>7. CASE Resume \/ WriteBuffer \/ SaveCursor
  <2>1. /\ UNCHANGED <<driver, saved, call, rollout, leave, running, failed, tasks>>
        /\ at \in {"write", "cursor", "resume"} /\ at' \in {"cursor", "resume", "done"}
    BY <1>7 DEF Resume, WriteBuffer, SaveCursor, Goto, sampler, flags, inCall
  <2> QED  BY <2>1 DEF Underway, Trained
<1>8. CASE Done
  <2>1. /\ at = "done" /\ at' = "free" /\ UNCHANGED <<driver, sampler>> /\ leave = "return"
        /\ saved' = (IF call = "save" THEN rollout + 1 ELSE saved)
        /\ call = "save" => saved <= rollout
    BY <1>1, <1>8 DEF Done, Goto, CallPlan, Stopping, PipelineInv, ActorTypes
  <2>2. Underway
    BY <1>2, <2>1 DEF Underway, sampler, flags
  <2> QED  BY <2>1, <2>2 DEF Trained, sampler, flags, tasks
<1>9. CASE Stop \/ StopCancel
  <2>1. /\ UNCHANGED <<driver, saved, call, rollout, leave, failed, tasks, wpc>>
        /\ at \in {"stop", "cancel"} /\ at' \in {"cancel", "join"}
        /\ StopCancel => running' = running
    BY <1>9 DEF Stop, StopCancel, Goto, inCall
  <2>2. leave = "return"
    BY <2>1 DEF Underway
  <2>3. NoneSampled
    BY <1>1, <2>1, <2>2 DEF PauseHolds, Stopping, NoEpisode, NoneSampled, PipelineInv,
       OnItsWay
  <2> QED  BY <2>1, <2>3 DEF Underway, Trained
<1>10. CASE Joined \/ JoinTimesOut
  <2>1. leave = "return" /\ at = "join"
    BY <1>10 DEF Joined, JoinTimesOut, AfterRaise, Underway
  <2>2. /\ UNCHANGED <<sampler, driver, saved, call, rollout, leave>> /\ at' = "done"
        /\ call \in {"generate", "eval"}
    BY <1>1, <1>10, <2>1 DEF Joined, JoinTimesOut, Raise, Underway, CallPlan, Stopping
  <2> QED  BY <2>1, <2>2 DEF Underway, Trained, sampler, flags, tasks
<1>11. CASE UNCHANGED vars
  BY <1>11 DEF vars, actor, inCall, sampler, flags, tasks, Underway, Trained
<1> QED  BY <1>3, <1>4, <1>5, <1>6, <1>7, <1>8, <1>9, <1>10, <1>11 DEF Next, CallStep,
            WorkerStep, PopStep, LoadStep

\* No group is lost between two failures of a call.
LEMMA NothingLostKept ==
  ASSUME Bookkeeping, NoRisk, NothingLost, CallsTimely, FilesWhole, [Next]_vars
  PROVE  NothingLost'
<1>1. PipelineInv /\ CallPlan /\ NothingLeft /\ FilesSound
  BY RiskFree DEF Bookkeeping, Discipline
<1>2. CASE WorkerStep
  BY <1>2, LostByWorker
<1>3. CASE PopStep
  BY <1>3, LostByPop
<1>4. CASE Snapshot
  BY <1>4, LostBySnapshot
<1>5. CASE Crash
  BY <1>5 DEF Crash, NothingLost, Underway
<1>6. CASE LoadStep
  <2>1. /\ NoneSampled' /\ at = "free" /\ call = "none" /\ UNCHANGED <<at, call>>
        /\ taken' = {}
    BY <1>1, <1>6, EmptyMaps DEF LoadStep, LoadFresh, Load, NothingLeft, CallPlan,
       sampler, tasks, NoneSampled
  <2>2. /\ Open \notin Rollouts /\ \A r \in Rollouts : r \in Nat
        /\ \A p \in 1..Prompts : p \in Nat
    BY <1>1, PlaceTypes, SetupBounds DEF Rollouts, PipelineInv
  <2>3. AllKept' /\ \A p \in 1..Prompts : ~(fate'[p] \in Rollouts /\ fate'[p] >= saved')
    <3>1. CASE LoadFresh
      BY <2>2, <3>1 DEF LoadFresh, AllKept
    <3>2. ASSUME NEW r \in Rollouts, Load(r)
          PROVE  AllKept' /\ \A p \in 1..Prompts : ~(fate'[p] \in Rollouts /\ fate'[p] >= saved')
      <4>1. /\ r \in DOMAIN cursorFile /\ r \in DOMAIN fateFile
            /\ cursor' = cursorFile[r] /\ buffer' = bufferFile[r] /\ fate' = fateFile[r]
            /\ saved' = r + 1
        BY <1>1, <3>2 DEF Load, Loadable, Complete, PipelineInv, FileTypes
      <4>2. AllKept'
        BY <4>1 DEF FilesWhole, AllKept, Kept, Prompt
      <4> QED  BY <2>2, <4>1, <4>2 DEF FilesWhole
    <3> QED  BY <1>6, <3>1, <3>2 DEF LoadStep
  <2>4. Trained' = saved'
    BY <2>1 DEF Trained
  <2> QED  BY <2>1, <2>3, <2>4 DEF NothingLost, AllOnRecord
<1>7. CASE /\ StandsStill /\ ~WorkerStep /\ ~PopStep /\ ~Snapshot /\ ~Crash
            /\ ~LoadStep
  <2> SUFFICES ASSUME Underway' PROVE AllKept' /\ AllOnRecord' /\ (~running' => NoneSampled')
    BY DEF NothingLost
  <2>1. /\ Underway /\ Trained' = Trained
        /\ UNCHANGED tasks \/ (NoneSampled /\ NoneSampled')
        /\ ~running' => ~running \/ NoneSampled
    BY <1>7, LostByCall
  <2>2. AllKept /\ AllOnRecord /\ (~running => NoneSampled)
    BY <2>1 DEF NothingLost
  <2>3. UNCHANGED <<cursor, buffer, uncommitted, taken, fate>>
    BY <1>7 DEF StandsStill, source
  <2>4. AllKept'
    <3>1. CASE UNCHANGED tasks
      BY <2>2, <2>3, <3>1 DEF AllKept, Kept, tasks
    <3>2. CASE NoneSampled /\ NoneSampled'
      BY <2>2, <2>3, <3>2 DEF AllKept, Kept, NoneSampled
    <3> QED  BY <2>1, <3>1, <3>2
  <2>5. AllOnRecord'
    BY <2>1, <2>2, <2>3 DEF AllOnRecord, OnRecord
  <2> QED  BY <2>1, <2>2, <2>4, <2>5 DEF NoneSampled, tasks
<1> QED  BY <1>1, <1>2, <1>3, <1>4, <1>5, <1>6, <1>7, ActorMoves
\* While a save counts on the pause the worker changes nothing of it.
LEMMA StillWhileSaving ==
  ASSUME PipelineInv, PauseHolds, Unpreempted, at \in Saving, WorkerStep
  PROVE  UNCHANGED <<failed, cursor>>
<1>1. /\ NoEpisode
      /\ wpc \in {"sleep", "reap", "check", "park", "cleanup", "dead"}
  BY WorkerThere DEF PauseHolds
<1>2. CASE LoopStep
  BY <1>1, <1>2 DEF NoEpisode, LoopStep, Warmed, Reap, Reaped, Record, Enqueue,
     SeePause, SeeNoPause, Quiesced, Settle, Settled, Park, Unpark, Fetch, Filled, Wake,
     LoopEnds, LoopDone, Step, flags, source
<1>3. CASE LoopRaises \/ Interrupted \/ \E i \in DOMAIN active : EpisodeEnds(i)
  BY <1>1, <1>3 DEF LoopRaises, Interrupted, EpisodeEnds, flags, source
<1> QED  BY <1>2, <1>3 DEF WorkerStep

\* Without risks saves and evaluations come when they should.
LEMMA CallsTimelyKept ==
  ASSUME Discipline, NoRisk, CallsTimely, [Next]_vars
  PROVE  CallsTimely'
<1>1. /\ PipelineInv /\ CallPlan /\ NothingLeft /\ PauseHolds /\ Unpreempted
      /\ "late save" \notin Risks /\ "eval after final" \notin Risks
  BY RiskFree DEF Discipline, NoRisk
<1>2. CASE WorkerStep
  <2>1. UNCHANGED <<at, call, nextRollout, saved, driver>>
    BY <1>2, WorkerFrame DEF actor, inCall
  <2>2. at \in Saving => UNCHANGED failed
    BY <1>1, <1>2, StillWhileSaving
  <2> QED  BY <2>1, <2>2 DEF CallsTimely
<1>. USE DEF CallsTimely, Saving
<1>3. CASE Generate \/ (\E r \in Rollouts : Eval(r))
  <2>1. /\ at' \in {"collect", "pause", "stop"} /\ call' \in {"generate", "eval"}
        /\ UNCHANGED <<nextRollout, saved>>
    BY <1>3 DEF Generate, Eval, GetGlobalWorker, CallRefused, Raise
  <2>2. call' = "eval" /\ nextRollout = NumRollouts => saved = NumRollouts
    <3>1. NumRollouts \in Nat /\ ~(NumRollouts < NumRollouts)
      BY PipelineAssumption
    <3> QED  BY <1>1, <1>3, <3>1 DEF Generate, Eval
  <2> QED  BY <2>1, <2>2
<1>4. CASE \E r \in Rollouts : Save(r)
  <2>1. PICK r \in Rollouts : Save(r)
    BY <1>4
  <2>2. call' = "save" /\ driver' = "run" /\ UNCHANGED failed
    BY <1>1, <2>1 DEF Save, sampler, flags
  <2>3. at' = "snapshot" => ~failed
    BY <1>1, <2>1 DEF Save, Raise, Alive, NothingLeft
  <2>4. at' \in {"snapshot", "pause", "stop"}
    BY <2>1 DEF Save, Raise
  <2> QED  BY <2>2, <2>3, <2>4
<1>5. CASE CollectFails \/ PauseTimesOut \/ SaveFails \/ EvalFails \/ Evaluated
  BY <1>5 DEF CollectFails, PauseTimesOut, SaveFails, EvalFails, Evaluated, Goto, Raise,
     inCall
<1>6. CASE PopStep
  BY <1>1, <1>6 DEF PopStep, RetryFailed, Discard, SendBackStale, Accept, AfterBatch,
     Raise, Pop, OnlyCollect
<1>7. CASE Done \/ Crash \/ LoadStep
  BY <1>1, <1>7 DEF Done, Goto, EndCall, Crash, LoadStep, LoadFresh, Load, NothingLeft,
     CallPlan
<1>8. CASE Paused
  BY <1>1, <1>8 DEF Paused, AfterPause, Raise, sampler, flags, inCall, PipelineInv,
     FlagTypes
<1>9. CASE RequestPause \/ Resume \/ Stop \/ StopCancel
  BY <1>9 DEF RequestPause, Resume, Stop, StopCancel, Goto, inCall
<1>10. CASE Snapshot \/ WriteBuffer \/ SaveCursor
  BY <1>10 DEF Snapshot, WriteBuffer, SaveCursor, Goto, sampler, flags, inCall
<1>11. CASE Joined \/ JoinTimesOut
  BY <1>1, <1>11 DEF Joined, JoinTimesOut, Raise, EndCall, CallPlan
<1>12. CASE UNCHANGED vars
  BY <1>12 DEF vars, actor, inCall, sampler, flags
<1> QED  BY <1>2, <1>3, <1>4, <1>5, <1>6, <1>7, <1>8, <1>9, <1>10, <1>11, <1>12
            DEF Next, CallStep, WorkerStep, PopStep, LoadStep
\* The snapshot of a save holds every prompt that was read and is open by then.
LEMMA WholeBySnapshot ==
  ASSUME Bookkeeping, NoRisk, NothingLost, CallsTimely, FilesWhole, Snapshot
  PROVE  FilesWhole'
<1>1. /\ PipelineInv /\ CallPlan /\ NothingLeft /\ PauseHolds /\ Unpreempted
  BY RiskFree DEF Bookkeeping, Discipline
<1>2. /\ at = "snapshot" /\ at' = "write" /\ call = "save" /\ driver = "run" /\ ~failed
      /\ snapshot' = buffer \cup Range(uncommitted')
      /\ UNCHANGED <<cursor, buffer, active, publishing, failed, fate, rollout, saved,
                     call, driver, leave, bufferFile, cursorFile, fateFile>>
  BY <1>1 DEF Snapshot, Goto, ReadAhead, sampler, flags, tasks, OnlyActor, files,
     CallPlan, CallsTimely, Saving
<1>3. /\ leave = "return" /\ saved < NumRollouts
      /\ rollout \in Nat /\ \A r \in Rollouts : r \in Nat
  BY <1>1, <1>2, SetupBounds DEF CallPlan, Stopping, PipelineInv, ActorTypes, Rollouts
<1>4. NoneSampled'
  <2>1. DOMAIN active = {} /\ wpc \notin {"record", "put"}
    BY <1>1, <1>2, EmptyMaps DEF PauseHolds, NothingLeft, NoEpisode, Saving
  <2> QED  BY <1>1, <1>2, <2>1 DEF NoneSampled, PipelineInv, OnItsWay
<1>5. Trained' = rollout + 1 /\ Underway'
  BY <1>2, <1>3 DEF Trained, Underway
<1>6. AllKept' /\ AllOnRecord'
  BY <1>5, LostBySnapshot DEF NothingLost
<1>7. \A i \in DOMAIN uncommitted' :
        /\ uncommitted'[i] \in snapshot'
        /\ uncommitted'[i].prompt \in Prompt(snapshot')
  BY <1>2 DEF Range, Prompt
<1>8. \A g \in buffer' : g.prompt \in Prompt(snapshot')
  BY <1>2 DEF Prompt
<1>9. ASSUME NEW p \in 1..Prompts, p <= cursor, OpenBy(fate, rollout)[p] = Open
      PROVE  p \in Prompt(snapshot')
  <2>1. CASE fate[p] = Open
    <3>1. Kept(p)'
      BY <1>2, <1>6, <1>9, <2>1 DEF AllKept
    <3> QED  BY <1>4, <1>7, <1>8, <3>1 DEF Kept, NoneSampled
  <2>2. CASE fate[p] # Open
    <3>1. fate[p] \in Rollouts /\ fate[p] > rollout
      BY <1>9, <2>2 DEF OpenBy
    <3>2. fate'[p] \in Rollouts /\ fate'[p] >= Trained'
      BY <1>2, <1>3, <1>5, <3>1
    <3>3. OnRecord(p)'
      BY <1>6, <3>2 DEF AllOnRecord
    <3> QED  BY <1>7, <3>3 DEF OnRecord
  <2> QED  BY <2>1, <2>2
<1> QED  BY <1>2, <1>9 DEF FilesWhole

\* The buffer file is the snapshot, and is not that of a complete checkpoint.
LEMMA WholeByWrite ==
  ASSUME PipelineInv, CallPlan, FilesSound, FilesWhole, WriteBuffer
  PROVE  FilesWhole'
<1>1. /\ at = "write" /\ at' = "cursor"
      /\ bufferFile' = Store(bufferFile, rollout, snapshot)
      /\ fateFile' = Store(fateFile, rollout, OpenBy(fate, rollout))
      /\ UNCHANGED <<cursor, rollout, cursorFile, fate>>
  BY DEF WriteBuffer, Goto, inCall, source, OpenBy
<1>2. rollout \notin DOMAIN cursorFile
  BY <1>1, NoneWrittenOver DEF Saving
<1>3. DOMAIN cursorFile \subseteq DOMAIN bufferFile /\ DOMAIN bufferFile \subseteq DOMAIN fateFile
  BY DEF PipelineInv, FileTypes, FilesSound
<1>4. /\ DOMAIN fateFile' = DOMAIN fateFile \cup {rollout}
      /\ bufferFile'[rollout] = snapshot /\ fateFile'[rollout] = OpenBy(fate, rollout)
      /\ \A r \in DOMAIN bufferFile : r # rollout => bufferFile'[r] = bufferFile[r]
      /\ \A r \in DOMAIN fateFile : r # rollout => fateFile'[r] = fateFile[r]
  BY <1>1 DEF Store
<1>5. \A p \in 1..Prompts : fateFile'[rollout][p] \in Rollouts => fateFile'[rollout][p] <= rollout
  <2>1. Open \notin Rollouts /\ rollout \in Nat /\ \A r \in Rollouts : r \in Nat
    BY PlaceTypes, SetupBounds DEF PipelineInv, ActorTypes, Rollouts
  <2>2. \A p \in 1..Prompts : OpenBy(fate, rollout)[p] \in Rollouts =>
          OpenBy(fate, rollout)[p] = fate[p] /\ ~(fate[p] > rollout)
    BY <2>1 DEF OpenBy
  <2> QED  BY <1>4, <2>1, <2>2
<1> HIDE DEF OpenBy
<1>6. \A p \in 1..Prompts :
        p <= cursor' /\ fateFile'[rollout'][p] = Open => p \in Prompt(bufferFile'[rollout'])
  BY <1>1, <1>4 DEF FilesWhole
<1>7. \A r \in DOMAIN cursorFile' : \A p \in 1..Prompts :
        p <= cursorFile'[r] /\ fateFile'[r][p] = Open => p \in Prompt(bufferFile'[r])
  BY <1>1, <1>2, <1>3, <1>4 DEF FilesWhole
<1>8. \A r \in DOMAIN fateFile' : \A p \in 1..Prompts :
        fateFile'[r][p] \in Rollouts => fateFile'[r][p] <= r
  BY <1>4, <1>5 DEF FilesWhole
<1> QED  BY <1>1, <1>6, <1>7, <1>8 DEF FilesWhole

\* Files stay whole.
LEMMA FilesWholeKept ==
  ASSUME Bookkeeping, NoRisk, NothingLost, CallsTimely, FilesWhole, [Next]_vars
  PROVE  FilesWhole'
<1>1. /\ PipelineInv /\ CallPlan /\ NothingLeft /\ PauseHolds /\ Unpreempted /\ FilesSound
  BY RiskFree DEF Bookkeeping, Discipline
<1>2. CASE Snapshot
  BY <1>2, WholeBySnapshot
<1>3. CASE WriteBuffer
  BY <1>1, <1>3, WholeByWrite
<1>4. CASE SaveCursor
  <2>1. /\ at = "cursor" /\ at' \in {"resume", "done"}
        /\ cursorFile' = Store(cursorFile, rollout, cursor)
        /\ UNCHANGED <<bufferFile, fateFile>>
    BY <1>4 DEF SaveCursor, Goto
  <2>2. /\ DOMAIN cursorFile' = DOMAIN cursorFile \cup {rollout}
        /\ cursorFile'[rollout] = cursor
        /\ \A r \in DOMAIN cursorFile : r # rollout => cursorFile'[r] = cursorFile[r]
    BY <2>1 DEF Store
  <2> QED  BY <2>1, <2>2 DEF FilesWhole
<1>5. CASE WorkerStep
  <2>1. UNCHANGED <<at, rollout, snapshot, fate, bufferFile, cursorFile, fateFile>>
    BY <1>5, WorkerFrame DEF actor, inCall, files
  <2>2. at \in Saving => UNCHANGED cursor
    BY <1>1, <1>5, StillWhileSaving
  <2> QED  BY <2>1, <2>2 DEF FilesWhole, Saving
<1>6. CASE /\ ~WorkerStep /\ ~Snapshot /\ ~WriteBuffer /\ ~SaveCursor
  <2>1. UNCHANGED <<bufferFile, cursorFile, fateFile>>
    <3>1. CASE FileStep
      BY <1>6, <3>1 DEF FileStep, Discard, Accept, OnlyCollect, LoadStep, LoadFresh,
         Load, files
    <3> QED  BY <3>1, FileFrame DEF files
  <2>2. at' \notin {"write", "cursor"} \/ UNCHANGED vars
    <3>1. CASE Generate \/ (\E r \in Rollouts : Save(r) \/ Eval(r))
      BY <3>1 DEF Generate, Save, Eval, GetGlobalWorker, CallRefused, Raise
    <3>2. CASE CollectFails \/ PauseTimesOut \/ SaveFails \/ EvalFails \/ Paused \/ Evaluated
      BY <1>1, <3>2 DEF CollectFails, PauseTimesOut, SaveFails, EvalFails, Paused,
         Evaluated, AfterPause, Raise, Goto, PipelineInv, ActorTypes, CallPlan
    <3>3. CASE PopStep
      BY <1>1, <3>3, PopMoves
    <3>4. CASE Stop \/ StopCancel \/ Joined \/ JoinTimesOut \/ RequestPause \/ Resume \/ Done
      BY <3>4 DEF Stop, StopCancel, Joined, JoinTimesOut, RequestPause, Resume, Done,
         Raise, Goto, Stopping
    <3>5. CASE Crash \/ LoadStep
      BY <1>1, <3>5 DEF Crash, LoadStep, LoadFresh, Load, NothingLeft
    <3> QED  BY <1>6, <3>1, <3>2, <3>3, <3>4, <3>5 DEF Next, CallStep, WorkerStep,
                PopStep, LoadStep
  <2>3. CASE at' \notin {"write", "cursor"}
    BY <2>1, <2>3 DEF FilesWhole
  <2>4. CASE UNCHANGED vars
    BY <2>1, <2>4 DEF vars, source, actor, inCall, FilesWhole
  <2> QED  BY <2>2, <2>3, <2>4
<1> QED  BY <1>2, <1>3, <1>4, <1>5, <1>6
\* The strengthening that the checkpoints rest on.
Wholeness == Bookkeeping /\ (NoRisk => NothingLost /\ CallsTimely /\ FilesWhole)

LEMMA WholenessStarts == Init => Wholeness
<1> SUFFICES ASSUME Init PROVE Wholeness
  OBVIOUS
<1>1. Bookkeeping /\ PipelineInv
  BY BookkeepingStarts DEF Bookkeeping, Discipline
<1>2. /\ DOMAIN active = {} /\ DOMAIN cursorFile = {} /\ DOMAIN fateFile = {}
      /\ \A p \in 1..Prompts : ~(p <= 0)
  BY EmptyMaps, SetupBounds, <1>1 DEF Init, PipelineInv
<1>3. Open \notin Rollouts
  BY <1>1, PlaceTypes
<1>4. NothingLost
  BY <1>2, <1>3 DEF Init, NothingLost, AllKept, AllOnRecord, NoneSampled
<1>5. CallsTimely /\ FilesWhole
  BY <1>2 DEF Init, CallsTimely, FilesWhole, Saving
<1> QED  BY <1>1, <1>4, <1>5 DEF Wholeness

LEMMA WholenessStep == Wholeness /\ [Next]_vars => Wholeness'
<1> SUFFICES ASSUME Wholeness, [Next]_vars PROVE Wholeness'
  OBVIOUS
<1>1. Bookkeeping /\ Bookkeeping' /\ Discipline
  BY BookkeepingStep DEF Wholeness, Bookkeeping
<1>2. NoRisk' <=> NoRisk
  BY DEF Next, vars, Risks, NoRisk
<1>3. NoRisk => NothingLost' /\ CallsTimely' /\ FilesWhole'
  BY <1>1, NothingLostKept, CallsTimelyKept, FilesWholeKept DEF Wholeness
<1> QED  BY <1>1, <1>2, <1>3 DEF Wholeness

\* Unless a rollback writes over it, no complete checkpoint holds a prompt that was
\* trained by then or given up, or one its cursor has not passed: a restart from it
\* samples no prompt again that was settled by then, whatever risks there are besides.
THEOREM CheckpointsSound ==
  Spec => [](NoRollback => \A r \in Complete : Prompt(bufferFile[r]) \subseteq Unsettled(r))
<1>1. Bookkeeping =>
        (NoRollback => \A r \in Complete : Prompt(bufferFile[r]) \subseteq Unsettled(r))
  <2> SUFFICES ASSUME Bookkeeping, NoRollback, NEW r \in Complete
               PROVE  Prompt(bufferFile[r]) \subseteq Unsettled(r)
    OBVIOUS
  <2>1. /\ PipelineInv /\ FilesSound
        /\ r \in DOMAIN bufferFile /\ r \in DOMAIN cursorFile
    BY DEF Bookkeeping, Discipline, Complete
  <2>2. /\ cursorFile[r] \in 0..Prompts /\ Prompts \in Nat
        /\ \A g \in bufferFile[r] : g.prompt \in 1..Prompts
    BY <2>1, SetupBounds DEF PipelineInv, FileTypes, Maps, Group
  <2>3. \A g \in bufferFile[r] : g.prompt \in 1..cursorFile[r] /\ fateFile[r][g.prompt] = Open
    BY <2>1, <2>2 DEF FilesSound
  <2> QED  BY <2>3 DEF Unsettled, Prompt
<1> QED  BY <1>1, BookkeepingInvariance, PTL

\* As long as the driver saves in time, evaluates before the last rollout, threads
\* are not held up and restarts take the newest checkpoint, every complete checkpoint
\* holds exactly the prompts that were read and are neither trained by then nor given
\* up: a restart from it neither skips one nor samples one again.
THEOREM CheckpointsExact == Spec => [](NoRisk => CheckpointExact /\ CheckpointComplete)
<1>1. Wholeness => (NoRisk => CheckpointExact /\ CheckpointComplete)
  <2> SUFFICES ASSUME Wholeness, NoRisk, NEW r \in Complete
               PROVE  Prompt(bufferFile[r]) = Unsettled(r)
    BY DEF CheckpointExact, CheckpointComplete
  <2>1. /\ PipelineInv /\ FilesSound /\ FilesWhole
        /\ r \in DOMAIN bufferFile /\ r \in DOMAIN cursorFile
    BY RiskFree DEF Wholeness, Bookkeeping, Discipline, Complete
  <2>2. /\ cursorFile[r] \in 0..Prompts /\ Prompts \in Nat
        /\ \A g \in bufferFile[r] : g.prompt \in 1..Prompts
    BY <2>1, SetupBounds DEF PipelineInv, FileTypes, Maps, Group
  <2>3. \A p : p \in Unsettled(r) <=>
          p \in 1..Prompts /\ p <= cursorFile[r] /\ fateFile[r][p] = Open
    BY <2>2 DEF Unsettled
  <2>4. \A p : p \in Prompt(bufferFile[r]) => p \in Unsettled(r)
    BY <2>1, <2>2, <2>3 DEF FilesSound, Prompt
  <2>5. \A p : p \in Unsettled(r) => p \in Prompt(bufferFile[r])
    BY <2>1, <2>3 DEF FilesWhole
  <2> QED  BY <2>4, <2>5
<1> QED  BY <1>1, WholenessStarts, WholenessStep, PTL DEF Spec
=============================================================================
