------------------------ MODULE RolloutPipelineProofs ------------------------
(***************************************************************************)
(* Proofs about the sampling pipeline for any dataset, number of rollouts, *)
(* batch, capacities and retry budget, and any setup: its types, that the  *)
(* queue is never full when a result is put, that a failed call leaves no  *)
(* sampler running, and (the second half) that the last rollout ends the   *)
(* sampling, that nothing moves while a call counts on the pause, and that *)
(* no clean-up is cut short.  The latter name the risk they need absent.   *)
(*                                                                         *)
(* PipelineInv is what the first ones need: a result on its way is told    *)
(* from none by its prompt.  Discipline adds which call is where and what  *)
(* it may count on.                                                        *)
(***************************************************************************)
EXTENDS RolloutPipeline, TLAPS, FiniteSetTheorems

Task == [group : Group, st : Ended \cup {"run", "cancelling", "torn"}]
Result == [id : Ids, group : Group]
Places == Awaits \cup {"reap", "record", "put", "check", "settle", "park",
                       "clear", "fill", "dead"}
Fates == [1..Prompts -> Rollouts \cup {Open, Dropped}]

\* A finite function from some of D to S.
Maps(f, D, S) ==
  /\ DOMAIN f \subseteq D /\ \A x \in DOMAIN f : f[x] \in S
  /\ f = [x \in DOMAIN f |-> f[x]]

SourceTypes ==
  /\ cursor \in 0..Prompts /\ buffer \subseteq Group
  /\ Maps(uncommitted, Ids, Group)
  /\ taken \subseteq Rollouts \X Ids

TaskTypes ==
  /\ Maps(active, Ids, Task) /\ IsFiniteSet(DOMAIN active)
  /\ publishing \in [id : Ids, group : Group, back : {"reap", "settle"}] \cup {Nothing}
  /\ queue \in Seq(Result)
  /\ nextId \in Ids /\ wpc \in Places

FlagTypes ==
  /\ worker \in BOOLEAN /\ running \in BOOLEAN /\ failed \in BOOLEAN
  /\ pausing \in BOOLEAN /\ idle \in BOOLEAN /\ interrupt \in BOOLEAN

ActorTypes ==
  /\ at \in {"free", "collect", "pause", "await", "snapshot", "write", "cursor",
             "resume", "evaluate", "stop", "cancel", "join", "done"}
  /\ call \in {"none", "generate", "save", "eval"}
  /\ rollout \in Rollouts /\ leave \in {"return", "raise"} /\ held \in BOOLEAN
  /\ got \in 0..Batch /\ nextRollout \in 0..NumRollouts
  /\ saved \in 0..NumRollouts
  /\ driver \in {"run", "late", "over", "crashed"}
  /\ snapshot \subseteq Group
  /\ at # "free" => call # "none"
  /\ at = "collect" => got < Batch

FileTypes ==
  /\ Maps(bufferFile, Rollouts, SUBSET Group)
  /\ Maps(cursorFile, Rollouts, 0..Prompts)
  /\ DOMAIN bufferFile \subseteq DOMAIN fateFile
  /\ Maps(fateFile, Rollouts, Fates)
  /\ fate \in Fates

\* There is a result on its way exactly between the reaping and the queue.
OnItsWay == publishing # Nothing <=> wpc \in {"record", "put"}

\* A worker that a call has stopped stays stopped, and so does the one of a
\* call that raised.
Stopped ==
  /\ at \in {"cancel", "join"} => ~running
  /\ driver \in {"late", "over"} => ~running

\* The inductive invariant.
PipelineInv ==
  /\ setup \in Setups
  /\ SourceTypes /\ TaskTypes /\ FlagTypes /\ ActorTypes /\ FileTypes
  /\ OnItsWay /\ QueueWithinBound /\ Stopped
-----------------------------------------------------------------------------
(***************************************************************************)
(* What the constants give.                                                *)
(***************************************************************************)

\* The bounds of a setup are numbers, and a batch is at least one group.
LEMMA SetupBounds ==
  ASSUME setup \in Setups
  PROVE  /\ MaxActive \in Nat /\ QueueMax \in Nat
         /\ Batch \in Nat \ {0} /\ NumRollouts \in Nat \ {0}
         /\ Prompts \in Nat /\ MaxRetries \in Nat
BY PipelineAssumption DEF SetupType, MaxActive, QueueMax

\* Storing a value and leaving out keys keep a map's keys and values in place.
LEMMA StoreMaps ==
  ASSUME NEW D, NEW S, NEW f, Maps(f, D, S), NEW k \in D, NEW v \in S
  PROVE  Maps(Store(f, k, v), D, S)
BY DEF Maps, Store

LEMMA WithoutMaps ==
  ASSUME NEW D, NEW S, NEW f, Maps(f, D, S), NEW K
  PROVE  Maps(Without(f, K), D, S)
BY DEF Maps, Without, Restrict

LEMMA EmptyMaps ==
  ASSUME NEW D, NEW S
  PROVE  Maps(Empty, D, S) /\ DOMAIN Empty = {}
BY DEF Maps, Empty
-----------------------------------------------------------------------------
(***************************************************************************)
(* The data source.                                                        *)
(***************************************************************************)

\* These actions alone change the data source.
LoadStep == LoadFresh \/ \E r \in Rollouts : Load(r)
PopStep == RetryFailed \/ Discard \/ SendBackStale \/ Accept
SourceStep == Record \/ Settle \/ Fetch \/ PopStep \/ Snapshot \/ Crash \/ LoadStep

LEMMA SourceFrame ==
  ASSUME [Next]_vars
  PROVE  SourceStep \/ UNCHANGED source
<1>1. CASE LoopStep
  BY <1>1 DEF LoopStep, SourceStep, source, Warmed, Reap, Reaped, Enqueue, SeePause,
     SeeNoPause, Quiesced, Settled, Park, Unpark, Filled, Wake, LoopEnds, LoopDone
<1>2. CASE LoopRaises \/ Interrupted \/ \E i \in DOMAIN active : EpisodeEnds(i)
  BY <1>2 DEF source, LoopRaises, Interrupted, EpisodeEnds
<1>3. CASE CallStep
  BY <1>3 DEF CallStep, SourceStep, PopStep, source, Generate, CollectFails, Done,
     RequestPause, Paused, PauseTimesOut, Resume, Save, Eval, WriteBuffer, SaveCursor,
     SaveFails, Evaluated, EvalFails, Stop, StopCancel, Joined, JoinTimesOut
<1>4. CASE Crash \/ LoadFresh \/ \E r \in Rollouts : Load(r)
  BY <1>4 DEF SourceStep, LoadStep
<1>5. CASE UNCHANGED vars
  BY <1>5 DEF vars, source
<1> QED  BY <1>1, <1>2, <1>3, <1>4, <1>5 DEF Next

\* The group that is popped is one the worker has queued.
LEMMA PoppedTypes ==
  ASSUME TaskTypes, queue # <<>>
  PROVE  /\ Popped \in Result
         /\ Tail(queue) \in Seq(Result) /\ Len(Tail(queue)) = Len(queue) - 1
BY DEF TaskTypes, Popped

LEMMA SourceKept ==
  ASSUME PipelineInv, [Next]_vars
  PROVE  SourceTypes'
<1>. USE DEF PipelineInv
<1>1. CASE UNCHANGED source
  BY <1>1 DEF SourceTypes, source, Maps
<1>2. CASE Record
  <2>1. publishing.id \in Ids /\ publishing.group \in Group
    BY <1>2 DEF Record, Step, OnItsWay, TaskTypes
  <2> QED  BY <1>2, <2>1, StoreMaps DEF Record, SourceTypes
<1>3. CASE Settle
  BY <1>3 DEF Settle, SourceTypes, TaskTypes, Task, Maps
<1>4. CASE Fetch
  BY <1>4, SetupBounds DEF Fetch, NextGroup, SourceTypes, Group, Maps
<1>5. CASE PopStep
  <2>1. Popped \in Result
    BY <1>5, PoppedTypes DEF PopStep, RetryFailed, Discard, SendBackStale, Accept, Pop
  <2>2. CASE RetryFailed
    <3>1. [Popped.group EXCEPT !.tries = @ + 1] \in Group
      BY <2>1, <2>2, SetupBounds DEF RetryFailed, Result, Group
    <3> QED  BY <2>2, <3>1, WithoutMaps DEF RetryFailed, RetryCompleted, OnlyCollect,
                SourceTypes
  <2>3. CASE SendBackStale
    BY <2>1, <2>3, WithoutMaps DEF SendBackStale, RetryCompleted, OnlyCollect,
       SourceTypes, Result
  <2>4. CASE Discard
    BY <2>1, <2>4, WithoutMaps DEF Discard, DiscardCompleted, OnlyCollect, SourceTypes
  <2>5. CASE Accept
    BY <2>1, <2>5 DEF Accept, OnlyCollect, SourceTypes, ActorTypes, Result, Maps
  <2> QED  BY <1>5, <2>2, <2>3, <2>4, <2>5 DEF PopStep
<1>6. CASE Snapshot
  BY <1>6, WithoutMaps DEF Snapshot, SourceTypes
<1>7. CASE Crash
  BY <1>7, EmptyMaps, SetupBounds DEF Crash, SourceTypes
<1>8. CASE LoadStep
  BY <1>8, SetupBounds DEF LoadStep, LoadFresh, Load, Loadable, Complete, SourceTypes,
     FileTypes, Maps
<1> QED  BY <1>1, <1>2, <1>3, <1>4, <1>5, <1>6, <1>7, <1>8, SourceFrame DEF SourceStep
-----------------------------------------------------------------------------
(***************************************************************************)
(* The worker's tasks, the result on its way, and the queue.               *)
(***************************************************************************)

\* These actions alone change the tasks or move the worker thread.
LoopMoves ==
  \/ Warmed \/ Reaped \/ SeeNoPause \/ Quiesced \/ Settled
  \/ Park \/ Unpark \/ Filled \/ Wake
TaskStep ==
  \/ Reap \/ Enqueue \/ Settle \/ Fetch
  \/ SeePause \/ LoopEnds \/ LoopRaises \/ Interrupted \/ LoopDone
  \/ \E i \in DOMAIN active : EpisodeEnds(i)
  \/ PopStep

\* A worker is as __init__ leaves it.
Renewed == FreshWorker /\ wpc' \in {"warming", "dead"}

LEMMA TaskFrame ==
  ASSUME [Next]_vars
  PROVE  \/ TaskStep \/ Renewed
         \/ UNCHANGED tasks /\ (wpc' = wpc \/ Record \/ LoopMoves)
<1>1. CASE LoopStep
  <2>1. LoopMoves \/ Record => UNCHANGED tasks
    BY DEF LoopMoves, tasks, Warmed, Reaped, SeeNoPause, Quiesced, Settled, Park,
       Unpark, Filled, Wake, Record
  <2> QED  BY <1>1, <2>1 DEF LoopStep, TaskStep, LoopMoves
<1>2. CASE LoopRaises \/ Interrupted \/ \E i \in DOMAIN active : EpisodeEnds(i)
  BY <1>2 DEF TaskStep
<1>3. CASE CallStep
  BY <1>3 DEF CallStep, TaskStep, PopStep, tasks, sampler, Renewed, GetGlobalWorker,
     NewWorker, NoWorker, CallRefused, Generate, CollectFails, Done, RequestPause,
     Paused, PauseTimesOut, Resume, Save, Eval, Snapshot, WriteBuffer, SaveCursor,
     SaveFails, Evaluated, EvalFails, Stop, StopCancel, Joined, JoinTimesOut
<1>4. CASE Crash \/ LoadFresh \/ \E r \in Rollouts : Load(r)
  BY <1>4 DEF Crash, LoadFresh, Load, NoWorker, Renewed, sampler, tasks
<1>5. CASE UNCHANGED vars
  BY <1>5 DEF vars, sampler, tasks
<1> QED  BY <1>1, <1>2, <1>3, <1>4, <1>5 DEF Next

\* Of the maps of the tasks: what stays in flight after each kind of step.
LEMMA ActiveFacts ==
  ASSUME TaskTypes
  PROVE  /\ Cardinality(DOMAIN active) \in Nat
         /\ \A i \in DOMAIN active :
              /\ i \in Ids /\ active[i] \in Task
              /\ active[i].group \in Group
              /\ Maps(Without(active, {i}), Ids, Task)
              /\ IsFiniteSet(DOMAIN Without(active, {i}))
              /\ Cardinality(DOMAIN Without(active, {i})) = Cardinality(DOMAIN active) - 1
<1>1. Cardinality(DOMAIN active) \in Nat
  BY FS_CardinalityType DEF TaskTypes
<1>2. ASSUME NEW i \in DOMAIN active
      PROVE  /\ i \in Ids /\ active[i] \in Task
             /\ active[i].group \in Group
             /\ Maps(Without(active, {i}), Ids, Task)
             /\ IsFiniteSet(DOMAIN Without(active, {i}))
             /\ Cardinality(DOMAIN Without(active, {i})) = Cardinality(DOMAIN active) - 1
  <2>1. i \in Ids /\ active[i] \in Task
    BY DEF TaskTypes, Maps
  <2>2. active[i].group \in Group
    BY <2>1 DEF Task
  <2>3. /\ Maps(Without(active, {i}), Ids, Task)
        /\ DOMAIN Without(active, {i}) = DOMAIN active \ {i}
    <3>1. Maps(active, Ids, Task)
      BY DEF TaskTypes
    <3>2. Maps(Without(active, {i}), Ids, Task)
      BY <3>1, WithoutMaps
    <3>3. DOMAIN Without(active, {i}) = DOMAIN active \ {i}
      BY DEF Without, Restrict
    <3> QED  BY <3>2, <3>3
  <2>4. /\ IsFiniteSet(DOMAIN active \ {i})
        /\ Cardinality(DOMAIN active \ {i}) = Cardinality(DOMAIN active) - 1
    BY FS_RemoveElement DEF TaskTypes
  <2> QED  BY <2>1, <2>2, <2>3, <2>4
<1> QED  BY <1>1, <1>2

\* Cancelling changes where episodes are, not which there are.
SameEpisodes ==
  /\ DOMAIN active' = DOMAIN active
  /\ Maps(active', Ids, Task)

LEMMA CancelKeeps ==
  ASSUME TaskTypes, CancelActive
  PROVE  SameEpisodes
<1>1. ASSUME NEW i \in DOMAIN active
      PROVE  /\ i \in Ids /\ active[i] \in Task
             /\ [active[i] EXCEPT !.st = "cancelling"] \in Task
  BY ActiveFacts DEF Task
<1> QED  BY <1>1 DEF SameEpisodes, CancelActive, Maps

LEMMA InterruptKeeps ==
  ASSUME TaskTypes, Interrupted
  PROVE  SameEpisodes
<1>1. ASSUME NEW i \in DOMAIN active
      PROVE  /\ i \in Ids /\ active[i] \in Task
             /\ [active[i] EXCEPT !.st = "cancelling"] \in Task
             /\ [active[i] EXCEPT !.st = "torn"] \in Task
  BY ActiveFacts DEF Task
<1> DEFINE After(i) == CASE active[i].st = "run" -> [active[i] EXCEPT !.st = "cancelling"]
                         [] active[i].st = "cancelling" /\ wpc = "cleanup" ->
                              [active[i] EXCEPT !.st = "torn"]
                         [] OTHER -> active[i]
<1>2. \A i \in DOMAIN active : After(i) \in Task
  BY <1>1
<1>3. active' = [i \in DOMAIN active |-> After(i)]
  BY DEF Interrupted
<1> HIDE DEF After
<1> QED  BY <1>1, <1>2, <1>3 DEF SameEpisodes, Maps

LEMMA EpisodeKeeps ==
  ASSUME TaskTypes, NEW i \in DOMAIN active, EpisodeEnds(i)
  PROVE  SameEpisodes
<1>1. PICK st \in Ended : active' = [active EXCEPT ![i].st = st]
  BY DEF EpisodeEnds, Mark, Ended
<1>2. [active[i] EXCEPT !.st = st] \in Task
  BY ActiveFacts DEF Task
<1>3. \A k \in DOMAIN active : k \in Ids /\ active[k] \in Task
  BY ActiveFacts
<1> QED  BY <1>1, <1>2, <1>3 DEF SameEpisodes, Maps

\* A result on its way is not Nothing: its prompt is a prompt.
LEMMA ResultOnItsWay ==
  ASSUME TaskTypes, NEW i \in DOMAIN active, NEW back \in {"reap", "settle"}
  PROVE  /\ [id |-> i, group |-> active[i].group, back |-> back]
              \in [id : Ids, group : Group, back : {"reap", "settle"}]
         /\ [id |-> i, group |-> active[i].group, back |-> back] # Nothing
<1>1. i \in Ids /\ active[i].group \in Group
  BY ActiveFacts
<1>2. active[i].group.prompt # 0
  BY <1>1, SetupBounds, PipelineAssumption DEF Group
<1>3. Nothing.group.prompt = 0
  BY DEF Nothing
<1> QED  BY <1>1, <1>2, <1>3

\* These are kept together: the bound counts the episodes, the result on its
\* way and the queue.
Sampling == TaskTypes /\ OnItsWay /\ QueueWithinBound

LEMMA SamplingKept ==
  ASSUME PipelineInv, [Next]_vars
  PROVE  Sampling'
<1>. USE DEF PipelineInv
<1>1. setup' = setup /\ QueueMax' = QueueMax /\ QueueMax \in Nat
  BY SetupBounds DEF Next, vars, QueueMax
<1>2. Len(queue) \in Nat /\ Cardinality(DOMAIN active) \in Nat
  BY ActiveFacts DEF TaskTypes
<1>3. ASSUME SameEpisodes, UNCHANGED <<publishing, queue, nextId>>,
             wpc' \in Places \ {"record", "put"}, wpc \notin {"record", "put"}
      PROVE  Sampling'
  BY <1>1, <1>3 DEF Sampling, SameEpisodes, TaskTypes, OnItsWay, QueueWithinBound
<1>4. ASSUME NEW i \in DOMAIN active, NEW back \in {"reap", "settle"},
              active' = Without(active, {i}), publishing = Nothing,
              UNCHANGED <<queue, nextId>>,
              \/ /\ publishing' = [id |-> i, group |-> active[i].group, back |-> back]
                 /\ wpc' = "record"
              \/ wpc' \in {"check", "settle"} /\ publishing' = publishing
      PROVE  Sampling'
  <2>1. /\ Maps(active', Ids, Task) /\ IsFiniteSet(DOMAIN active')
        /\ Cardinality(DOMAIN active') = Cardinality(DOMAIN active) - 1
    BY <1>4, ActiveFacts
  <2>2. TaskTypes' /\ OnItsWay'
    BY <1>4, <2>1, ResultOnItsWay DEF TaskTypes, OnItsWay, Places
  <2>3. QueueWithinBound'
    BY <1>1, <1>2, <1>4, <2>1 DEF QueueWithinBound
  <2> QED  BY <2>2, <2>3 DEF Sampling
<1>5. CASE UNCHANGED tasks /\ (wpc' = wpc \/ Record \/ LoopMoves)
  <2>1. wpc' \in Places /\ (wpc \in {"record", "put"} <=> wpc' \in {"record", "put"})
    BY <1>5 DEF LoopMoves, Record, Step, Warmed, Reaped, SeeNoPause, Quiesced, Settled,
       Park, Unpark, Filled, Wake, TaskTypes, Places, Awaits
  <2> QED  BY <1>1, <1>5, <2>1 DEF Sampling, tasks, TaskTypes, OnItsWay,
              QueueWithinBound, Maps
<1>6. CASE Renewed
  <2>1. /\ active' = Empty /\ publishing' = Nothing /\ queue' = <<>> /\ nextId' = 0
        /\ wpc' \in {"warming", "dead"}
    BY <1>6 DEF Renewed, FreshWorker
  <2>2. Maps(active', Ids, Task) /\ DOMAIN active' = {}
    BY <2>1, EmptyMaps
  <2>3. IsFiniteSet({}) /\ Cardinality({}) = 0
    BY FS_EmptySet
  <2>4. TaskTypes' /\ OnItsWay'
    BY <2>1, <2>2, <2>3 DEF TaskTypes, OnItsWay, Places, Awaits, Ids
  <2>5. QueueWithinBound'
    BY <1>1, <2>1, <2>2, <2>3 DEF QueueWithinBound
  <2> QED  BY <2>4, <2>5 DEF Sampling
<1>7. CASE Reap
  <2>1. PICK i \in DOMAIN active :
          /\ active' = Without(active, {i})
          /\ \/ /\ publishing' = [id |-> i, group |-> active[i].group, back |-> "reap"]
                /\ wpc' = "record"
             \/ wpc' = "check" /\ publishing' = publishing
    BY <1>7 DEF Reap
  <2>2. publishing = Nothing /\ UNCHANGED <<queue, nextId>>
    BY <1>7 DEF Reap, OnItsWay
  <2> QED  BY <1>1, <2>1, <2>2, <1>4
<1>8. CASE Enqueue
  <2>1. /\ publishing # Nothing
        /\ publishing \in [id : Ids, group : Group, back : {"reap", "settle"}]
        /\ wpc' \in {"reap", "settle"}
        /\ queue' = Append(queue, [id |-> publishing.id, group |-> publishing.group])
        /\ publishing' = Nothing /\ UNCHANGED <<active, nextId>>
    BY <1>8 DEF Enqueue, Step, OnItsWay, TaskTypes
  <2>2. [id |-> publishing.id, group |-> publishing.group] \in Result
    BY <2>1 DEF Result
  <2>3. queue' \in Seq(Result) /\ Len(queue') = Len(queue) + 1
    BY <2>1, <2>2 DEF TaskTypes
  <2>4. TaskTypes' /\ OnItsWay'
    BY <2>1, <2>3 DEF TaskTypes, OnItsWay, Places
  <2>5. QueueWithinBound'
    BY <1>1, <1>2, <2>1, <2>3 DEF QueueWithinBound
  <2> QED  BY <2>4, <2>5 DEF Sampling
<1>9. CASE Settle
  <2>1. PICK i \in DOMAIN active :
          /\ active' = Without(active, {i})
          /\ \/ /\ publishing' = [id |-> i, group |-> active[i].group, back |-> "settle"]
                /\ wpc' = "record"
             \/ wpc' = wpc /\ publishing' = publishing
    BY <1>9 DEF Settle
  <2>2. publishing = Nothing /\ wpc = "settle" /\ UNCHANGED <<queue, nextId>>
    BY <1>9 DEF Settle, OnItsWay
  <2> QED  BY <1>1, <2>1, <2>2, <1>4
<1>10. CASE Fetch
  <2>1. PICK g \in Group : active' = Store(active, nextId, [group |-> g, st |-> "run"])
    BY <1>10 DEF Fetch
  <2>2. /\ UNCHANGED <<wpc, publishing, queue>> /\ nextId' = nextId + 1
        /\ wpc = "fill" /\ publishing = Nothing
        /\ Len(queue) + Cardinality(DOMAIN active) < QueueMax
    BY <1>10 DEF Fetch, MayFetch, OnItsWay
  <2>3. [group |-> g, st |-> "run"] \in Task /\ nextId \in Ids
    BY DEF Task, TaskTypes
  <2>4. Maps(active', Ids, Task) /\ DOMAIN active' = DOMAIN active \cup {nextId}
    <3>1. Maps(active, Ids, Task)
      BY DEF TaskTypes
    <3>2. Maps(Store(active, nextId, [group |-> g, st |-> "run"]), Ids, Task)
      BY <2>3, <3>1, StoreMaps
    <3>3. DOMAIN Store(active, nextId, [group |-> g, st |-> "run"])
            = DOMAIN active \cup {nextId}
      BY DEF Store
    <3> QED  BY <2>1, <3>2, <3>3
  <2>5. /\ IsFiniteSet(DOMAIN active')
        /\ Cardinality(DOMAIN active') \in Nat
        /\ Cardinality(DOMAIN active') <= Cardinality(DOMAIN active) + 1
    <3>1. IsFiniteSet(DOMAIN active)
      BY DEF TaskTypes
    <3>2. /\ IsFiniteSet(DOMAIN active \cup {nextId})
          /\ \/ Cardinality(DOMAIN active \cup {nextId}) = Cardinality(DOMAIN active)
             \/ Cardinality(DOMAIN active \cup {nextId}) = Cardinality(DOMAIN active) + 1
      BY <3>1, FS_AddElement
    <3> QED  BY <1>2, <2>4, <3>2
  <2>6. TaskTypes' /\ OnItsWay'
    BY <2>2, <2>3, <2>4, <2>5 DEF TaskTypes, OnItsWay, Ids
  <2>7. QueueWithinBound'
    BY <1>1, <1>2, <2>2, <2>5 DEF QueueWithinBound
  <2> QED  BY <2>6, <2>7 DEF Sampling
<1>11. CASE SeePause \/ LoopEnds \/ LoopRaises
  <2>1. SameEpisodes
    BY <1>11, CancelKeeps DEF SeePause, LoopEnds, LoopRaises
  <2> QED  BY <1>3, <1>11, <2>1 DEF SeePause, LoopEnds, LoopRaises, Step, Places, Awaits
<1>12. CASE Interrupted
  BY <1>3, <1>12, InterruptKeeps DEF Interrupted, Places, Awaits
<1>13. CASE LoopDone
  <2>1. /\ active' = Empty /\ publishing = Nothing /\ wpc' = "dead"
        /\ UNCHANGED <<publishing, queue, nextId>>
    BY <1>13 DEF LoopDone, Step, OnItsWay
  <2>2. Maps(active', Ids, Task) /\ DOMAIN active' = {}
    BY <2>1, EmptyMaps
  <2>3. IsFiniteSet({}) /\ Cardinality({}) = 0
    BY FS_EmptySet
  <2>4. TaskTypes' /\ OnItsWay'
    BY <2>1, <2>2, <2>3 DEF TaskTypes, OnItsWay, Places
  <2>5. QueueWithinBound'
    BY <1>1, <1>2, <2>1, <2>2, <2>3 DEF QueueWithinBound
  <2> QED  BY <2>4, <2>5 DEF Sampling
<1>14. CASE \E i \in DOMAIN active : EpisodeEnds(i)
  BY <1>3, <1>14, EpisodeKeeps DEF EpisodeEnds, Places, Awaits
<1>15. CASE PopStep
  <2>1. /\ queue # <<>> /\ queue' = Tail(queue)
        /\ UNCHANGED <<wpc, active, publishing, nextId>>
    BY <1>15 DEF PopStep, RetryFailed, Discard, SendBackStale, Accept, Pop, OnlyCollect
  <2>2. queue' \in Seq(Result) /\ Len(queue') = Len(queue) - 1
    BY <2>1, PoppedTypes
  <2>3. TaskTypes' /\ OnItsWay'
    BY <2>1, <2>2 DEF TaskTypes, OnItsWay
  <2>4. QueueWithinBound'
    BY <1>1, <1>2, <2>1, <2>2 DEF QueueWithinBound
  <2> QED  BY <2>3, <2>4 DEF Sampling
<1> QED  BY <1>5, <1>6, <1>7, <1>8, <1>9, <1>10, <1>11, <1>12, <1>13, <1>14, <1>15,
            TaskFrame DEF TaskStep
-----------------------------------------------------------------------------
(***************************************************************************)
(* The flags the threads share, and the calls.                             *)
(***************************************************************************)
LEMMA FlagsKept ==
  ASSUME PipelineInv, [Next]_vars
  PROVE  FlagTypes'
<1>. USE DEF PipelineInv, FlagTypes
<1>1. CASE LoopStep
  BY <1>1 DEF LoopStep, OnlyLoop, flags, PublishFailure, Warmed, Reap, Reaped, Record,
     Enqueue, SeePause, SeeNoPause, Quiesced, Settle, Settled, Park, Unpark, Fetch,
     Filled, Wake, LoopEnds, LoopDone
<1>2. CASE LoopRaises \/ Interrupted \/ \E i \in DOMAIN active : EpisodeEnds(i)
  BY <1>2 DEF flags, LoopRaises, Interrupted, EpisodeEnds, OnlyLoop, PublishFailure
<1>3. CASE CallStep
  BY <1>3 DEF CallStep, flags, sampler, GetGlobalWorker, NewWorker, NoWorker,
     FreshWorker, CallRefused, Generate, CollectFails, Done, RequestPause, Paused,
     PauseTimesOut, Resume, ResumeFlags, Save, Eval, Snapshot, WriteBuffer, SaveCursor,
     SaveFails, Evaluated, EvalFails, Stop, StopCancel, Joined, JoinTimesOut,
     RetryFailed, Discard, SendBackStale, Accept, OnlyCollect
<1>4. CASE Crash \/ LoadFresh \/ \E r \in Rollouts : Load(r)
  BY <1>4 DEF Crash, LoadFresh, Load, NoWorker, FreshWorker, sampler, flags
<1>5. CASE UNCHANGED vars
  BY <1>5 DEF vars, sampler, flags
<1> QED  BY <1>1, <1>2, <1>3, <1>4, <1>5 DEF Next

\* The steps of the loop and of the episodes leave the calls and the files alone.
WorkerStep ==
  LoopStep \/ LoopRaises \/ Interrupted \/ \E i \in DOMAIN active : EpisodeEnds(i)

LEMMA WorkerFrame ==
  ASSUME WorkerStep
  PROVE  UNCHANGED <<worker, actor, files, fate>>
<1>1. CASE LoopStep
  BY <1>1 DEF LoopStep, OnlyLoop, Warmed, Reap, Reaped, Record, Enqueue, SeePause,
     SeeNoPause, Quiesced, Settle, Settled, Park, Unpark, Fetch, Filled, Wake, LoopEnds,
     LoopDone
<1>2. CASE LoopRaises \/ Interrupted \/ \E i \in DOMAIN active : EpisodeEnds(i)
  BY <1>2 DEF OnlyLoop, LoopRaises, Interrupted, EpisodeEnds
<1> QED  BY <1>1, <1>2 DEF WorkerStep

\* What a call starts from and leaves behind.
LEMMA Zeros ==
  ASSUME setup \in Setups
  PROVE  /\ 0 \in Rollouts /\ 0 \in 0..Batch /\ 0 \in 0..NumRollouts
         /\ {} \subseteq Group
         /\ \A r \in Rollouts : r + 1 \in 0..NumRollouts
BY SetupBounds DEF Rollouts

LEMMA ReadAheadTypes ==
  ASSUME NEW f, Maps(f, Ids, Group), buffer \subseteq Group
  PROVE  ReadAhead(f) \subseteq Group
BY DEF Maps, ReadAhead, Range

\* The sampler is never started again once a call has raised.
Calling == ActorTypes /\ Stopped

LEMMA CallingKept ==
  ASSUME PipelineInv, [Next]_vars
  PROVE  Calling'
<1>. USE DEF PipelineInv
<1>1. CASE WorkerStep
  <2>1. UNCHANGED actor
    BY <1>1, WorkerFrame
  <2>2. running' = running \/ ~running'
    BY <1>1 DEF WorkerStep, LoopStep, OnlyLoop, flags, PublishFailure, Warmed, Reap,
       Reaped, Record, Enqueue, SeePause, SeeNoPause, Quiesced, Settle, Settled, Park,
       Unpark, Fetch, Filled, Wake, LoopEnds, LoopDone, LoopRaises, Interrupted,
       EpisodeEnds
  <2> QED  BY <2>1, <2>2 DEF Calling, ActorTypes, Stopped, actor, inCall
<1>2. CASE Generate
  BY <1>2, SetupBounds DEF Generate, GetGlobalWorker, CallRefused, Raise, NewWorker,
     sampler, flags, Calling, ActorTypes, Stopped, Rollouts
<1>3. CASE \E r \in Rollouts : Save(r)
  <2>1. Alive \in BOOLEAN
    BY DEF Alive, FlagTypes
  <2>2. held' \in BOOLEAN
    BY <1>3, <2>1 DEF Save, ActorTypes
  <2>3. /\ at' \in {"stop", "pause", "snapshot"} /\ leave' \in {"return", "raise"}
        /\ call' = "save" /\ rollout' \in Rollouts
        /\ UNCHANGED <<running, got, nextRollout, saved, driver, snapshot>>
    BY <1>3 DEF Save, Raise, sampler, flags, ActorTypes
  <2> QED  BY <2>2, <2>3 DEF Calling, ActorTypes, Stopped
<1>4. CASE \E r \in Rollouts : Eval(r)
  BY <1>4, SetupBounds DEF Eval, GetGlobalWorker, CallRefused, Raise, NewWorker,
     sampler, flags, Calling, ActorTypes, Stopped
<1>5. CASE CollectFails \/ PauseTimesOut \/ SaveFails \/ EvalFails \/ Evaluated \/ Paused
  BY <1>5 DEF CollectFails, PauseTimesOut, SaveFails, EvalFails, Evaluated, Paused,
     AfterPause, Raise, Goto, sampler, flags, inCall, Calling, ActorTypes, Stopped
<1>6. CASE RetryFailed \/ Discard \/ SendBackStale
  BY <1>6 DEF RetryFailed, Discard, SendBackStale, OnlyCollect, flags, Calling,
     ActorTypes, Stopped
<1>7. CASE Accept
  BY <1>7, SetupBounds DEF Accept, Pop, OnlyCollect, AfterBatch, Raise, flags, Calling,
     ActorTypes, Stopped
<1>8. CASE Done
  BY <1>8, Zeros DEF Done, Goto, EndCall, sampler, flags, Calling, ActorTypes, Stopped
<1>9. CASE RequestPause \/ Resume \/ WriteBuffer \/ SaveCursor
  BY <1>9 DEF RequestPause, Resume, WriteBuffer, SaveCursor, Goto, inCall, sampler,
     flags, Calling, ActorTypes, Stopped
<1>10. CASE Snapshot
  <2>1. Maps(uncommitted', Ids, Group) /\ buffer \subseteq Group
    BY <1>10, WithoutMaps DEF Snapshot, SourceTypes
  <2>2. snapshot' \subseteq Group
    BY <1>10, <2>1, ReadAheadTypes DEF Snapshot
  <2> QED  BY <1>10, <2>2 DEF Snapshot, Goto, sampler, flags, Calling, ActorTypes,
              Stopped
<1>11. CASE Stop \/ StopCancel
  BY <1>11 DEF Stop, StopCancel, Goto, inCall, Calling, ActorTypes, Stopped
<1>12. CASE Joined \/ JoinTimesOut
  <2>1. /\ at = "join" /\ ~running'
        /\ UNCHANGED <<nextRollout, saved>>
    BY <1>12 DEF Joined, JoinTimesOut, EndCall, NoWorker, sampler, flags, ActorTypes,
       Raise, Stopped
  <2>2. \/ at' \in {"done", "stop"} /\ leave' \in {"return", "raise"}
           /\ UNCHANGED <<call, rollout, held, got, driver, snapshot>>
        \/ at' = "free" /\ EndCall /\ driver' \in {"late", "over"}
    BY <1>12 DEF Joined, JoinTimesOut, Raise, AfterRaise, ActorTypes
  <2> QED  BY <2>1, <2>2, Zeros DEF EndCall, Calling, ActorTypes, Stopped
<1>13. CASE Crash
  BY <1>13, Zeros DEF Crash, EndCall, NoWorker, Calling, ActorTypes, Stopped
<1>14. CASE LoadFresh \/ \E r \in Rollouts : Load(r)
  BY <1>14, Zeros DEF LoadFresh, Load, sampler, flags, Calling, ActorTypes, Stopped
<1>15. CASE UNCHANGED vars
  BY <1>15 DEF vars, sampler, flags, actor, inCall, Calling, ActorTypes, Stopped
<1> QED  BY <1>1, <1>2, <1>3, <1>4, <1>5, <1>6, <1>7, <1>8, <1>9, <1>10, <1>11, <1>12,
            <1>13, <1>14, <1>15 DEF Next, CallStep, WorkerStep
-----------------------------------------------------------------------------
(***************************************************************************)
(* The checkpoint files.                                                   *)
(***************************************************************************)
FileStep == WriteBuffer \/ SaveCursor \/ Discard \/ Accept \/ LoadStep

LEMMA FileFrame ==
  ASSUME [Next]_vars
  PROVE  FileStep \/ UNCHANGED <<files, fate>>
<1>1. CASE WorkerStep
  BY <1>1, WorkerFrame
<1>2. CASE CallStep
  BY <1>2 DEF CallStep, FileStep, OnlyActor, OnlyCollect, Generate, CollectFails, Done,
     RequestPause, Paused, PauseTimesOut, Resume, Save, Eval, Snapshot, SaveFails,
     Evaluated, EvalFails, Stop, StopCancel, Joined, JoinTimesOut, RetryFailed,
     SendBackStale, files
<1>3. CASE Crash \/ LoadFresh \/ \E r \in Rollouts : Load(r)
  BY <1>3 DEF FileStep, LoadStep, Crash
<1>4. CASE UNCHANGED vars
  BY <1>4 DEF vars
<1> QED  BY <1>1, <1>2, <1>3, <1>4 DEF Next, WorkerStep

LEMMA FilesKept ==
  ASSUME PipelineInv, [Next]_vars
  PROVE  FileTypes'
<1>. USE DEF PipelineInv
<1>1. CASE UNCHANGED <<files, fate>>
  BY <1>1 DEF files, FileTypes, Maps
<1>2. CASE WriteBuffer
  <2>1. rollout \in Rollouts /\ snapshot \in SUBSET Group
    BY DEF ActorTypes
  <2> DEFINE f == [p \in 1..Prompts |-> IF fate[p] \in Rollouts /\ fate[p] > rollout
                                        THEN Open ELSE fate[p]]
  <2>2. f \in Fates
    BY DEF FileTypes, Fates
  <2>3. /\ bufferFile' = Store(bufferFile, rollout, snapshot)
        /\ fateFile' = Store(fateFile, rollout, f)
        /\ UNCHANGED <<cursorFile, fate>>
    BY <1>2 DEF WriteBuffer
  <2> HIDE DEF f
  <2>4. Maps(bufferFile', Rollouts, SUBSET Group) /\ Maps(fateFile', Rollouts, Fates)
    BY <2>1, <2>2, <2>3, StoreMaps DEF FileTypes
  <2>5. DOMAIN bufferFile' \subseteq DOMAIN fateFile'
    BY <2>3 DEF Store, FileTypes
  <2> QED  BY <2>3, <2>4, <2>5 DEF FileTypes, Maps
<1>3. CASE SaveCursor
  BY <1>3, StoreMaps DEF SaveCursor, ActorTypes, SourceTypes, FileTypes
<1>4. CASE Discard \/ Accept
  <2>1. UNCHANGED files
    BY <1>4 DEF Discard, Accept, OnlyCollect
  <2>2. fate' \in Fates
    BY <1>4 DEF Discard, Accept, DiscardCompleted, Fates, FileTypes, ActorTypes
  <2> QED  BY <2>1, <2>2 DEF files, FileTypes, Maps
<1>5. CASE LoadStep
  <2>1. UNCHANGED files
    BY <1>5 DEF LoadStep, LoadFresh, Load
  <2>2. fate' \in Fates
    BY <1>5 DEF LoadStep, LoadFresh, Load, Loadable, Complete, Fates, FileTypes, Maps
  <2> QED  BY <2>1, <2>2 DEF files, FileTypes, Maps
<1> QED  BY <1>1, <1>2, <1>3, <1>4, <1>5, FileFrame DEF FileStep
-----------------------------------------------------------------------------
(***************************************************************************)
(* The theorems.                                                           *)
(***************************************************************************)
LEMMA PipelineStarts == Init => PipelineInv
<1> SUFFICES ASSUME Init PROVE PipelineInv
  OBVIOUS
<1>1. setup \in Setups
  BY DEF Init
<1>2. SourceTypes
  BY SetupBounds, <1>1, EmptyMaps DEF Init, SourceTypes
<1>3. Maps(active, Ids, Task) /\ DOMAIN active = {}
  BY EmptyMaps DEF Init
<1>4. IsFiniteSet({}) /\ Cardinality({}) = 0
  BY FS_EmptySet
<1>5. TaskTypes /\ OnItsWay
  BY <1>3, <1>4 DEF Init, TaskTypes, OnItsWay, Places, Ids
<1>6. QueueWithinBound
  BY <1>1, <1>3, <1>4, SetupBounds DEF Init, QueueWithinBound
<1>7. FlagTypes
  BY DEF Init, FlagTypes
<1>8. ActorTypes /\ Stopped
  BY <1>1, Zeros DEF Init, ActorTypes, Stopped
<1>9. FileTypes
  BY EmptyMaps DEF Init, FileTypes, Fates
<1> QED  BY <1>1, <1>2, <1>5, <1>6, <1>7, <1>8, <1>9 DEF PipelineInv

LEMMA PipelineStep == PipelineInv /\ [Next]_vars => PipelineInv'
<1> SUFFICES ASSUME PipelineInv, [Next]_vars PROVE PipelineInv'
  OBVIOUS
<1>1. setup' \in Setups
  BY DEF PipelineInv, Next, vars
<1>2. SourceTypes'
  BY SourceKept
<1>3. Sampling'
  BY SamplingKept
<1>4. FlagTypes'
  BY FlagsKept
<1>5. Calling'
  BY CallingKept
<1>6. FileTypes'
  BY FilesKept
<1> QED  BY <1>1, <1>2, <1>3, <1>4, <1>5, <1>6 DEF PipelineInv, Sampling, Calling

\* The inductive invariant holds of every behaviour of the pipeline
\* (fully_async_rollout.py, persistent_data_source.py), crashes included.
THEOREM PipelineInvariance == Spec => []PipelineInv
BY PipelineStarts, PipelineStep, PTL DEF Spec

\* Every variable of the pipeline keeps its type, restarts included.
THEOREM PipelineTypes == Spec => []TypeOK
<1>1. PipelineInv => TypeOK
  <2> SUFFICES ASSUME PipelineInv PROVE TypeOK
    OBVIOUS
  <2>. USE DEF PipelineInv
  <2>1. /\ DOMAIN uncommitted \subseteq Ids /\ Range(uncommitted) \subseteq Group
        /\ DOMAIN active \subseteq Ids /\ Range(active) \subseteq Task
    BY DEF SourceTypes, TaskTypes, Maps, Range
  <2>2. /\ DOMAIN bufferFile \subseteq Rollouts /\ Range(bufferFile) \subseteq SUBSET Group
        /\ DOMAIN cursorFile \subseteq Rollouts /\ Range(cursorFile) \subseteq 0..Prompts
    BY DEF FileTypes, Maps, Range
  <2>3. {running, failed, pausing, idle, interrupt} \subseteq BOOLEAN /\ worker \in BOOLEAN
    BY DEF FlagTypes
  <2> QED  BY <2>1, <2>2, <2>3 DEF SourceTypes, TaskTypes, ActorTypes, FileTypes, Task,
              Result, Places, Fates, TypeOK
<1> QED  BY <1>1, PipelineInvariance, PTL

\* put_nowait never finds the worker's queue full, whatever the two threads do
\* in between: the room check of _loop counts the episodes in flight.
THEOREM QueueNeverOverflows == Spec => []QueueWithinBound
<1>1. PipelineInv => QueueWithinBound
  BY DEF PipelineInv
<1> QED  BY <1>1, PipelineInvariance, PTL

\* A call of the driver that has raised has stopped the sampler, and no later
\* save starts it again.
THEOREM FailureStops == Spec => []FailureStopsSampling
<1>1. PipelineInv => FailureStopsSampling
  BY DEF PipelineInv, Stopped, FailureStopsSampling
<1> QED  BY <1>1, PipelineInvariance, PTL
-----------------------------------------------------------------------------
(***************************************************************************)
(* The calls of the driver against the worker: stopping, pausing and       *)
(* cancelling.                                                             *)
(***************************************************************************)
\* The stages of stop().
Stopping == {"stop", "cancel", "join"}

\* Which call is where, how it may end, and what the driver knows meanwhile.
CallPlan ==
  /\ call = "none" <=> at = "free"
  /\ at = "collect" => call = "generate"
  /\ at \in {"snapshot", "write", "cursor"} => call = "save"
  /\ at = "evaluate" => call = "eval"
  /\ at = "resume" => call \in {"save", "eval"}
  /\ leave = "raise" => at \in Stopping
  /\ at \in Stopping /\ leave = "return" =>
       call \in {"generate", "eval"} /\ rollout + 1 = NumRollouts
  /\ at \in {"pause", "await"} /\ call = "generate" => rollout + 1 = NumRollouts
  /\ at \in {"pause", "await"} /\ call = "save" => held
  /\ call = "generate" => rollout = nextRollout
  /\ call = "eval" => rollout < nextRollout
  /\ call \in {"generate", "eval"} => driver = "run"
  /\ call = "save" =>
       driver \in {"run", "late"} /\ saved <= rollout /\ rollout < nextRollout
  /\ saved <= nextRollout

\* A thread that has ended leaves no episode, no worker leaves no thread, and
\* a process that has died leaves nothing.
NothingLeft ==
  /\ wpc = "dead" => active = Empty /\ publishing = Nothing
  /\ ~worker => /\ wpc = "dead" /\ queue = <<>> /\ ~running
                /\ ~failed /\ ~idle /\ ~pausing /\ ~interrupt
  /\ at \in {"collect", "pause", "await"} => worker
  /\ driver = "crashed" => /\ at = "free" /\ ~worker
                           /\ cursor = 0 /\ buffer = {}
                           /\ uncommitted = Empty /\ taken = {}

\* Calls follow one another: the next one comes when the last has ended.
LEMMA CallPlanKept ==
  ASSUME PipelineInv, CallPlan, [Next]_vars
  PROVE  CallPlan'
<1>. USE DEF PipelineInv, ActorTypes
<1>1. CASE WorkerStep
  BY <1>1, WorkerFrame DEF actor, inCall, CallPlan, Stopping
<1>2. CASE Generate
  BY <1>2 DEF Generate, GetGlobalWorker, CallRefused, Raise, CallPlan, Stopping
<1>3. CASE \E r \in Rollouts : Save(r)
  <2>1. PICK r \in Rollouts : Save(r)
    BY <1>3
  <2>2. \/ at' = "stop" /\ leave' = "raise"
        \/ at' = "pause" /\ leave' = "return" /\ held' = TRUE
        \/ at' = "snapshot" /\ leave' = "return"
    BY <2>1 DEF Save, Raise, Alive
  <2> QED  BY <2>1, <2>2 DEF Save, CallPlan, Stopping
<1>4. CASE \E r \in Rollouts : Eval(r)
  BY <1>4 DEF Eval, GetGlobalWorker, CallRefused, Raise, CallPlan, Stopping
<1>5. CASE CollectFails \/ PauseTimesOut \/ SaveFails \/ EvalFails
  BY <1>5 DEF CollectFails, PauseTimesOut, SaveFails, EvalFails, Raise, inCall,
     CallPlan, Stopping
<1>6. CASE RetryFailed \/ Discard \/ SendBackStale
  BY <1>6 DEF RetryFailed, Discard, SendBackStale, OnlyCollect, CallPlan
<1>7. CASE Accept
  BY <1>7, SetupBounds DEF Accept, Pop, OnlyCollect, AfterBatch, Raise, CallPlan,
     Stopping, Rollouts
<1>8. CASE Done
  BY <1>8, SetupBounds DEF Done, Goto, EndCall, CallPlan, Stopping, Rollouts
<1>9. CASE RequestPause \/ Resume \/ WriteBuffer \/ SaveCursor
  BY <1>9 DEF RequestPause, Resume, WriteBuffer, SaveCursor, Goto, inCall, CallPlan,
     Stopping
<1>10. CASE Paused \/ Evaluated
  BY <1>10, SetupBounds DEF Paused, Evaluated, AfterPause, Raise, Goto, inCall,
     CallPlan, Stopping, Rollouts
<1>11. CASE Snapshot
  BY <1>11 DEF Snapshot, Goto, CallPlan, Stopping
<1>12. CASE Stop \/ StopCancel
  BY <1>12 DEF Stop, StopCancel, Goto, inCall, CallPlan, Stopping
<1>13. CASE Joined \/ JoinTimesOut
  BY <1>13 DEF Joined, JoinTimesOut, Raise, EndCall, AfterRaise, CallPlan, Stopping
<1>14. CASE Crash
  BY <1>14 DEF Crash, EndCall, CallPlan, Stopping
<1>15. CASE LoadFresh \/ \E r \in Rollouts : Load(r)
  BY <1>15, SetupBounds DEF LoadFresh, Load, CallPlan, Stopping, Rollouts
<1>16. CASE UNCHANGED vars
  BY <1>16 DEF vars, actor, inCall, CallPlan
<1> QED  BY <1>1, <1>2, <1>3, <1>4, <1>5, <1>6, <1>7, <1>8, <1>9, <1>10, <1>11, <1>12,
            <1>13, <1>14, <1>15, <1>16 DEF Next, CallStep, WorkerStep

\* A step of the worker is one of a thread that is there; it ends in one way.
LEMMA WorkerThere ==
  ASSUME PipelineInv, WorkerStep
  PROVE  /\ wpc # "dead" /\ UNCHANGED worker
         /\ wpc' = "dead" =>
              /\ wpc = "cleanup" /\ active' = Empty /\ publishing' = Nothing
              /\ interrupt' = FALSE
<1>1. UNCHANGED worker
  BY WorkerFrame
<1>2. CASE LoopStep /\ ~Enqueue
  BY <1>1, <1>2 DEF PipelineInv, OnItsWay, LoopStep, Step, Warmed, Reap, Reaped, Record,
     SeePause, SeeNoPause, Quiesced, Settle, Settled, Park, Unpark, Fetch, Filled, Wake,
     LoopEnds, LoopDone
<1>3. CASE Enqueue
  BY <1>1, <1>3 DEF Enqueue, Step, PipelineInv, OnItsWay, TaskTypes
<1>4. CASE LoopRaises \/ Interrupted \/ \E i \in DOMAIN active : EpisodeEnds(i)
  BY <1>1, <1>4 DEF LoopRaises, Interrupted, EpisodeEnds, Awaits, OnlyLoop
<1> QED  BY <1>2, <1>3, <1>4 DEF WorkerStep

\* Only a thread that is there moves, and what ends it clears up.
LEMMA NothingLeftKept ==
  ASSUME PipelineInv, CallPlan, NothingLeft, [Next]_vars
  PROVE  NothingLeft'
<1>. USE DEF NothingLeft
<1>1. CASE WorkerStep
  <2>1. worker /\ worker' /\ driver' # "crashed"
    BY <1>1, WorkerThere, WorkerFrame DEF actor, inCall, PipelineInv, FlagTypes
  <2> QED  BY <1>1, <2>1, WorkerThere
<1>2. CASE Generate \/ (\E r \in Rollouts : Eval(r))
  <2>1. driver' # "crashed"
    BY <1>2 DEF Generate, Eval, CallPlan
  <2>2. NewWorker \/ (UNCHANGED sampler /\ (Alive \/ at' = "stop"))
    BY <1>2 DEF Generate, Eval, GetGlobalWorker, CallRefused, Raise
  <2>3. CASE NewWorker
    BY <2>1, <2>3 DEF NewWorker, FreshWorker
  <2>4. CASE UNCHANGED sampler /\ (Alive \/ at' = "stop")
    <3>1. at' \in {"collect", "pause", "await"} => worker
      BY <2>4 DEF Alive
    <3> QED  BY <2>1, <2>4, <3>1 DEF sampler, flags, tasks, PipelineInv, FlagTypes
  <2> QED  BY <2>2, <2>3, <2>4
<1>3. CASE \E r \in Rollouts : Save(r)
  <2>1. driver' # "crashed" /\ UNCHANGED sampler
    BY <1>3 DEF Save
  <2>2. at' \in {"collect", "pause", "await"} => worker
    BY <1>3 DEF Save, Raise, Alive
  <2> QED  BY <2>1, <2>2 DEF sampler, flags, tasks, PipelineInv, FlagTypes
<1>4. CASE CollectFails \/ PauseTimesOut \/ SaveFails \/ EvalFails \/ Evaluated \/ Paused
  BY <1>4 DEF CollectFails, PauseTimesOut, SaveFails, EvalFails, Evaluated, Paused,
     Goto, Raise, sampler, flags, tasks, inCall, PipelineInv, FlagTypes
<1>5. CASE PopStep
  BY <1>5 DEF PopStep, RetryFailed, Discard, SendBackStale, Accept, Pop, OnlyCollect,
     flags, PipelineInv, FlagTypes
<1>6. CASE Done \/ Snapshot \/ WriteBuffer \/ SaveCursor
  BY <1>6 DEF Done, Snapshot, WriteBuffer, SaveCursor, Goto, sampler, flags, tasks,
     inCall, PipelineInv, FlagTypes
<1>7. CASE RequestPause \/ Resume
  BY <1>7 DEF RequestPause, Resume, ResumeFlags, Goto, tasks, inCall, CallPlan,
     PipelineInv, FlagTypes
<1>8. CASE Stop \/ StopCancel
  BY <1>8 DEF Stop, StopCancel, Goto, tasks, inCall, PipelineInv, FlagTypes
<1>9. CASE Joined \/ JoinTimesOut
  BY <1>9 DEF Joined, JoinTimesOut, Raise, NoWorker, FreshWorker, EndCall, AfterRaise,
     sampler, flags, tasks, PipelineInv, FlagTypes
<1>10. CASE Crash
  BY <1>10 DEF Crash, NoWorker, FreshWorker
<1>11. CASE LoadFresh \/ \E r \in Rollouts : Load(r)
  BY <1>11 DEF LoadFresh, Load, sampler, flags, tasks, PipelineInv, FlagTypes
<1>12. CASE UNCHANGED vars
  BY <1>12 DEF vars, source, sampler, flags, tasks, actor, inCall
<1> QED  BY <1>1, <1>2, <1>3, <1>4, <1>5, <1>6, <1>7, <1>8, <1>9, <1>10, <1>11, <1>12
            DEF Next, CallStep, WorkerStep, PopStep
-----------------------------------------------------------------------------
\* The last rollout: its batch, the saves after it and the last evaluation.
NoEvalAfterFinal == "eval after final" \notin Risks
LastRollout ==
  NoEvalAfterFinal =>
    /\ call = "eval" /\ nextRollout = NumRollouts => rollout + 1 = NumRollouts
    /\ call = "eval" /\ at = "resume" => nextRollout < NumRollouts
    /\ nextRollout = NumRollouts /\ (call \in {"none", "save"} \/ at = "done")
         => ~running
    /\ call = "generate" /\ at = "done" /\ rollout + 1 = NumRollouts => ~running

\* The worker thread never starts itself again, and leaves pauses to the calls.
LEMMA WorkerFlags ==
  ASSUME PipelineInv, WorkerStep
  PROVE  (running' => running) /\ UNCHANGED pausing /\ (interrupt' => interrupt)
<1>. USE DEF PipelineInv, FlagTypes
<1>1. CASE LoopStep
  <2>1. CASE Reap \/ Settle
    <3>1. UNCHANGED <<pausing, interrupt>> /\ (running' = running \/ running' = FALSE)
      BY <2>1 DEF Reap, Settle, PublishFailure
    <3> QED  BY <3>1
  <2>2. CASE Park \/ Unpark \/ LoopDone
    BY <2>2 DEF Park, Unpark, LoopDone
  <2>3. CASE UNCHANGED flags
    BY <2>3 DEF flags
  <2> QED  BY <1>1, <2>1, <2>2, <2>3 DEF LoopStep, Warmed, Reaped, Record, Enqueue,
              SeePause, SeeNoPause, Quiesced, Settled, Fetch, Filled, Wake, LoopEnds
<1>2. CASE LoopRaises \/ Interrupted \/ \E i \in DOMAIN active : EpisodeEnds(i)
  BY <1>2 DEF flags, LoopRaises, Interrupted, EpisodeEnds, PublishFailure
<1> QED  BY <1>1, <1>2 DEF WorkerStep

\* The last generate and the last evaluation stop the worker; a save starts none.
LEMMA LastRolloutKept ==
  ASSUME PipelineInv, CallPlan, NothingLeft, LastRollout, [Next]_vars
  PROVE  LastRollout'
<1>1. setup' = setup /\ Risks' = Risks /\ (NoEvalAfterFinal' <=> NoEvalAfterFinal)
  BY DEF Next, vars, Risks, NoEvalAfterFinal
<1> SUFFICES ASSUME NoEvalAfterFinal PROVE LastRollout'
  BY <1>1 DEF LastRollout
<1>. USE DEF LastRollout
<1>2. /\ NumRollouts \in Nat \ {0} /\ nextRollout \in 0..NumRollouts
      /\ rollout \in Rollouts /\ Stopped /\ running \in BOOLEAN
  BY SetupBounds DEF PipelineInv, ActorTypes, FlagTypes
<1>3. CASE WorkerStep
  BY <1>3, WorkerFrame, WorkerFlags DEF actor, inCall
<1>4. CASE Generate
  BY <1>2, <1>4 DEF Generate, GetGlobalWorker, CallRefused, Raise
<1>5. CASE \E r \in Rollouts : Save(r)
  <2>1. PICK r \in Rollouts : Save(r)
    BY <1>5
  <2>2. call' = "save" /\ at' \in {"pause", "stop", "snapshot"}
        /\ nextRollout' = nextRollout
    BY <2>1 DEF Save, Raise
  <2>3. running' = running /\ call = "none"
    BY <2>1 DEF Save, sampler, flags, CallPlan
  <2> QED  BY <1>2, <2>2, <2>3
<1>6. CASE \E r \in Rollouts : Eval(r)
  <2>1. PICK r \in Rollouts : Eval(r)
    BY <1>6
  <2>2. call' = "eval" /\ at' \in {"pause", "stop"} /\ rollout' = r
        /\ nextRollout' = nextRollout
    BY <2>1 DEF Eval, GetGlobalWorker, CallRefused, Raise
  <2>3. nextRollout < NumRollouts \/ r + 1 = NumRollouts
    BY <2>1 DEF Eval, NoEvalAfterFinal
  <2> QED  BY <1>2, <2>2, <2>3
<1>7. CASE CollectFails \/ PauseTimesOut \/ SaveFails \/ EvalFails \/ Paused
  BY <1>7 DEF CollectFails, PauseTimesOut, SaveFails, EvalFails, Paused, AfterPause,
     Raise, sampler, flags, inCall, CallPlan, PipelineInv, ActorTypes
<1>8. CASE RetryFailed \/ Discard \/ SendBackStale
  BY <1>8 DEF RetryFailed, Discard, SendBackStale, OnlyCollect, flags
<1>9. CASE Accept
  <2>1. call = "generate" /\ rollout = nextRollout
        /\ UNCHANGED <<call, rollout, nextRollout>>
    BY <1>9 DEF Accept, Pop, OnlyCollect, CallPlan
  <2>2. at' = "done" => ~(rollout + 1 >= NumRollouts)
    BY <1>9 DEF Accept, AfterBatch, Raise
  <2>3. at' # "resume"
    BY <1>9 DEF Accept, AfterBatch, Raise
  <2> QED  BY <1>2, <2>1, <2>2, <2>3 DEF Rollouts
<1>10. CASE Done
  BY <1>2, <1>10 DEF Done, Goto, EndCall, sampler, flags, CallPlan, PipelineInv,
     ActorTypes, Rollouts
<1>11. CASE RequestPause \/ Resume
  BY <1>2, <1>11 DEF RequestPause, Resume, Goto, inCall, CallPlan
<1>12. CASE Snapshot \/ WriteBuffer \/ SaveCursor
  BY <1>12 DEF Snapshot, WriteBuffer, SaveCursor, Goto, sampler, flags, inCall, CallPlan
<1>13. CASE Evaluated
  <2>1. call = "eval" /\ UNCHANGED <<call, rollout, nextRollout>>
    BY <1>13 DEF Evaluated, Goto, inCall, CallPlan
  <2>2. at' = IF rollout + 1 >= NumRollouts THEN "stop" ELSE "resume"
    BY <1>13 DEF Evaluated, Goto
  <2> QED  BY <1>2, <2>1, <2>2 DEF Rollouts
<1>14. CASE Stop \/ StopCancel
  BY <1>14 DEF Stop, StopCancel, Goto, inCall, CallPlan
<1>15. CASE Joined \/ JoinTimesOut
  <2>1. ~running'
    BY <1>15, <1>2 DEF Joined, JoinTimesOut, NoWorker, Stopped, sampler, flags
  <2> QED  BY <1>15, <2>1 DEF Joined, JoinTimesOut, Raise, EndCall
<1>16. CASE Crash
  BY <1>16 DEF Crash, NoWorker, EndCall
<1>17. CASE LoadFresh \/ \E r \in Rollouts : Load(r)
  <2>1. call = "none" /\ ~running
    BY <1>17 DEF LoadFresh, Load, NothingLeft, CallPlan
  <2> QED  BY <1>17, <2>1 DEF LoadFresh, Load, sampler, flags
<1>18. CASE UNCHANGED vars
  BY <1>18 DEF vars, actor, inCall, sampler, flags
<1> QED  BY <1>3, <1>4, <1>5, <1>6, <1>7, <1>8, <1>9, <1>10, <1>11, <1>12, <1>13, <1>14,
            <1>15, <1>16, <1>17, <1>18 DEF Next, CallStep, WorkerStep
-----------------------------------------------------------------------------
\* The pause: where the loop settles its episodes for one, what it means to be
\* idle, and which calls count on it.
NoEpisode == DOMAIN active = {}
Saving == {"snapshot", "write", "cursor"}
Settling ==
  \/ wpc \in {"quiesce", "settle", "park"}
  \/ wpc \in {"record", "put"} /\ publishing.back = "settle"

PauseHolds ==
  Unpreempted =>
    /\ Settling => pausing
    /\ wpc = "park" => NoEpisode
    /\ idle => /\ pausing /\ NoEpisode
               /\ wpc \in {"sleep", "reap", "check", "park", "cleanup", "dead"}
    /\ at \in Saving /\ held => idle
    /\ at \in Saving /\ ~held => wpc = "dead"
    /\ at \in {"evaluate", "resume"} => idle
    /\ at \in Stopping /\ leave = "return" => idle

\* Nobody but the room check starts an episode.
LEMMA EpisodesOnlyEnd ==
  ASSUME PipelineInv, WorkerStep, ~Fetch
  PROVE  DOMAIN active' \subseteq DOMAIN active
<1>. USE DEF PipelineInv
<1>1. CASE Reap \/ Settle
  BY <1>1 DEF Reap, Settle, Without, Restrict
<1>2. CASE LoopDone
  BY <1>2, EmptyMaps DEF LoopDone
<1>3. CASE SeePause \/ LoopEnds \/ LoopRaises \/ Interrupted
           \/ \E i \in DOMAIN active : EpisodeEnds(i)
  BY <1>3, CancelKeeps, InterruptKeeps, EpisodeKeeps DEF SeePause, LoopEnds, LoopRaises,
     SameEpisodes
<1>4. CASE UNCHANGED tasks \/ Enqueue
  BY <1>4 DEF tasks, Enqueue
<1> QED  BY <1>1, <1>2, <1>3, <1>4 DEF WorkerStep, LoopStep, Warmed, Reaped, Record,
            SeeNoPause, Quiesced, Settled, Park, Unpark, Filled, Wake

LEMMA NoneInFlight ==
  ASSUME TaskTypes
  PROVE  NoEpisode <=> active = Empty
<1>1. active = Empty => NoEpisode
  BY EmptyMaps DEF NoEpisode
<1>2. ASSUME NoEpisode PROVE active = Empty
  <2>1. active = [x \in {} |-> active[x]]
    BY <1>2 DEF TaskTypes, Maps, NoEpisode
  <2>2. Empty = [x \in {} |-> Empty[x]]
    BY EmptyMaps DEF Maps
  <2>3. [x \in {} |-> active[x]] = [x \in {} |-> Empty[x]]
    OBVIOUS
  <2> QED  BY <2>1, <2>2, <2>3
<1> QED  BY <1>1, <1>2

\* The loop parks when the pause was requested, and starts no episode until it is lifted.
LEMMA WorkerKeepsPause ==
  ASSUME PipelineInv, PauseHolds, Unpreempted, WorkerStep
  PROVE  PauseHolds'
<1>. USE DEF PipelineInv, PauseHolds
<1>1. UNCHANGED <<at, held, leave, pausing>> /\ wpc # "dead"
  BY WorkerFrame, WorkerFlags, WorkerThere DEF actor, inCall
<1>2. idle \in BOOLEAN /\ pausing \in BOOLEAN /\ held \in BOOLEAN
  BY DEF FlagTypes, ActorTypes
<1>3. NoEpisode /\ ~Fetch => NoEpisode'
  BY EpisodesOnlyEnd DEF NoEpisode
<1>4. CASE Warmed \/ Reaped \/ Record \/ SeeNoPause \/ Quiesced \/ Settled \/ Filled
           \/ Wake
  <2>1. ~Fetch /\ UNCHANGED <<idle, publishing>>
    BY <1>4 DEF Warmed, Reaped, Record, SeeNoPause, Quiesced, Settled, Filled, Wake,
       Step, flags, tasks, Fetch
  <2>2. Settled => NoEpisode
    BY NoneInFlight DEF Settled
  <2> QED  BY <1>1, <1>2, <1>3, <1>4, <2>1, <2>2 DEF Warmed, Reaped, Record, SeeNoPause,
              Quiesced, Settled, Filled, Wake, Step, Settling
<1>5. CASE Enqueue
  <2>1. /\ wpc = "put" /\ wpc' = publishing.back /\ publishing.back \in {"reap", "settle"}
        /\ idle' = idle
    BY <1>5 DEF Enqueue, Step, OnItsWay, TaskTypes, flags
  <2> QED  BY <1>1, <1>2, <2>1 DEF Settling
<1>6. CASE Reap
  <2>1. ~NoEpisode /\ idle' = idle
    BY <1>6 DEF Reap, NoEpisode
  <2>2. wpc' = "check" \/ (wpc' = "record" /\ publishing'.back = "reap")
    BY <1>6 DEF Reap
  <2> QED  BY <1>1, <1>2, <2>1, <2>2 DEF Settling
<1>7. CASE Settle
  <2>1. wpc = "settle" /\ idle' = idle /\ wpc' \in {"settle", "record"}
    BY <1>7 DEF Settle
  <2> QED  BY <1>1, <1>2, <2>1 DEF Settling
<1>8. CASE SeePause
  <2>1. /\ pausing /\ idle' = idle /\ wpc = "check" /\ ~Fetch
        /\ wpc' = IF NoEpisode THEN "park" ELSE "quiesce"
    BY <1>8, NoneInFlight DEF SeePause, Step, flags, Fetch
  <2> QED  BY <1>1, <1>2, <1>3, <2>1
<1>9. CASE Park \/ Unpark
  <2>1. ~Fetch
    BY <1>9 DEF Park, Unpark, Step, Fetch
  <2> QED  BY <1>1, <1>2, <1>3, <1>9, <2>1 DEF Park, Unpark, Step, Settling
<1>10. CASE Fetch
  BY <1>1, <1>2, <1>10 DEF Fetch, flags, Settling
<1>11. CASE LoopEnds \/ LoopRaises \/ Interrupted \/ LoopDone
  <2>1. ~Fetch /\ idle' = idle /\ wpc' \in {"cleanup", "dead"}
    BY <1>11 DEF LoopEnds, LoopRaises, Interrupted, LoopDone, Step, flags, Fetch
  <2>2. idle => NoEpisode'
    BY <1>3, <2>1
  <2> QED  BY <1>1, <1>2, <2>1, <2>2 DEF Settling
<1>12. CASE \E i \in DOMAIN active : EpisodeEnds(i)
  BY <1>1, <1>2, <1>12 DEF EpisodeEnds, NoEpisode, flags, Settling
<1> QED  BY <1>4, <1>5, <1>6, <1>7, <1>8, <1>9, <1>10, <1>11, <1>12 DEF WorkerStep,
            LoopStep

\* No call lifts a pause that another counts on, and resume() never meets a loop
\* that is just parking.
LEMMA PauseHoldsKept ==
  ASSUME PipelineInv, CallPlan, NothingLeft, PauseHolds, [Next]_vars
  PROVE  PauseHolds'
<1>1. setup' = setup /\ Risks' = Risks /\ (Unpreempted' <=> Unpreempted)
  BY DEF Next, vars, Risks, Unpreempted
<1> SUFFICES ASSUME Unpreempted PROVE PauseHolds'
  BY <1>1 DEF PauseHolds
<1>. USE DEF PipelineInv, PauseHolds
<1>2. /\ idle \in BOOLEAN /\ pausing \in BOOLEAN /\ held \in BOOLEAN
      /\ worker \in BOOLEAN /\ failed \in BOOLEAN
  BY DEF FlagTypes, ActorTypes
<1>3. CASE WorkerStep
  BY <1>3, WorkerKeepsPause
<1>4. ASSUME FreshWorker, wpc' \in {"warming", "dead"},
             at' \notin Saving \cup {"evaluate", "resume"},
             at' \in Stopping => leave' = "raise"
      PROVE  PauseHolds'
  BY <1>4 DEF FreshWorker, Settling, Saving, Stopping
<1>5. ASSUME UNCHANGED <<wpc, idle, active, publishing, pausing>>,
             at' \notin Saving \cup {"evaluate", "resume"},
             at' \in Stopping => leave' = "raise"
      PROVE  PauseHolds'
  BY <1>2, <1>5 DEF Settling, Saving, Stopping, NoEpisode
<1>6. CASE Generate \/ (\E r \in Rollouts : Eval(r))
  <2>1. at' \in {"collect", "pause", "stop"} /\ (at' = "stop" => leave' = "raise")
    BY <1>6 DEF Generate, Eval, GetGlobalWorker, CallRefused, Raise
  <2>2. NewWorker \/ UNCHANGED sampler
    BY <1>6 DEF Generate, Eval, GetGlobalWorker, CallRefused
  <2> QED  BY <1>4, <1>5, <2>1, <2>2 DEF NewWorker, sampler, flags, tasks, Saving,
              Stopping
<1>7. CASE \E r \in Rollouts : Save(r)
  <2>1. UNCHANGED <<wpc, idle, active, publishing, pausing>>
    BY <1>7 DEF Save, sampler, flags, tasks
  <2>2. \/ at' = "stop" /\ leave' = "raise"
        \/ at' = "pause"
        \/ at' = "snapshot" /\ held' = FALSE /\ (~worker \/ wpc = "dead")
    BY <1>7 DEF Save, Raise, Alive
  <2> QED  BY <1>2, <1>5, <2>1, <2>2 DEF Settling, Saving, Stopping, NoEpisode,
              NothingLeft
<1>8. CASE CollectFails \/ PauseTimesOut \/ SaveFails \/ EvalFails
  BY <1>5, <1>8 DEF CollectFails, PauseTimesOut, SaveFails, EvalFails, Raise, sampler,
     flags, tasks, Saving, Stopping
<1>9. CASE PopStep
  <2>1. /\ UNCHANGED <<wpc, idle, active, publishing, pausing>>
        /\ at' \in {"collect", "pause", "done", "stop"}
        /\ at' = "stop" => leave' = "raise"
    BY <1>9 DEF PopStep, RetryFailed, Discard, SendBackStale, Accept, Pop, OnlyCollect,
       AfterBatch, Raise, flags
  <2> QED  BY <1>5, <2>1 DEF Saving, Stopping
<1>10. CASE Done
  BY <1>5, <1>10 DEF Done, Goto, sampler, flags, tasks, Saving, Stopping
<1>11. CASE RequestPause
  BY <1>2, <1>11 DEF RequestPause, Goto, tasks, inCall, Settling, Saving, Stopping,
     NoEpisode
<1>12. CASE Resume
  <2>1. wpc # "park" /\ at = "resume" /\ at' = "done" /\ idle' = FALSE
        /\ UNCHANGED <<wpc, active, publishing>>
    BY <1>12 DEF Resume, MayResume, ResumeFlags, Goto, Unpreempted, tasks
  <2>2. ~Settling
    BY <1>2, <2>1 DEF Settling
  <2> QED  BY <2>1, <2>2 DEF Settling, Saving, Stopping
<1>13. CASE Paused
  <2>1. /\ idle /\ at = "await" /\ UNCHANGED <<wpc, idle, active, publishing, pausing, held>>
        /\ \/ at' = "stop" /\ leave' = "raise"
           \/ at' \in {"stop", "evaluate"} /\ leave' = leave
           \/ at' = "snapshot" /\ held
    BY <1>13 DEF Paused, AfterPause, Raise, sampler, flags, tasks, inCall, ActorTypes,
       CallPlan
  <2> QED  BY <1>2, <2>1 DEF Settling, Saving, Stopping, NoEpisode, CallPlan
<1>14. CASE Snapshot \/ WriteBuffer \/ SaveCursor
  <2>1. UNCHANGED <<wpc, idle, active, publishing, pausing, held>>
    BY <1>14 DEF Snapshot, WriteBuffer, SaveCursor, sampler, flags, tasks, inCall
  <2>2. \/ at = "snapshot" /\ at' = "write"
        \/ at = "write" /\ at' = "cursor"
        \/ at = "cursor" /\ at' = IF held THEN "resume" ELSE "done"
    BY <1>14 DEF Snapshot, WriteBuffer, SaveCursor, Goto
  <2> QED  BY <1>2, <2>1, <2>2 DEF Settling, Saving, Stopping, NoEpisode
<1>15. CASE Evaluated
  <2>1. /\ UNCHANGED <<wpc, idle, active, publishing, pausing, held>>
        /\ at = "evaluate" /\ at' \in {"stop", "resume"}
    BY <1>15 DEF Evaluated, Goto, sampler, flags, tasks, inCall
  <2> QED  BY <1>2, <2>1 DEF Settling, Saving, Stopping, NoEpisode
<1>16. CASE Stop \/ StopCancel
  <2>1. /\ UNCHANGED <<wpc, idle, active, publishing, pausing, held, leave>>
        /\ at \in Stopping /\ at' \in Stopping
    BY <1>16 DEF Stop, StopCancel, Goto, tasks, inCall, Stopping
  <2> QED  BY <1>2, <2>1 DEF Settling, Saving, Stopping, NoEpisode
<1>17. CASE Joined \/ JoinTimesOut
  <2>1. /\ at' \in {"done", "free", "stop"} /\ (at' = "stop" => leave' = "raise")
        /\ NoWorker \/ UNCHANGED sampler
    BY <1>17 DEF Joined, JoinTimesOut, Raise
  <2> QED  BY <1>4, <1>5, <2>1 DEF NoWorker, sampler, flags, tasks, Saving, Stopping
<1>18. CASE Crash
  BY <1>4, <1>18 DEF Crash, NoWorker, Saving, Stopping
<1>19. CASE LoadFresh \/ \E r \in Rollouts : Load(r)
  <2>1. at = "free" /\ at' = at /\ UNCHANGED <<wpc, idle, active, publishing, pausing>>
    BY <1>19 DEF LoadFresh, Load, sampler, flags, tasks, NothingLeft
  <2> QED  BY <1>5, <2>1 DEF Saving, Stopping
<1>20. CASE UNCHANGED vars
  BY <1>2, <1>20 DEF vars, actor, inCall, sampler, flags, tasks, Settling, NoEpisode
<1> QED  BY <1>3, <1>6, <1>7, <1>8, <1>9, <1>10, <1>11, <1>12, <1>13, <1>14, <1>15,
            <1>16, <1>17, <1>18, <1>19, <1>20 DEF Next, CallStep, WorkerStep, PopStep
-----------------------------------------------------------------------------
\* The cancellation of stop(): it is sent once, to a loop that still samples,
\* and so finds no clean-up to cut short.
OneCancellation ==
  Unpreempted =>
    /\ interrupt => ~running /\ wpc \notin {"cleanup", "dead"}
    /\ wpc = "cleanup" => ~running
    /\ at = "cancel" => ~interrupt /\ wpc \notin {"cleanup", "dead"}
    /\ NoneTorn

LEMMA CleanupReached ==
  ASSUME PipelineInv, OneCancellation, Unpreempted, Undisturbed, LoopStep \/ LoopRaises
  PROVE  /\ at # "cancel"
         /\ wpc' = "cleanup" => ~running' /\ (wpc = "cleanup" \/ ~interrupt)
         /\ interrupt' => interrupt /\ ~running' /\ wpc' # "dead"
<1>. USE DEF PipelineInv, OneCancellation, FlagTypes
<1>1. at # "cancel" /\ ~(interrupt /\ wpc \in Awaits)
  BY DEF Undisturbed, Unpreempted
<1>2. interrupt' => interrupt /\ ~running'
  BY WorkerFlags DEF WorkerStep
<1>3. interrupt' => wpc' # "dead"
  BY WorkerThere DEF WorkerStep
<1>4. CASE Warmed
  BY <1>1, <1>2, <1>3, <1>4 DEF Warmed, Step, Awaits, flags
<1>5. CASE LoopEnds
  BY <1>1, <1>2, <1>3, <1>5 DEF LoopEnds, Step, Awaits, flags
<1>6. CASE LoopRaises
  BY <1>1, <1>2, <1>3, <1>6 DEF LoopRaises, MayFetch, PublishFailure, Awaits
<1>7. CASE LoopStep /\ ~Warmed /\ ~LoopEnds
  <2>1. wpc' # "cleanup"
    BY <1>7 DEF LoopStep, Step, Reap, Reaped, Record, Enqueue, SeePause, SeeNoPause,
       Quiesced, Settle, Settled, Park, Unpark, Fetch, Filled, Wake, LoopDone,
       TaskTypes, OnItsWay
  <2> QED  BY <1>1, <1>2, <1>3, <2>1
<1> QED  BY <1>4, <1>5, <1>6, <1>7

\* Torn episodes come from a cancellation that finds the clean-up only.
LEMMA NoneTornKept ==
  ASSUME PipelineInv, NoneTorn, WorkerStep, Interrupted => wpc # "cleanup"
  PROVE  NoneTorn'
<1>. USE DEF PipelineInv, NoneTorn
<1>1. CASE Reap \/ Settle
  BY <1>1 DEF Reap, Settle, Without, Restrict
<1>2. CASE LoopDone
  BY <1>2, EmptyMaps DEF LoopDone
<1>3. CASE SeePause \/ LoopEnds \/ LoopRaises
  <2>1. CancelActive
    BY <1>3 DEF SeePause, LoopEnds, LoopRaises
  <2>2. \A i \in DOMAIN active : [active[i] EXCEPT !.st = "cancelling"].st = "cancelling"
    BY ActiveFacts DEF Task
  <2> QED  BY <2>1, <2>2 DEF CancelActive
<1>4. CASE Interrupted
  <2>1. \A i \in DOMAIN active : [active[i] EXCEPT !.st = "cancelling"].st = "cancelling"
    BY ActiveFacts DEF Task
  <2> QED  BY <1>4, <2>1 DEF Interrupted
<1>5. CASE \E i \in DOMAIN active : EpisodeEnds(i)
  <2>1. PICK i \in DOMAIN active, st \in Ended : active' = [active EXCEPT ![i].st = st]
    BY <1>5 DEF EpisodeEnds, Mark, Ended
  <2>2. [active[i] EXCEPT !.st = st].st = st
    BY ActiveFacts DEF Task
  <2> QED  BY <2>1, <2>2 DEF Ended
<1>6. CASE Fetch
  BY <1>6 DEF Fetch, Store
<1>7. CASE UNCHANGED active
  BY <1>7
<1> QED  BY <1>1, <1>2, <1>3, <1>4, <1>5, <1>6, <1>7 DEF WorkerStep, LoopStep, Warmed,
            Reaped, Record, Enqueue, SeeNoPause, Quiesced, Settled, Park, Unpark,
            Filled, Wake, tasks

\* stop() interrupts a running worker, once.
LEMMA OneCancellationKept ==
  ASSUME PipelineInv, CallPlan, NothingLeft, OneCancellation, [Next]_vars
  PROVE  OneCancellation'
<1>1. setup' = setup /\ Risks' = Risks /\ (Unpreempted' <=> Unpreempted)
  BY DEF Next, vars, Risks, Unpreempted
<1> SUFFICES ASSUME Unpreempted PROVE OneCancellation'
  BY <1>1 DEF OneCancellation
<1>. USE DEF PipelineInv, OneCancellation, FlagTypes
<1>2. CASE Undisturbed /\ (LoopStep \/ LoopRaises)
  <2>1. WorkerStep /\ at' = at /\ NoneTorn'
    BY <1>2, WorkerFrame, NoneTornKept DEF WorkerStep, actor, LoopStep, LoopRaises,
       Interrupted
  <2> QED  BY <1>2, <2>1, CleanupReached
<1>3. CASE Interrupted
  <2>1. NoneTorn' /\ at' = at
    BY <1>3, NoneTornKept, WorkerFrame DEF Interrupted, WorkerStep, actor
  <2> QED  BY <1>3, <2>1 DEF Interrupted
<1>4. CASE \E i \in DOMAIN active : EpisodeEnds(i)
  <2>1. NoneTorn'
    BY <1>4, NoneTornKept DEF WorkerStep, EpisodeEnds, Interrupted
  <2> QED  BY <1>4, <2>1 DEF EpisodeEnds, actor, flags
<1>5. ASSUME FreshWorker, wpc' \in {"warming", "dead"}, at' # "cancel"
      PROVE  OneCancellation'
  BY <1>5, EmptyMaps DEF FreshWorker, NoneTorn
<1>6. ASSUME UNCHANGED <<wpc, running, interrupt, active>>, at' # "cancel"
      PROVE  OneCancellation'
  BY <1>6 DEF NoneTorn
<1>7. CASE Generate \/ (\E r \in Rollouts : Eval(r))
  <2>1. at' # "cancel" /\ (NewWorker \/ UNCHANGED sampler)
    BY <1>7 DEF Generate, Eval, GetGlobalWorker, CallRefused, Raise
  <2> QED  BY <1>5, <1>6, <2>1 DEF NewWorker, sampler, flags, tasks
<1>8. CASE (\E r \in Rollouts : Save(r)) \/ CollectFails \/ PauseTimesOut \/ SaveFails
           \/ EvalFails \/ Paused
  <2>1. UNCHANGED sampler
    BY <1>8 DEF Save, CollectFails, PauseTimesOut, SaveFails, EvalFails, Paused
  <2>2. at' # "cancel"
    BY <1>8 DEF Save, Raise, CollectFails, PauseTimesOut, SaveFails, EvalFails, Paused,
       AfterPause, ActorTypes
  <2> QED  BY <1>6, <2>1, <2>2 DEF sampler, flags, tasks
<1>9. CASE PopStep
  <2>1. /\ UNCHANGED <<wpc, running, interrupt, active>> /\ at' # "cancel"
    BY <1>9 DEF PopStep, RetryFailed, Discard, SendBackStale, Accept, Pop, OnlyCollect,
       AfterBatch, Raise, flags
  <2> QED  BY <1>6, <2>1
<1>10. CASE Done \/ Snapshot \/ WriteBuffer \/ SaveCursor \/ Evaluated
  BY <1>6, <1>10 DEF Done, Snapshot, WriteBuffer, SaveCursor, Evaluated, Goto, sampler,
     flags, tasks
<1>11. CASE RequestPause \/ Resume
  BY <1>6, <1>11 DEF RequestPause, Resume, Goto, tasks
<1>12. CASE Stop
  <2>1. at' = "cancel" => running /\ wpc # "dead"
    BY <1>12 DEF Stop, Alive
  <2> QED  BY <1>12, <2>1 DEF Stop, tasks, NoneTorn
<1>13. CASE StopCancel
  <2>1. at = "cancel" /\ at' = "join" /\ ~running
    BY <1>13 DEF StopCancel, Goto, Stopped
  <2> QED  BY <1>13, <2>1 DEF StopCancel, tasks, NoneTorn
<1>14. CASE Joined \/ JoinTimesOut
  <2>1. at' # "cancel" /\ (NoWorker \/ UNCHANGED sampler)
    BY <1>14 DEF Joined, JoinTimesOut, Raise
  <2> QED  BY <1>5, <1>6, <2>1 DEF NoWorker, sampler, flags, tasks
<1>15. CASE Crash
  BY <1>5, <1>15 DEF Crash, NoWorker
<1>16. CASE LoadFresh \/ \E r \in Rollouts : Load(r)
  <2>1. at' # "cancel" /\ UNCHANGED sampler
    BY <1>16 DEF LoadFresh, Load, NothingLeft
  <2> QED  BY <1>6, <2>1 DEF sampler, flags, tasks
<1>17. CASE UNCHANGED vars
  BY <1>17 DEF vars, actor, sampler, flags, tasks, NoneTorn
<1> QED  BY <1>2, <1>3, <1>4, <1>7, <1>8, <1>9, <1>10, <1>11, <1>12, <1>13, <1>14,
            <1>15, <1>16, <1>17 DEF Next, CallStep, PopStep
-----------------------------------------------------------------------------
Discipline ==
  PipelineInv /\ CallPlan /\ NothingLeft /\ LastRollout /\ PauseHolds /\ OneCancellation

LEMMA DisciplineStarts == Init => Discipline
<1> SUFFICES ASSUME Init PROVE Discipline
  OBVIOUS
<1>1. PipelineInv
  BY PipelineStarts
<1>2. CallPlan /\ NothingLeft
  BY <1>1 DEF Init, CallPlan, NothingLeft, Stopping, PipelineInv
<1>3. LastRollout
  BY SetupBounds, <1>1 DEF Init, LastRollout, PipelineInv
<1>4. PauseHolds
  BY DEF Init, PauseHolds, Settling, Saving, Stopping
<1>5. OneCancellation
  BY EmptyMaps DEF Init, OneCancellation, NoneTorn
<1> QED  BY <1>1, <1>2, <1>3, <1>4, <1>5 DEF Discipline

LEMMA DisciplineStep == Discipline /\ [Next]_vars => Discipline'
BY PipelineStep, CallPlanKept, NothingLeftKept, LastRolloutKept, PauseHoldsKept,
   OneCancellationKept DEF Discipline

\* Calls, pauses and stops interleave with the worker as they are meant to.
THEOREM DisciplineInvariance == Spec => []Discipline
BY DisciplineStarts, DisciplineStep, PTL DEF Spec

\* The worker samples nothing after the batch of the last rollout: only an
\* evaluation of the rollout before, asked for after it, would start it again.
THEOREM SamplingEnds == Spec => [](NoEvalAfterFinal => SamplingEndsWithLastRollout)
<1>1. Discipline => (NoEvalAfterFinal => SamplingEndsWithLastRollout)
  BY DEF Discipline, LastRollout, SamplingEndsWithLastRollout
<1> QED  BY <1>1, DisciplineInvariance, PTL

\* Whatever a save or an evaluation reads while the worker is paused stands
\* still, also after failures, late saves, restarts and rollbacks.
THEOREM PauseIsQuiet == Spec => []QuietWhilePaused
<1>1. Discipline => QuietWhilePaused
  <2> SUFFICES ASSUME Discipline, Unpreempted,
                      at \in {"snapshot", "write", "cursor", "evaluate"}
               PROVE  active = Empty /\ publishing = Nothing
    BY DEF QuietWhilePaused
  <2>1. PipelineInv /\ NothingLeft /\ PauseHolds
    BY DEF Discipline
  <2>2. CASE wpc = "dead"
    BY <2>1, <2>2 DEF NothingLeft
  <2>3. CASE idle
    BY <2>1, <2>3, NoneInFlight DEF PauseHolds, PipelineInv, OnItsWay
  <2> QED  BY <2>1, <2>2, <2>3 DEF PauseHolds, Saving, PipelineInv, ActorTypes
<1> QED  BY <1>1, DisciplineInvariance, PTL

\* The cancellation that stop() sends never meets the clean-up of an episode
\* that is being cancelled already.
THEOREM CleanupRuns == Spec => []CleanupUninterrupted
<1>1. Discipline => CleanupUninterrupted
  BY DEF Discipline, OneCancellation, CleanupUninterrupted
<1> QED  BY <1>1, DisciplineInvariance, PTL
=============================================================================
