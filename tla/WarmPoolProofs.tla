--------------------------- MODULE WarmPoolProofs ---------------------------
(***************************************************************************)
(* Proofs that the invariants of WarmPool hold for any number of producers,*)
(* renewal workers, episodes and sandboxes and any Size.                   *)
(*                                                                         *)
(* None of them is inductive alone.  BaseInv ties the await a task is      *)
(* suspended in to the sandbox it has in hand, and the phase of the pool to*)
(* what its tasks may still do; with it each property is preserved by every*)
(* step, given the ones proved before it: ownership, then lifetimes,       *)
(* wakeups and the accounting of permits.                                  *)
(*                                                                         *)
(* The second half shows that the pool implements SandboxSupply, and that  *)
(* it loses no instance when kills succeed and no cancellation lands       *)
(* inside a close.                                                         *)
(***************************************************************************)
EXTENDS WarmPool, TLAPS, FiniteSetTheorems

\* The awaits at which a task has a sandbox in its local variable.
Holding == {"boot", "bootclose", "prepare", "close", "unwind", "renew",
            "claim", "discard", "abort", "own", "release"}

\* Where a pool task can be that was never cancelled, or not yet told so.
Working == {"slot", "alloc", "boot", "bootclose", "prepare", "close",
            "backoff", "watch", "renew"}

HoldsMatchAwait == \A t \in Tasks : hold[t] \in Sandboxes <=> pc[t] \in Holding

\* What a phase says of the run lock, the inventory and the pool's tasks.
PhaseDiscipline ==
  /\ phase = "new" => ready = <<>> /\ \A t \in PoolTasks : pc[t] = "off"
  /\ phase # "closing" => reclaiming = {}
  /\ ~Closed => cancelled = {}
  /\ phase \in {"filling", "serving", "closing"} => lock = "ours"
  /\ phase \in {"filling", "serving"} => \A t \in PoolTasks : pc[t] \in Working
  /\ phase = "closing" =>
       /\ ready = <<>>
       /\ \A t \in PoolTasks :
            IF t \in cancelled THEN pc[t] \in Working
            ELSE pc[t] \in {"resolve", "unwind", "done"}
  /\ phase = "closed" =>
       /\ ready = <<>>
       /\ \A p \in Creators : pc[p] = "done"
       /\ \A r \in Renewers : pc[r] \in {"unwind", "done"}
       /\ \A t \in cancelled : t \in Renewers /\ pc[t] = "unwind"

BaseInv == TypeOK /\ HoldsMatchAwait /\ PhaseDiscipline

\* The permits, once the pool is closed too: only the upper bound is left.
SlotBound ==
  /\ IsFiniteSet(reclaiming)
  /\ Cardinality(SlotHolders) + Len(ready) + Cardinality(reclaiming) <= Size

SlotInv == SlotAccounting /\ SlotBound

\* The inductive invariant.
IInv ==
  /\ BaseInv /\ ExclusiveOwner /\ ActiveLifetime
  /\ NoSleeperWhileReady /\ SlotInv
-----------------------------------------------------------------------------
(***************************************************************************)
(* Sequences without repetition, as the deque _ready is one.               *)
(***************************************************************************)
Elements(q) == {q[i] : i \in 1..Len(q)}

Distinct(q) == \A i, j \in 1..Len(q) : q[i] = q[j] => i = j

\* deque.append of a sandbox that is not queued yet keeps the deque distinct.
LEMMA AppendElements ==
  ASSUME NEW S, NEW q \in Seq(S), NEW s \in S
  PROVE  /\ Elements(Append(q, s)) = Elements(q) \cup {s}
         /\ Distinct(q) /\ s \notin Elements(q) => Distinct(Append(q, s))
         /\ Len(Append(q, s)) = Len(q) + 1
BY DEF Elements, Distinct

\* deque.popleft takes one sandbox out and leaves the others.
LEMMA TailElements ==
  ASSUME NEW S, NEW q \in Seq(S), q # <<>>
  PROVE  /\ Head(q) \in S
         /\ Elements(q) = Elements(Tail(q)) \cup {Head(q)}
         /\ Len(Tail(q)) = Len(q) - 1
         /\ Distinct(q) => Distinct(Tail(q)) /\ Head(q) \notin Elements(Tail(q))
<1>1. Len(q) \in Nat \ {0} /\ q[1] = Head(q) /\ Head(q) \in S
  OBVIOUS
<1>2. /\ Tail(q) \in Seq(S) /\ Len(Tail(q)) = Len(q) - 1
      /\ \A i \in 1..Len(Tail(q)) : Tail(q)[i] = q[i+1]
  OBVIOUS
<1>3. ASSUME NEW x \in Elements(q), x # Head(q) PROVE x \in Elements(Tail(q))
  <2>1. PICK i \in 1..Len(q) : x = q[i]
    BY <1>3 DEF Elements
  <2>2. i - 1 \in 1..Len(Tail(q)) /\ Tail(q)[i - 1] = x
    BY <1>1, <1>2, <1>3, <2>1
  <2> QED
    BY <2>2 DEF Elements
<1>4. Elements(Tail(q)) \cup {Head(q)} \subseteq Elements(q)
  BY <1>1, <1>2 DEF Elements
<1>5. ASSUME Distinct(q)
      PROVE  Distinct(Tail(q)) /\ Head(q) \notin Elements(Tail(q))
  BY <1>1, <1>2, <1>5 DEF Elements, Distinct
<1> QED
  BY <1>1, <1>2, <1>3, <1>4, <1>5

\* The queued sandboxes are at most as many as the entries of the deque.
LEMMA ElementsFinite ==
  ASSUME NEW S, NEW q \in Seq(S)
  PROVE  IsFiniteSet(Elements(q)) /\ Cardinality(Elements(q)) <= Len(q)
<1> DEFINE f == [i \in 1..Len(q) |-> q[i]]
<1>1. f \in Surjection(1..Len(q), Elements(q))
  BY DEF Surjection, Elements
<1>2. Len(q) \in Nat
  OBVIOUS
<1>3. IsFiniteSet(1..Len(q)) /\ Cardinality(1..Len(q)) = Len(q)
  BY <1>2, FS_Interval
<1> QED
  BY <1>1, <1>3, FS_Surjection
-----------------------------------------------------------------------------
\* The three steps that look at self._closed, in a pool that is open.
PreparedOpen(p) ==
  /\ ~Closed /\ At(p, "prepare") /\ Alive(hold[p])
  /\ life' = [life EXCEPT ![hold[p]] = "idle"]
  /\ ready' = Append(ready, hold[p])
  /\ Drop(p)
  /\ GotoAndSignal(p, "slot")
  /\ UNCHANGED <<phase, lock, slots, reclaiming, cancelled>>

RenewDueOpen(r) ==
  /\ ~Closed /\ At(r, "watch") /\ ready # <<>>
  /\ Let(r, Head(ready))
  /\ ready' = Tail(ready)
  /\ Goto(r, "renew")
  /\ UNCHANGED <<phase, lock, slots, reclaiming, cancelled, life>>

RenewKeptOpen(r) ==
  /\ ~Closed /\ At(r, "renew") /\ Alive(hold[r])
  /\ life' = [life EXCEPT ![hold[r]] = "idle"]
  /\ ready' = Append(ready, hold[r])
  /\ Drop(r)
  /\ GotoAndSignal(r, "watch")
  /\ UNCHANGED <<phase, lock, slots, reclaiming, cancelled>>

\* _close cancels every task of the pool as it sets self._closed, so no task is
\* at one of these awaits in a closed pool with nothing to be told.
LEMMA WorkingOpen ==
  ASSUME BaseInv, NEW t \in PoolTasks, NEW await \in Working, At(t, await)
  PROVE  ~Closed
BY PoolAssumption
   DEF BaseInv, PhaseDiscipline, Closed, At, Working, PoolTasks,
       PoolAssumption

\* Hence the exits on self._closed are not taken: the cancellation comes first.
LEMMA OpenSteps ==
  ASSUME BaseInv, NEW t \in PoolTasks
  PROVE  /\ Prepared(t) => PreparedOpen(t)
         /\ RenewDue(t) => RenewDueOpen(t)
         /\ RenewKept(t) => RenewKeptOpen(t)
<1>1. {"prepare", "watch", "renew"} \subseteq Working
  BY DEF Working
<1>2. At(t, "prepare") \/ At(t, "watch") \/ At(t, "renew") => ~Closed
  BY <1>1, WorkingOpen
<1> QED
  BY <1>2
     DEF Prepared, PreparedOpen, RenewDue, RenewDueOpen, RenewKept,
         RenewKeptOpen

\* The steps a run of the pool is made of: Next without the exits on
\* self._closed.
OpenCreatorStep(p) ==
  \/ TakeSlot(p) \/ Allocated(p) \/ AllocationFailed(p)
  \/ Booted(p) \/ BootFailed(p) \/ PreparedOpen(p) \/ PrepareFailed(p)
  \/ CreateCleaned(p) \/ BackoffOver(p)

OpenRenewerStep(r) ==
  RenewDueOpen(r) \/ RenewKeptOpen(r) \/ RenewFailed(r) \/ RenewCleaned(r)

OpenNext ==
  \/ Start \/ FillDone \/ OtherOwner \/ BeginClose \/ EndClose \/ LoopEnds
  \/ \E s \in Sandboxes : Expire(s) \/ Reclaim(s)
  \/ \E p \in Creators : OpenCreatorStep(p)
  \/ \E r \in Renewers : OpenRenewerStep(r)
  \/ \E t \in PoolTasks : CancelStep(t)
  \/ \E c \in Claims :
       Request(c) \/ AcquireStep(c) \/ Interrupt(c) \/ EpisodeStep(c)

\* Every step of the pool is one of these.
LEMMA NextOpen == BaseInv /\ [Next]_vars => [OpenNext]_vars
<1> SUFFICES ASSUME BaseInv, Next PROVE OpenNext
  OBVIOUS
<1>1. ASSUME NEW p \in Creators, CreatorStep(p) PROVE OpenCreatorStep(p)
  BY <1>1, OpenSteps DEF CreatorStep, OpenCreatorStep, PoolTasks
<1>2. ASSUME NEW r \in Renewers, RenewerStep(r) PROVE OpenRenewerStep(r)
  BY <1>2, OpenSteps DEF RenewerStep, OpenRenewerStep, PoolTasks
<1> QED
  BY <1>1, <1>2 DEF Next, OpenNext

\* Types, the sandbox in hand at each await, and the phases: each step of the
\* pool, of its shutdown and of the episodes keeps them.
LEMMA BaseStep == BaseInv /\ [Next]_vars => BaseInv'
<1> SUFFICES ASSUME BaseInv, [OpenNext]_vars PROVE BaseInv'
  BY NextOpen
<1> USE PoolAssumption DEF PoolAssumption, Tasks, PoolTasks, At, Goto,
        GotoAndSignal, Awaken, Let, Drop, BaseInv, TypeOK, HoldsMatchAwait,
        PhaseDiscipline, Holding, Working, Queued, Closed, CreatorAwaits,
        RenewerAwaits, ClaimAwaits
<1>1. CASE Start
  BY <1>1 DEF Start
<1>2. CASE FillDone
  BY <1>2 DEF FillDone
<1>3. CASE OtherOwner
  BY <1>3 DEF OtherOwner
<1>4. CASE BeginClose
  BY <1>4 DEF BeginClose, InsideClose
<1>5. CASE EndClose \/ LoopEnds
  BY <1>5 DEF EndClose, KeepAliveOver, LoopEnds, InsideClose
<1>6. CASE UNCHANGED vars
  BY <1>6 DEF vars
<1>7. ASSUME NEW s \in Sandboxes, Expire(s) \/ Reclaim(s)
      PROVE  BaseInv'
  <2>1. CASE Expire(s)
    BY <2>1 DEF Expire, Alive
  <2>2. CASE Reclaim(s)
    BY <2>2 DEF Reclaim, Kill
  <2> QED
    BY <1>7, <2>1, <2>2
<1>8. ASSUME NEW p \in Creators, OpenCreatorStep(p)
      PROVE  BaseInv'
  <2>1. CASE TakeSlot(p)
    BY <2>1 DEF TakeSlot
  <2>2. CASE Allocated(p)
    BY <2>2 DEF Allocated, Fresh, Alive
  <2>3. CASE AllocationFailed(p)
    BY <2>3 DEF AllocationFailed, GiveSlotBack
  <2>4. CASE Booted(p)
    BY <2>4 DEF Booted
  <2>5. CASE BootFailed(p)
    BY <2>5 DEF BootFailed
  <2>6. CASE PreparedOpen(p)
    BY <2>6 DEF PreparedOpen, Alive
  <2>7. CASE PrepareFailed(p)
    BY <2>7 DEF PrepareFailed, RenewUnanswered, Alive
  <2>8. CASE CreateCleaned(p)
    BY <2>8 DEF CreateCleaned, Kill, GiveSlotBack
  <2>9. CASE BackoffOver(p)
    BY <2>9 DEF BackoffOver
  <2> QED
    BY <1>8, <2>1, <2>2, <2>3, <2>4, <2>5, <2>6, <2>7, <2>8, <2>9
       DEF OpenCreatorStep
<1>9. ASSUME NEW r \in Renewers, OpenRenewerStep(r)
      PROVE  BaseInv'
  <2>1. CASE RenewDueOpen(r)
    BY <2>1 DEF RenewDueOpen
  <2>2. CASE RenewKeptOpen(r)
    BY <2>2 DEF RenewKeptOpen, Alive
  <2>3. CASE RenewFailed(r)
    BY <2>3 DEF RenewFailed, RenewUnanswered, Alive
  <2>4. CASE RenewCleaned(r)
    BY <2>4 DEF RenewCleaned, Kill
  <2> QED
    BY <1>9, <2>1, <2>2, <2>3, <2>4 DEF OpenRenewerStep
<1>10. ASSUME NEW t \in PoolTasks, CancelStep(t)
      PROVE  BaseInv'
  <2>1. CASE CancelIdle(t)
    BY <2>1 DEF CancelIdle
  <2>2. CASE CancelAllocation(t)
    BY <2>2 DEF CancelAllocation
  <2>3. CASE CancelHolding(t)
    BY <2>3 DEF CancelHolding, RenewUnanswered, Alive
  <2>4. CASE CancelInsideClose(t)
    BY <2>4 DEF CancelInsideClose, InsideClose
  <2>5. CASE Resolved(t)
    BY <2>5 DEF Resolved, Fresh, Alive
  <2>6. CASE ResolvedEmpty(t)
    BY <2>6 DEF ResolvedEmpty
  <2>7. CASE Unwound(t)
    BY <2>7 DEF Unwound, Kill
  <2> QED
    BY <1>10, <2>1, <2>2, <2>3, <2>4, <2>5, <2>6, <2>7 DEF CancelStep
<1>11. ASSUME NEW c \in Claims,
             Request(c) \/ AcquireStep(c) \/ Interrupt(c) \/ EpisodeStep(c)
      PROVE  BaseInv'
  <2>1. CASE Request(c)
    BY <2>1 DEF Request
  <2>2. CASE RefusedClosed(c)
    BY <2>2 DEF RefusedClosed, Closed
  <2>3. CASE WaitForChange(c)
    BY <2>3 DEF WaitForChange, Closed
  <2>4. CASE TakeReady(c)
    BY <2>4 DEF TakeReady, Closed
  <2>5. CASE Claimed(c)
    BY <2>5 DEF Claimed, Alive
  <2>6. CASE ClaimStale(c)
    BY <2>6 DEF ClaimStale, RenewUnanswered, Alive
  <2>7. CASE Discarded(c)
    BY <2>7 DEF Discarded, Kill
  <2>8. CASE InterruptWait(c)
    BY <2>8 DEF InterruptWait
  <2>9. CASE InterruptClaim(c)
    BY <2>9 DEF InterruptClaim, RenewUnanswered, Alive
  <2>10. CASE InterruptClose(c)
    BY <2>10 DEF InterruptClose
  <2>11. CASE EndEpisode(c)
    BY <2>11 DEF EndEpisode
  <2>12. CASE Released(c)
    BY <2>12 DEF Released, Kill
  <2> QED
    BY <1>11, <2>1, <2>2, <2>3, <2>4, <2>5, <2>6, <2>7, <2>8, <2>9, <2>10,
       <2>11, <2>12 DEF AcquireStep, Interrupt, EpisodeStep
<1> QED
  BY <1>1, <1>2, <1>3, <1>4, <1>5, <1>6, <1>7, <1>8, <1>9, <1>10, <1>11
     DEF OpenNext

\* Whatever puts a sandbox in _ready sets _changed, and close() wakes all, so no
\* step leaves a claim asleep beside a ready sandbox.
LEMMA SleeperStep ==
  BaseInv /\ NoSleeperWhileReady /\ [Next]_vars => NoSleeperWhileReady'
<1> SUFFICES ASSUME BaseInv, NoSleeperWhileReady, [OpenNext]_vars
             PROVE  NoSleeperWhileReady'
  BY NextOpen
<1> USE PoolAssumption DEF PoolAssumption, Tasks, PoolTasks, At, Goto,
        GotoAndSignal, Awaken, Let, Drop, BaseInv, TypeOK, CreatorAwaits,
        RenewerAwaits, NoSleeperWhileReady, Closed
<1>1. CASE Start \/ FillDone \/ OtherOwner \/ BeginClose \/ EndClose
           \/ LoopEnds \/ UNCHANGED vars
  BY <1>1
     DEF Start, FillDone, OtherOwner, BeginClose, InsideClose, EndClose,
         LoopEnds, vars
<1>2. ASSUME NEW s \in Sandboxes, Expire(s) \/ Reclaim(s)
      PROVE  NoSleeperWhileReady'
  BY <1>2 DEF Expire, Alive, Reclaim, Kill
<1>3. ASSUME NEW p \in Creators, OpenCreatorStep(p)
      PROVE  NoSleeperWhileReady'
  <2>1. CASE TakeSlot(p) \/ Allocated(p) \/ AllocationFailed(p) \/ Booted(p)
             \/ BootFailed(p) \/ PreparedOpen(p)
    BY <2>1
       DEF TakeSlot, Allocated, Fresh, Alive, AllocationFailed, GiveSlotBack,
           Booted, BootFailed, PreparedOpen
  <2>2. CASE PrepareFailed(p) \/ CreateCleaned(p) \/ BackoffOver(p)
    BY <2>2
       DEF PrepareFailed, RenewUnanswered, Alive, CreateCleaned, Kill,
           GiveSlotBack, BackoffOver
  <2> QED
    BY <1>3, <2>1, <2>2 DEF OpenCreatorStep
<1>4. ASSUME NEW r \in Renewers, OpenRenewerStep(r)
      PROVE  NoSleeperWhileReady'
  BY <1>4
     DEF RenewDueOpen, RenewKeptOpen, Alive, RenewFailed, RenewUnanswered,
         RenewCleaned, Kill, OpenRenewerStep
<1>5. ASSUME NEW t \in PoolTasks, CancelStep(t)
      PROVE  NoSleeperWhileReady'
  <2>1. CASE CancelIdle(t) \/ CancelAllocation(t) \/ CancelHolding(t)
             \/ CancelInsideClose(t) \/ Resolved(t) \/ ResolvedEmpty(t)
    BY <2>1
       DEF CancelIdle, CancelAllocation, CancelHolding, RenewUnanswered,
           Alive, CancelInsideClose, InsideClose, Resolved, Fresh, ResolvedEmpty
  <2>2. CASE Unwound(t)
    BY <2>2 DEF Unwound, Kill
  <2> QED
    BY <1>5, <2>1, <2>2 DEF CancelStep
<1>6. ASSUME NEW c \in Claims,
             Request(c) \/ AcquireStep(c) \/ Interrupt(c) \/ EpisodeStep(c)
      PROVE  NoSleeperWhileReady'
  <2>1. CASE Request(c) \/ RefusedClosed(c) \/ WaitForChange(c)
             \/ TakeReady(c) \/ Claimed(c) \/ ClaimStale(c)
    BY <2>1
       DEF Request, RefusedClosed, Closed, WaitForChange, TakeReady, Claimed,
           Alive, ClaimStale, RenewUnanswered
  <2>2. CASE Discarded(c) \/ InterruptWait(c) \/ InterruptClaim(c)
             \/ InterruptClose(c) \/ EndEpisode(c) \/ Released(c)
    BY <2>2
       DEF Discarded, Kill, InterruptWait, InterruptClaim, RenewUnanswered,
           Alive, InterruptClose, EndEpisode, Released
  <2> QED
    BY <1>6, <2>1, <2>2 DEF AcquireStep, Interrupt, EpisodeStep
<1> QED
  BY <1>1, <1>2, <1>3, <1>4, <1>5, <1>6 DEF OpenNext

\* No step of a renewal or of an allocation touches an instance that an
\* episode owns.
LEMMA LifetimeStep ==
  BaseInv /\ ExclusiveOwner /\ ActiveLifetime /\ [Next]_vars => ActiveLifetime'
<1> SUFFICES ASSUME BaseInv, ExclusiveOwner, ActiveLifetime, [OpenNext]_vars
             PROVE  ActiveLifetime'
  BY NextOpen
<1> USE PoolAssumption DEF PoolAssumption, Tasks, PoolTasks, At, Goto,
        GotoAndSignal, Awaken, Let, Drop, BaseInv, TypeOK, HoldsMatchAwait,
        Holding, CreatorAwaits, RenewerAwaits, ExclusiveOwner, ActiveLifetime,
        Closed
<1>1. CASE Start \/ FillDone \/ OtherOwner \/ BeginClose \/ EndClose
           \/ LoopEnds \/ UNCHANGED vars
  BY <1>1
     DEF Start, FillDone, OtherOwner, BeginClose, InsideClose, EndClose,
         LoopEnds, vars
<1>2. ASSUME NEW s \in Sandboxes, Expire(s) \/ Reclaim(s)
      PROVE  ActiveLifetime'
  BY <1>2 DEF Expire, Alive, Reclaim, Kill
<1>3. ASSUME NEW p \in Creators, OpenCreatorStep(p)
      PROVE  ActiveLifetime'
  <2>1. CASE TakeSlot(p) \/ Allocated(p) \/ AllocationFailed(p) \/ Booted(p)
             \/ BootFailed(p) \/ PreparedOpen(p)
    BY <2>1
       DEF TakeSlot, Allocated, Fresh, Alive, Referenced, HeldBy,
           AllocationFailed, GiveSlotBack, Booted, BootFailed, PreparedOpen
  <2>2. CASE PrepareFailed(p) \/ CreateCleaned(p) \/ BackoffOver(p)
    BY <2>2
       DEF PrepareFailed, RenewUnanswered, Alive, CreateCleaned, Kill,
           GiveSlotBack, BackoffOver
  <2> QED
    BY <1>3, <2>1, <2>2 DEF OpenCreatorStep
<1>4. ASSUME NEW r \in Renewers, OpenRenewerStep(r)
      PROVE  ActiveLifetime'
  BY <1>4
     DEF RenewDueOpen, RenewKeptOpen, Alive, RenewFailed, RenewUnanswered,
         RenewCleaned, Kill, OpenRenewerStep
<1>5. ASSUME NEW t \in PoolTasks, CancelStep(t)
      PROVE  ActiveLifetime'
  <2>1. CASE CancelIdle(t) \/ CancelAllocation(t) \/ CancelHolding(t)
             \/ CancelInsideClose(t) \/ Resolved(t) \/ ResolvedEmpty(t)
    BY <2>1
       DEF CancelIdle, CancelAllocation, CancelHolding, RenewUnanswered,
           Alive, CancelInsideClose, InsideClose, Resolved, Fresh, Referenced,
           HeldBy, ResolvedEmpty
  <2>2. CASE Unwound(t)
    BY <2>2 DEF Unwound, Kill
  <2> QED
    BY <1>5, <2>1, <2>2 DEF CancelStep
<1>6. ASSUME NEW c \in Claims,
             Request(c) \/ AcquireStep(c) \/ Interrupt(c) \/ EpisodeStep(c)
      PROVE  ActiveLifetime'
  <2>1. CASE Request(c) \/ RefusedClosed(c) \/ WaitForChange(c)
             \/ TakeReady(c) \/ Claimed(c) \/ ClaimStale(c)
    BY <2>1
       DEF Request, RefusedClosed, Closed, WaitForChange, TakeReady, Claimed,
           Alive, ClaimStale, RenewUnanswered
  <2>2. CASE Discarded(c) \/ InterruptWait(c) \/ InterruptClaim(c)
             \/ InterruptClose(c) \/ EndEpisode(c) \/ Released(c)
    BY <2>2
       DEF Discarded, Kill, InterruptWait, InterruptClaim, RenewUnanswered,
           Alive, InterruptClose, EndEpisode, Released
  <2> QED
    BY <1>6, <2>1, <2>2 DEF AcquireStep, Interrupt, EpisodeStep
<1> QED
  BY <1>1, <1>2, <1>3, <1>4, <1>5, <1>6 DEF OpenNext

\* Who refers to a sandbox depends on the queue, on what is being reclaimed
\* and on what the tasks hold.
LEMMA HandsStay ==
  ASSUME ExclusiveOwner, UNCHANGED <<ready, reclaiming, hold>>
  PROVE  ExclusiveOwner'
BY DEF ExclusiveOwner, HeldBy, Queued

\* A task that lets go leaves the others as they are.
LEMMA HandEmptied ==
  ASSUME ExclusiveOwner, hold \in [Tasks -> Sandboxes \cup {NoSandbox}],
         NEW t \in Tasks, hold' = [hold EXCEPT ![t] = NoSandbox],
         UNCHANGED <<ready, reclaiming>>
  PROVE  ExclusiveOwner'
<1>1. Queued' = Queued
  BY DEF Queued
<1>2. HeldBy(Tasks)' \subseteq HeldBy(Tasks)
  BY DEF HeldBy
<1> QED
  BY <1>1, <1>2 DEF ExclusiveOwner

\* No step puts one sandbox in two hands: renewals and claims pop the deque
\* before their first await, and what is appended is in no other hand.
LEMMA OwnerStep == BaseInv /\ ExclusiveOwner /\ [Next]_vars => ExclusiveOwner'
<1> SUFFICES ASSUME BaseInv, ExclusiveOwner, [OpenNext]_vars
             PROVE  ExclusiveOwner'
  BY NextOpen
<1> USE PoolAssumption DEF PoolAssumption, Tasks, PoolTasks, At, Goto,
        GotoAndSignal, Awaken, Let, Drop, BaseInv, TypeOK, HoldsMatchAwait,
        Holding, PhaseDiscipline, CreatorAwaits,
        RenewerAwaits, ClaimAwaits
<1>a. Queued = Elements(ready) /\ Queued' = Elements(ready)'
  BY DEF Queued, Elements
<1>b. Distinct(ready)
  BY DEF ExclusiveOwner, Distinct
<1>c. ASSUME Distinct(ready)' , 
             \A t, u \in Tasks :
               hold'[t] = hold'[u] => t = u \/ hold'[t] = NoSandbox,
             HeldBy(Tasks)' \cap (Queued \cup reclaiming)' = {},
             Queued' \cap reclaiming' = {}
      PROVE ExclusiveOwner'
  BY <1>c DEF ExclusiveOwner, Distinct
<1>1. CASE Start
  BY <1>1 DEF Start, ExclusiveOwner, HeldBy, Queued
<1>2. CASE FillDone
  BY <1>2, HandsStay DEF FillDone
<1>3. CASE OtherOwner
  BY <1>3, HandsStay DEF OtherOwner
<1>4. CASE BeginClose
  BY <1>4 DEF BeginClose, InsideClose, ExclusiveOwner, HeldBy, Queued
<1>5. CASE EndClose \/ LoopEnds
  BY <1>5, HandsStay DEF EndClose, LoopEnds
<1>6. ASSUME NEW s \in Sandboxes, Expire(s) \/ Reclaim(s)
      PROVE  ExclusiveOwner'
  <2>1. CASE Expire(s)
    BY <2>1, HandsStay DEF Expire
  <2>2. CASE Reclaim(s)
    BY <2>2 DEF Reclaim, ExclusiveOwner, HeldBy, Queued
  <2> QED
    BY <1>6, <2>1, <2>2
<1>7. ASSUME NEW p \in Creators, OpenCreatorStep(p)
      PROVE  ExclusiveOwner'
  <2>1. CASE TakeSlot(p)
    BY <2>1, HandsStay DEF TakeSlot
  <2>2. CASE Allocated(p)
    BY <2>2
       DEF Allocated, Fresh, Alive, ExclusiveOwner, HeldBy, Queued, Referenced
  <2>3. CASE AllocationFailed(p)
    BY <2>3, HandsStay DEF AllocationFailed
  <2>4. CASE Booted(p)
    BY <2>4, HandsStay DEF Booted
  <2>5. CASE BootFailed(p)
    BY <2>5, HandsStay DEF BootFailed
  <2>6. CASE PreparedOpen(p)
    <3>1. hold[p] \in Sandboxes /\ hold[p] \notin Queued
      BY <2>6 DEF PreparedOpen, ExclusiveOwner, HeldBy
    <3>2. Queued' = Queued \cup {hold[p]} /\ Distinct(ready)'
      BY <2>6, <3>1, <1>a, <1>b, AppendElements DEF PreparedOpen, Distinct
    <3>3. HeldBy(Tasks)' = HeldBy(Tasks) \ {hold[p]}
      BY <2>6, <3>1 DEF PreparedOpen, HeldBy, ExclusiveOwner
    <3> QED
      BY <2>6, <3>1, <3>2, <3>3, <1>c DEF PreparedOpen, ExclusiveOwner
  <2>7. CASE PrepareFailed(p)
    BY <2>7 DEF PrepareFailed, ExclusiveOwner, HeldBy, Queued
  <2>8. CASE CreateCleaned(p)
    BY <2>8, HandEmptied DEF CreateCleaned
  <2>9. CASE BackoffOver(p)
    BY <2>9, HandsStay DEF BackoffOver
  <2> QED
    BY <1>7, <2>1, <2>2, <2>3, <2>4, <2>5, <2>6, <2>7, <2>8, <2>9
       DEF OpenCreatorStep
<1>8. ASSUME NEW r \in Renewers, OpenRenewerStep(r)
      PROVE  ExclusiveOwner'
  <2>1. CASE RenewDueOpen(r)
    <3>1. /\ Head(ready) \in Queued /\ Head(ready) \in Sandboxes
         /\ Queued' = Queued \ {Head(ready)} /\ Distinct(ready)'
      BY <2>1, <1>a, <1>b, TailElements DEF RenewDueOpen, Distinct
    <3>2. HeldBy(Tasks)' = HeldBy(Tasks) \cup {Head(ready)}
      BY <2>1, <3>1 DEF RenewDueOpen, HeldBy, ExclusiveOwner
    <3> QED
      BY <2>1, <3>1, <3>2, <1>c DEF RenewDueOpen, ExclusiveOwner, HeldBy
  <2>2. CASE RenewKeptOpen(r)
    <3>1. hold[r] \in Sandboxes /\ hold[r] \notin Queued
      BY <2>2 DEF RenewKeptOpen, ExclusiveOwner, HeldBy
    <3>2. Queued' = Queued \cup {hold[r]} /\ Distinct(ready)'
      BY <2>2, <3>1, <1>a, <1>b, AppendElements DEF RenewKeptOpen, Distinct
    <3>3. HeldBy(Tasks)' = HeldBy(Tasks) \ {hold[r]}
      BY <2>2, <3>1 DEF RenewKeptOpen, HeldBy, ExclusiveOwner
    <3> QED
      BY <2>2, <3>1, <3>2, <3>3, <1>c DEF RenewKeptOpen, ExclusiveOwner
  <2>3. CASE RenewFailed(r)
    BY <2>3, HandsStay DEF RenewFailed
  <2>4. CASE RenewCleaned(r)
    BY <2>4, HandEmptied DEF RenewCleaned
  <2> QED
    BY <1>8, <2>1, <2>2, <2>3, <2>4 DEF OpenRenewerStep
<1>9. ASSUME NEW t \in PoolTasks, CancelStep(t)
      PROVE  ExclusiveOwner'
  <2>1. CASE CancelIdle(t)
    BY <2>1, HandsStay DEF CancelIdle
  <2>2. CASE CancelAllocation(t)
    BY <2>2, HandsStay DEF CancelAllocation
  <2>3. CASE CancelHolding(t)
    BY <2>3, HandsStay DEF CancelHolding
  <2>4. CASE CancelInsideClose(t)
    BY <2>4, HandEmptied DEF CancelInsideClose
  <2>5. CASE Resolved(t)
    BY <2>5
       DEF Resolved, Fresh, Alive, ExclusiveOwner, HeldBy, Queued, Referenced
  <2>6. CASE ResolvedEmpty(t)
    BY <2>6, HandsStay DEF ResolvedEmpty
  <2>7. CASE Unwound(t)
    BY <2>7, HandEmptied DEF Unwound
  <2> QED
    BY <1>9, <2>1, <2>2, <2>3, <2>4, <2>5, <2>6, <2>7 DEF CancelStep
<1>10. ASSUME NEW c \in Claims,
              Request(c) \/ AcquireStep(c) \/ Interrupt(c) \/ EpisodeStep(c)
      PROVE  ExclusiveOwner'
  <2>1. CASE Request(c)
    BY <2>1, HandsStay DEF Request
  <2>2. CASE RefusedClosed(c)
    BY <2>2, HandsStay DEF RefusedClosed
  <2>3. CASE WaitForChange(c)
    BY <2>3, HandsStay DEF WaitForChange
  <2>4. CASE TakeReady(c)
    <3>1. /\ Head(ready) \in Queued /\ Head(ready) \in Sandboxes
         /\ Queued' = Queued \ {Head(ready)} /\ Distinct(ready)'
      BY <2>4, <1>a, <1>b, TailElements DEF TakeReady, Distinct
    <3>2. HeldBy(Tasks)' = HeldBy(Tasks) \cup {Head(ready)}
      BY <2>4, <3>1 DEF TakeReady, HeldBy, ExclusiveOwner
    <3> QED
      BY <2>4, <3>1, <3>2, <1>c DEF TakeReady, ExclusiveOwner, HeldBy
  <2>5. CASE Claimed(c)
    BY <2>5, HandsStay DEF Claimed
  <2>6. CASE ClaimStale(c)
    BY <2>6, HandsStay DEF ClaimStale
  <2>7. CASE Discarded(c)
    BY <2>7, HandEmptied DEF Discarded
  <2>8. CASE InterruptWait(c)
    BY <2>8, HandsStay DEF InterruptWait
  <2>9. CASE InterruptClaim(c)
    BY <2>9, HandsStay DEF InterruptClaim
  <2>10. CASE InterruptClose(c)
    BY <2>10, HandEmptied DEF InterruptClose
  <2>11. CASE EndEpisode(c)
    BY <2>11, HandsStay DEF EndEpisode
  <2>12. CASE Released(c)
    BY <2>12, HandEmptied DEF Released
  <2> QED
    BY <1>10, <2>1, <2>2, <2>3, <2>4, <2>5, <2>6, <2>7, <2>8, <2>9, <2>10,
       <2>11, <2>12 DEF AcquireStep, Interrupt, EpisodeStep
<1>11. CASE UNCHANGED vars
  BY <1>11 DEF vars, ExclusiveOwner, HeldBy, Queued
<1> QED
  BY <1>1, <1>2, <1>3, <1>4, <1>5, <1>6, <1>7, <1>8, <1>9, <1>10, <1>11
     DEF OpenNext
-----------------------------------------------------------------------------
\* Only the pool's own tasks hold permits, so they can be counted.
LEMMA FiniteHolders ==
  /\ IsFiniteSet(PoolTasks) /\ IsFiniteSet(SlotHolders)
  /\ Cardinality(SlotHolders) \in Nat
<1>1. IsFiniteSet(PoolTasks)
  BY PoolAssumption, FS_Union DEF PoolTasks, PoolAssumption
<1>2. SlotHolders \subseteq PoolTasks
  BY DEF SlotHolders, PoolTasks
<1> QED
  BY <1>1, <1>2, FS_Subset, FS_CardinalityType

\* How a step may move the permits: none appears, none is lost while open.
PermitsKept ==
  /\ IsFiniteSet(reclaiming')
  /\ slots' \in Nat /\ Len(ready') \in Nat
  /\ Closed' =>
       Cardinality(SlotHolders') + Len(ready') + Cardinality(reclaiming')
         <= Cardinality(SlotHolders) + Len(ready) + Cardinality(reclaiming)
  /\ ~Closed' =>
       /\ ~Closed
       /\ slots' + Cardinality(SlotHolders') + Len(ready')
            = slots + Cardinality(SlotHolders) + Len(ready)

\* Each acquire, release and hand-over of a permit keeps the account: no step
\* of _produce, _renew_one_due, acquire or _close loses or doubles one.
LEMMA SlotStep == BaseInv /\ SlotInv /\ [Next]_vars => SlotInv'
<1> SUFFICES ASSUME BaseInv, SlotInv, [Next]_vars, [OpenNext]_vars
             PROVE  SlotInv'
  BY NextOpen
<1>a. /\ IsFiniteSet(SlotHolders) /\ IsFiniteSet(reclaiming)
      /\ Cardinality(SlotHolders) \in Nat /\ Len(ready) \in Nat
      /\ Cardinality(reclaiming) \in Nat /\ slots \in Nat /\ Size \in Nat
      /\ ready \in Seq(Sandboxes)
      /\ phase \in {"new", "filling", "serving", "closing", "closed"}
  BY PoolAssumption, FiniteHolders, FS_CardinalityType
     DEF PoolAssumption, SlotInv, SlotBound, BaseInv, TypeOK
<1>b. Cardinality(SlotHolders') \in Nat /\ BaseInv'
  <2>1. SlotHolders' \subseteq PoolTasks
    BY DEF SlotHolders, PoolTasks
  <2> QED
    BY <2>1, BaseStep, FiniteHolders, FS_Subset, FS_CardinalityType
<1>c. slots' \in Nat /\ Len(ready') \in Nat
  BY <1>b DEF BaseInv, TypeOK
<1>d. ASSUME SlotHolders' = SlotHolders,
             UNCHANGED <<slots, ready, reclaiming>>, ~Closed' => ~Closed
      PROVE PermitsKept
  BY <1>a, <1>d DEF PermitsKept
<1>g. \A t : t \notin SlotHolders =>
        Cardinality(SlotHolders \cup {t}) = Cardinality(SlotHolders) + 1
  BY <1>a, FS_AddElement
<1>h. \A t \in SlotHolders :
        Cardinality(SlotHolders \ {t}) = Cardinality(SlotHolders) - 1
  BY <1>a, FS_RemoveElement
<1>i. \A s : /\ IsFiniteSet(reclaiming \ {s})
             /\ Cardinality(reclaiming \ {s}) \in Nat
             /\ Cardinality(reclaiming \ {s}) <= Cardinality(reclaiming)
  <2> TAKE s
  <2>1. /\ IsFiniteSet(reclaiming \ {s})
        /\ Cardinality(reclaiming \ {s}) \in
             {Cardinality(reclaiming), Cardinality(reclaiming) - 1}
    BY <1>a, FS_RemoveElement
  <2>2. Cardinality(reclaiming \ {s}) \in Nat
    BY <2>1, FS_CardinalityType
  <2> QED
    BY <1>a, <2>1, <2>2
<1>e. ASSUME NEW t, Closed, UNCHANGED <<phase, ready, reclaiming>>,
             SlotHolders' \in {SlotHolders, SlotHolders \ {t}}
      PROVE PermitsKept
  <2>1. Cardinality(SlotHolders') <= Cardinality(SlotHolders)
    <3>1. CASE t \in SlotHolders /\ SlotHolders' = SlotHolders \ {t}
      BY <1>a, <1>h, <3>1
    <3>2. CASE SlotHolders' = SlotHolders
      BY <1>a, <3>2
    <3> QED
      BY <1>e, <3>1, <3>2
  <2> QED
    BY <1>a, <1>b, <1>c, <1>e, <2>1 DEF PermitsKept, Closed
<1>f. SUFFICES PermitsKept
  <2>1. SlotAccounting'
    BY <1>f DEF PermitsKept, SlotInv, SlotAccounting
  <2>2. CASE Closed'
    BY <1>a, <1>b, <1>c, <1>f, <2>1, <2>2, FS_CardinalityType
       DEF PermitsKept, SlotInv, SlotBound
  <2>3. CASE ~Closed'
    <3>1. Cardinality(reclaiming') = 0
      BY <1>b, <2>3, FS_EmptySet DEF BaseInv, PhaseDiscipline, Closed
    <3> QED
      BY <1>a, <1>b, <1>c, <1>f, <2>1, <2>3, <3>1
         DEF PermitsKept, SlotInv, SlotBound, SlotAccounting
  <2> QED
    BY <2>2, <2>3
<1>k. ASSUME NEW t \in PoolTasks, NEW await \in Working, At(t, await)
      PROVE  ~Closed
  BY <1>k, WorkingOpen
<1> USE PoolAssumption DEF PoolAssumption, At, Goto, GotoAndSignal, Awaken,
        Tasks, PoolTasks, CreatorAwaits, RenewerAwaits
<1>1. CASE Start \/ FillDone \/ OtherOwner \/ EndClose \/ LoopEnds
           \/ UNCHANGED vars
  BY <1>1, <1>d
     DEF Start, Closed, SlotHolders, BaseInv, TypeOK, PhaseDiscipline,
         Working, FillDone, OtherOwner, EndClose, LoopEnds, vars
<1>2. CASE BeginClose
  <2>1. SlotHolders' = SlotHolders
    BY <1>2
       DEF BeginClose, InsideClose, SlotHolders, BaseInv, TypeOK,
           PhaseDiscipline, Working
  <2>2. /\ IsFiniteSet(reclaiming') /\ Cardinality(reclaiming') \in Nat
       /\ Cardinality(reclaiming') <= Len(ready)
    BY <1>2, <1>a, ElementsFinite, FS_CardinalityType
       DEF BeginClose, Queued, Elements
  <2> QED
    BY <1>2, <1>a, <1>b, <1>c, <2>1, <2>2 DEF BeginClose, PermitsKept, Closed
<1>3. ASSUME NEW s \in Sandboxes, Expire(s) \/ Reclaim(s)
      PROVE  PermitsKept
  <2>1. CASE Expire(s)
    BY <2>1, <1>d
       DEF Expire, Closed, SlotHolders, BaseInv, TypeOK, PhaseDiscipline,
           Working
  <2>2. CASE Reclaim(s)
    <3>1. SlotHolders' = SlotHolders
      BY <2>2
         DEF Reclaim, SlotHolders, BaseInv, TypeOK, PhaseDiscipline, Working
    <3>2. /\ IsFiniteSet(reclaiming') /\ Cardinality(reclaiming') \in Nat
         /\ Cardinality(reclaiming') <= Cardinality(reclaiming)
      BY <2>2, <1>i DEF Reclaim
    <3> QED
      BY <2>2, <1>a, <1>b, <1>c, <3>1, <3>2 DEF Reclaim, PermitsKept, Closed
  <2> QED
    BY <1>3, <2>1, <2>2
<1>4. ASSUME NEW p \in Creators, OpenCreatorStep(p)
      PROVE  PermitsKept
  <2>1. CASE Allocated(p) \/ Booted(p) \/ BootFailed(p) \/ PrepareFailed(p)
             \/ BackoffOver(p)
    BY <2>1, <1>d
       DEF Allocated, Closed, SlotHolders, BaseInv, TypeOK, PhaseDiscipline,
           Working, Booted, BootFailed, PrepareFailed, BackoffOver
  <2>2. CASE TakeSlot(p)
    <3>1. SlotHolders' = SlotHolders \cup {p} /\ p \notin SlotHolders
      BY <2>2
         DEF TakeSlot, SlotHolders, BaseInv, TypeOK, PhaseDiscipline, Working
    <3>2. Cardinality(SlotHolders') = Cardinality(SlotHolders) + 1
      BY <3>1, <1>g
    <3>3. Len(ready') = Len(ready)
      BY <2>2 DEF TakeSlot
    <3>4. ~Closed /\ ~Closed' /\ UNCHANGED reclaiming
      BY <2>2, <1>k DEF TakeSlot, Closed, Working
    <3>5. slots' = slots - 1
      BY <2>2 DEF TakeSlot
    <3> QED
      BY <1>a, <1>b, <1>c, <3>2, <3>3, <3>4, <3>5 DEF PermitsKept
  <2>3. CASE AllocationFailed(p)
    <3>1. SlotHolders' = SlotHolders \ {p} /\ p \in SlotHolders
      BY <2>3
         DEF AllocationFailed, GiveSlotBack, SlotHolders, BaseInv, TypeOK,
             PhaseDiscipline, Working
    <3>2. Cardinality(SlotHolders') = Cardinality(SlotHolders) - 1
      BY <3>1, <1>h
    <3>3. Len(ready') = Len(ready)
      BY <2>3 DEF AllocationFailed
    <3>4. ~Closed /\ ~Closed' /\ UNCHANGED reclaiming
      BY <2>3, <1>k DEF AllocationFailed, Closed, Working
    <3>5. slots' = slots + 1
      BY <2>3 DEF AllocationFailed, GiveSlotBack
    <3> QED
      BY <1>a, <1>b, <1>c, <3>2, <3>3, <3>4, <3>5 DEF PermitsKept
  <2>4. CASE PreparedOpen(p)
    <3>1. SlotHolders' = SlotHolders \ {p} /\ p \in SlotHolders
      BY <2>4
         DEF PreparedOpen, SlotHolders, BaseInv, TypeOK, PhaseDiscipline,
             Working
    <3>2. Cardinality(SlotHolders') = Cardinality(SlotHolders) - 1
      BY <3>1, <1>h
    <3>3. Len(ready') = Len(ready) + 1
      BY <2>4, <1>a, AppendElements
         DEF PreparedOpen, BaseInv, HoldsMatchAwait, Holding
    <3>4. ~Closed /\ ~Closed' /\ UNCHANGED reclaiming
      BY <2>4, <1>k DEF PreparedOpen, Closed, Working
    <3>5. slots' = slots
      BY <2>4 DEF PreparedOpen
    <3> QED
      BY <1>a, <1>b, <1>c, <3>2, <3>3, <3>4, <3>5 DEF PermitsKept
  <2>5. CASE CreateCleaned(p)
    <3>1. SlotHolders' = SlotHolders \ {p} /\ p \in SlotHolders
      BY <2>5
         DEF CreateCleaned, GiveSlotBack, SlotHolders, BaseInv, TypeOK,
             PhaseDiscipline, Working
    <3>2. Cardinality(SlotHolders') = Cardinality(SlotHolders) - 1
      BY <3>1, <1>h
    <3>3. Len(ready') = Len(ready)
      BY <2>5 DEF CreateCleaned
    <3>4. ~Closed /\ ~Closed' /\ UNCHANGED reclaiming
      BY <2>5, <1>k DEF CreateCleaned, Closed, Working
    <3>5. slots' = slots + 1
      BY <2>5 DEF CreateCleaned, GiveSlotBack
    <3> QED
      BY <1>a, <1>b, <1>c, <3>2, <3>3, <3>4, <3>5 DEF PermitsKept
  <2> QED
    BY <1>4, <2>1, <2>2, <2>3, <2>4, <2>5 DEF OpenCreatorStep
<1>5. ASSUME NEW r \in Renewers, OpenRenewerStep(r)
      PROVE  PermitsKept
  <2>1. CASE RenewFailed(r)
    BY <2>1, <1>d
       DEF RenewFailed, Closed, SlotHolders, BaseInv, TypeOK, PhaseDiscipline,
           Working
  <2>2. CASE RenewDueOpen(r)
    <3>1. SlotHolders' = SlotHolders \cup {r} /\ r \notin SlotHolders
      BY <2>2
         DEF RenewDueOpen, SlotHolders, BaseInv, TypeOK, PhaseDiscipline,
             Working
    <3>2. Cardinality(SlotHolders') = Cardinality(SlotHolders) + 1
      BY <3>1, <1>g
    <3>3. Len(ready') = Len(ready) - 1
      BY <2>2, <1>a, TailElements DEF RenewDueOpen
    <3>4. ~Closed /\ ~Closed' /\ UNCHANGED reclaiming
      BY <2>2, <1>k DEF RenewDueOpen, Closed, Working
    <3>5. slots' = slots
      BY <2>2 DEF RenewDueOpen
    <3> QED
      BY <1>a, <1>b, <1>c, <3>2, <3>3, <3>4, <3>5 DEF PermitsKept
  <2>3. CASE RenewKeptOpen(r)
    <3>1. SlotHolders' = SlotHolders \ {r} /\ r \in SlotHolders
      BY <2>3
         DEF RenewKeptOpen, SlotHolders, BaseInv, TypeOK, PhaseDiscipline,
             Working
    <3>2. Cardinality(SlotHolders') = Cardinality(SlotHolders) - 1
      BY <3>1, <1>h
    <3>3. Len(ready') = Len(ready) + 1
      BY <2>3, <1>a, AppendElements
         DEF RenewKeptOpen, BaseInv, HoldsMatchAwait, Holding
    <3>4. ~Closed /\ ~Closed' /\ UNCHANGED reclaiming
      BY <2>3, <1>k DEF RenewKeptOpen, Closed, Working
    <3>5. slots' = slots
      BY <2>3 DEF RenewKeptOpen
    <3> QED
      BY <1>a, <1>b, <1>c, <3>2, <3>3, <3>4, <3>5 DEF PermitsKept
  <2>4. CASE RenewCleaned(r)
    <3>1. SlotHolders' = SlotHolders \ {r} /\ r \in SlotHolders
      BY <2>4
         DEF RenewCleaned, SlotHolders, BaseInv, TypeOK, PhaseDiscipline,
             Working
    <3>2. Cardinality(SlotHolders') = Cardinality(SlotHolders) - 1
      BY <3>1, <1>h
    <3>3. Len(ready') = Len(ready)
      BY <2>4 DEF RenewCleaned
    <3>4. ~Closed /\ ~Closed' /\ UNCHANGED reclaiming
      BY <2>4, <1>k DEF RenewCleaned, Closed, Working
    <3>5. slots' = slots + 1
      BY <2>4 DEF RenewCleaned
    <3> QED
      BY <1>a, <1>b, <1>c, <3>2, <3>3, <3>4, <3>5 DEF PermitsKept
  <2> QED
    BY <1>5, <2>1, <2>2, <2>3, <2>4 DEF OpenRenewerStep
<1>6. ASSUME NEW t \in PoolTasks, CancelStep(t)
      PROVE  PermitsKept
  <2>1. CASE CancelIdle(t)
    <3>1. /\ SlotHolders' = SlotHolders
         /\ Closed /\ UNCHANGED <<phase, ready, reclaiming>>
      BY <2>1
         DEF CancelIdle, SlotHolders, BaseInv, TypeOK, PhaseDiscipline,
             Working, Closed
    <3> QED
      BY <3>1, <1>e
  <2>2. CASE CancelAllocation(t)
    <3>1. /\ SlotHolders' = SlotHolders
         /\ Closed /\ UNCHANGED <<phase, ready, reclaiming>>
      BY <2>2
         DEF CancelAllocation, SlotHolders, BaseInv, TypeOK, PhaseDiscipline,
             Working, Closed
    <3> QED
      BY <3>1, <1>e
  <2>3. CASE CancelHolding(t)
    <3>1. /\ SlotHolders' = SlotHolders
         /\ Closed /\ UNCHANGED <<phase, ready, reclaiming>>
      BY <2>3
         DEF CancelHolding, SlotHolders, BaseInv, TypeOK, PhaseDiscipline,
             Working, Closed
    <3> QED
      BY <3>1, <1>e
  <2>4. CASE CancelInsideClose(t)
    <3>1. /\ SlotHolders' = SlotHolders \ {t}
         /\ Closed /\ UNCHANGED <<phase, ready, reclaiming>>
      BY <2>4
         DEF CancelInsideClose, InsideClose, SlotHolders, BaseInv, TypeOK,
             PhaseDiscipline, Working, Closed
    <3> QED
      BY <3>1, <1>e
  <2>5. CASE Resolved(t)
    <3>1. /\ SlotHolders' = SlotHolders
         /\ Closed /\ UNCHANGED <<phase, ready, reclaiming>>
      BY <2>5
         DEF Resolved, SlotHolders, BaseInv, TypeOK, PhaseDiscipline, Working,
             Closed
    <3> QED
      BY <3>1, <1>e
  <2>6. CASE ResolvedEmpty(t)
    <3>1. /\ SlotHolders' = SlotHolders \ {t}
         /\ Closed /\ UNCHANGED <<phase, ready, reclaiming>>
      BY <2>6
         DEF ResolvedEmpty, SlotHolders, BaseInv, TypeOK, PhaseDiscipline,
             Working, Closed
    <3> QED
      BY <3>1, <1>e
  <2>7. CASE Unwound(t)
    <3>1. /\ SlotHolders' = SlotHolders \ {t}
         /\ Closed /\ UNCHANGED <<phase, ready, reclaiming>>
      BY <2>7
         DEF Unwound, SlotHolders, BaseInv, TypeOK, PhaseDiscipline, Working,
             Closed
    <3> QED
      BY <3>1, <1>e
  <2> QED
    BY <1>6, <2>1, <2>2, <2>3, <2>4, <2>5, <2>6, <2>7 DEF CancelStep
<1>7. ASSUME NEW c \in Claims,
             Request(c) \/ AcquireStep(c) \/ Interrupt(c) \/ EpisodeStep(c)
      PROVE  PermitsKept
  <2>1. CASE Request(c) \/ RefusedClosed(c) \/ WaitForChange(c) \/ Claimed(c)
             \/ ClaimStale(c) \/ Discarded(c)
    BY <2>1, <1>d
       DEF Request, Closed, SlotHolders, BaseInv, TypeOK, PhaseDiscipline,
           Working, RefusedClosed, WaitForChange, Claimed, ClaimStale, Discarded
  <2>2. CASE InterruptWait(c) \/ InterruptClaim(c) \/ InterruptClose(c)
             \/ EndEpisode(c) \/ Released(c)
    BY <2>2, <1>d
       DEF InterruptWait, Closed, SlotHolders, BaseInv, TypeOK,
           PhaseDiscipline, Working, InterruptClaim, InterruptClose, EndEpisode,
           Released
  <2>3. CASE TakeReady(c)
    <3>1. SlotHolders' = SlotHolders
      BY <2>3
         DEF TakeReady, SlotHolders, BaseInv, TypeOK, PhaseDiscipline, Working
    <3>2. Len(ready') = Len(ready) - 1
      BY <2>3, <1>a, TailElements DEF TakeReady
    <3> QED
      BY <2>3, <1>a, <1>b, <1>c, <3>1, <3>2 DEF TakeReady, PermitsKept, Closed
  <2> QED
    BY <1>7, <2>1, <2>2, <2>3 DEF AcquireStep, Interrupt, EpisodeStep
<1> QED
  BY <1>1, <1>2, <1>3, <1>4, <1>5, <1>6, <1>7 DEF OpenNext
-----------------------------------------------------------------------------
\* As every sandbox of the pool sits behind a permit or in the idle list of
\* _close, the account bounds the inventory.
LEMMA BoundFollows ==
  BaseInv /\ SlotInv => IsFiniteSet(PoolOwned) /\ InventoryBound
<1> SUFFICES ASSUME BaseInv, SlotInv
             PROVE  IsFiniteSet(PoolOwned) /\ InventoryBound
  OBVIOUS
<1> DEFINE H == {t \in SlotHolders : hold[t] \in Sandboxes}
           f == [t \in H |-> hold[t]]
<1>1. IsFiniteSet(H) /\ Cardinality(H) <= Cardinality(SlotHolders)
  BY FiniteHolders, FS_Subset
<1>2. f \in Surjection(H, HeldBy(PoolTasks))
  <2>1. \A t \in PoolTasks : hold[t] \in Sandboxes => t \in SlotHolders
    BY PoolAssumption
       DEF BaseInv, TypeOK, HoldsMatchAwait, Holding, SlotHolders, Tasks,
           PoolTasks, CreatorAwaits, RenewerAwaits
  <2>2. HeldBy(PoolTasks) = {hold[t] : t \in H}
    <3>1. \A t \in PoolTasks : hold[t] # NoSandbox <=> hold[t] \in Sandboxes
      BY PoolAssumption DEF BaseInv, TypeOK, Tasks, PoolAssumption
    <3>2. H \subseteq PoolTasks
      BY DEF SlotHolders, PoolTasks
    <3> QED
      BY <2>1, <3>1, <3>2 DEF HeldBy
  <2> QED
    BY <2>2 DEF Surjection
<1>3. /\ IsFiniteSet(HeldBy(PoolTasks))
      /\ Cardinality(HeldBy(PoolTasks)) <= Cardinality(SlotHolders)
  <2>1. /\ IsFiniteSet(HeldBy(PoolTasks))
        /\ Cardinality(HeldBy(PoolTasks)) <= Cardinality(H)
    BY <1>1, <1>2, FS_Surjection
  <2> QED
    BY <1>1, <2>1, FiniteHolders, FS_CardinalityType
<1>4. /\ IsFiniteSet(Queued)
      /\ Cardinality(Queued) <= Len(ready)
      /\ Len(ready) \in Nat
  <2>1. ready \in Seq(Sandboxes) /\ Queued = Elements(ready)
    BY DEF Queued, Elements, BaseInv, TypeOK
  <2>2. Len(ready) \in Nat
    BY <2>1
  <2> QED
    BY <2>1, <2>2, ElementsFinite
<1>5. ASSUME NEW S, NEW T, IsFiniteSet(S), IsFiniteSet(T)
      PROVE  /\ IsFiniteSet(S \cup T)
             /\ Cardinality(S \cup T) <= Cardinality(S) + Cardinality(T)
  <2>1. /\ Cardinality(S) \in Nat /\ Cardinality(T) \in Nat
        /\ Cardinality(S \cap T) \in Nat 
    BY <1>5, FS_CardinalityType, FS_Intersection
  <2>2. /\ IsFiniteSet(S \cup T)
        /\ Cardinality(S \cup T)
             = Cardinality(S) + Cardinality(T) - Cardinality(S \cap T)
    BY <1>5, FS_Union
  <2> QED
    BY <2>1, <2>2
<1>6. /\ IsFiniteSet(Queued \cup reclaiming)
      /\ Cardinality(Queued \cup reclaiming)
           <= Cardinality(Queued) + Cardinality(reclaiming)
  BY <1>4, <1>5 DEF SlotInv, SlotBound
<1>7. /\ IsFiniteSet(PoolOwned)
      /\ Cardinality(PoolOwned)
           <= Cardinality(Queued \cup reclaiming)
                + Cardinality(HeldBy(PoolTasks))
  BY <1>3, <1>5, <1>6 DEF PoolOwned
<1>8. /\ Cardinality(Queued) \in Nat /\ Cardinality(reclaiming) \in Nat
      /\ Cardinality(HeldBy(PoolTasks)) \in Nat
      /\ Cardinality(Queued \cup reclaiming) \in Nat
      /\ Cardinality(PoolOwned) \in Nat
  BY <1>3, <1>4, <1>5, <1>6, FS_CardinalityType
     DEF SlotInv, SlotBound, PoolOwned
<1> QED
  BY <1>3, <1>4, <1>6, <1>7, <1>8, FiniteHolders, PoolAssumption
     DEF InventoryBound, SlotInv, SlotBound, PoolAssumption

\* The lock is ours from start() to the end of _close(), and outside of that
\* the pool owns at most what a renewer, told to stop, is still killing.
LEMMA LockFollows == BaseInv => LockCoversStock
<1> SUFFICES ASSUME BaseInv, lock # "ours"
             PROVE  PoolOwned \subseteq
                      HeldBy({r \in Renewers : pc[r] = "unwind"})
  BY DEF LockCoversStock
<1>1. phase \in {"new", "closed"} /\ ready = <<>> /\ reclaiming = {}
  BY DEF BaseInv, TypeOK, PhaseDiscipline
<1>2. \A t \in PoolTasks :
        pc[t] \in {"off", "done"} \/ (t \in Renewers /\ pc[t] = "unwind")
  BY <1>1 DEF BaseInv, PhaseDiscipline, PoolTasks
<1>3. \A t \in PoolTasks :
        hold[t] = NoSandbox \/ (t \in Renewers /\ pc[t] = "unwind")
  BY <1>2 DEF BaseInv, TypeOK, HoldsMatchAwait, Holding, Tasks
<1>4. Queued = {}
  BY <1>1 DEF Queued
<1> QED
  BY <1>1, <1>3, <1>4 DEF PoolOwned, HeldBy

\* A new pool satisfies the invariant.
LEMMA InitInv == Init => IInv
<1> SUFFICES ASSUME Init PROVE IInv
  OBVIOUS
<1> USE PoolAssumption DEF PoolAssumption, Init, Tasks, PoolTasks
<1>1. BaseInv
  BY
     DEF BaseInv, TypeOK, HoldsMatchAwait, Holding, PhaseDiscipline,
         CreatorAwaits, RenewerAwaits, ClaimAwaits
<1>2. ExclusiveOwner /\ ActiveLifetime /\ NoSleeperWhileReady
  BY DEF ExclusiveOwner, ActiveLifetime, NoSleeperWhileReady, HeldBy, Queued
<1>3. SlotHolders = {}
  BY DEF SlotHolders
<1>4. SlotInv
  BY <1>3, FS_EmptySet DEF SlotInv, SlotAccounting, SlotBound
<1> QED
  BY <1>1, <1>2, <1>4 DEF IInv

\* The bound, as a consequence of the inductive invariant.
LEMMA InvBound == IInv => InventoryBound
  BY BoundFollows DEF IInv

\* Every step of the pool, its clients and the provider keeps the invariant.
LEMMA StepInv == IInv /\ [Next]_vars => IInv'
  BY BaseStep, OwnerStep, LifetimeStep, SleeperStep, SlotStep DEF IInv

\* The inductive invariant holds in every state of every run of the pool.
THEOREM Invariance == Spec => []IInv
  BY InitInv, StepInv, PTL DEF Spec

\* Every variable of the pool keeps its type; above all the semaphore's value
\* never goes below zero.
THEOREM TypeCorrect == Spec => []TypeOK
<1>1. IInv => TypeOK
  BY DEF IInv, BaseInv
<1> QED
  BY <1>1, Invariance, PTL

\* The permits of _slots are accounted for until the pool is closed.
THEOREM SlotsAccounted == Spec => []SlotAccounting
<1>1. IInv => SlotAccounting
  BY DEF IInv, SlotInv
<1> QED
  BY <1>1, Invariance, PTL

\* The pool never holds more than Size instances, shutdown included.
THEOREM InventoryBounded == Spec => []InventoryBound
  BY InvBound, Invariance, PTL

\* A sandbox is never in two hands.
THEOREM Ownership == Spec => []ExclusiveOwner
<1>1. IInv => ExclusiveOwner
  BY DEF IInv
<1> QED
  BY <1>1, Invariance, PTL

\* The lifetime of an instance that an episode owns is never shortened.
THEOREM LifetimeKept == Spec => []ActiveLifetime
<1>1. IInv => ActiveLifetime
  BY DEF IInv
<1> QED
  BY <1>1, Invariance, PTL

\* acquire never sleeps beside a ready sandbox: no wakeup is lost.
THEOREM NoLostWakeup == Spec => []NoSleeperWhileReady
<1>1. IInv => NoSleeperWhileReady
  BY DEF IInv
<1> QED
  BY <1>1, Invariance, PTL

\* While another process owns the run, or may take it over, this pool holds
\* nothing but the instances that cancelled renewals are still killing.
THEOREM StockLocked == Spec => []LockCoversStock
<1>1. IInv => LockCoversStock
  BY LockFollows DEF IInv
<1> QED
  BY <1>1, Invariance, PTL
-----------------------------------------------------------------------------
(***************************************************************************)
(* The supply of sandboxes.                                                *)
(***************************************************************************)
\* A step of the pool, seen through the refinement mapping.
SupplyStep == Supply!SupplyNext \/ UNCHANGED Supply!supplyVars

\* The instance of SandboxSupply counts as the pool does.
LEMMA SupplyCardinality ==
  ASSUME NEW S
  PROVE  Supply!Cardinality(S) = Cardinality(S)
BY DEF Supply!Cardinality, Cardinality

\* Each step of the pool is a step of the supply or changes nothing it shows: an
\* allocation stocks up, a claim hands out, a close retires, the rest stutters.
LEMMA SupplyRefines == IInv /\ IInv' /\ [Next]_vars => SupplyStep
<1> SUFFICES ASSUME IInv, IInv', [OpenNext]_vars PROVE SupplyStep
  BY NextOpen DEF IInv
<1>a. ASSUME Closed' = Closed, UNCHANGED <<PoolOwned, HeldBy(Claims)>>
      PROVE SupplyStep
  BY <1>a DEF SupplyStep, Supply!supplyVars
<1>z. InventoryBound'
  BY InvBound, PTL
<1>b. /\ BaseInv
      /\ ExclusiveOwner
      /\ IsFiniteSet(PoolOwned)
      /\ Tasks = PoolTasks \cup Claims
      /\ PoolTasks \cap Claims = {}
      /\ hold \in [Tasks -> Sandboxes \cup {NoSandbox}]
      /\ NoSandbox \notin Sandboxes
  BY BoundFollows, PoolAssumption
     DEF IInv, BaseInv, TypeOK, Tasks, PoolAssumption
<1>c. ASSUME UNCHANGED <<phase, ready, reclaiming, hold>>
      PROVE SupplyStep
  BY <1>a, <1>c DEF Closed, PoolOwned, Queued, HeldBy
<1>d. ASSUME NEW t \in Tasks, hold[t] \in Sandboxes, Drop(t),
             UNCHANGED <<phase, ready, reclaiming>>
      PROVE SupplyStep
  <2>1. \A u \in Tasks : hold'[u] = IF u = t THEN NoSandbox ELSE hold[u]
    BY <1>b, <1>d DEF Drop, Let
  <2>2. \A u \in Tasks : hold[u] = hold[t] => u = t
    BY <1>b, <1>d DEF ExclusiveOwner
  <2>3. HeldBy(PoolTasks)' = HeldBy(PoolTasks) \ {hold[t]}
    BY <1>b, <2>1, <2>2, <1>d DEF HeldBy
  <2>4. HeldBy(Claims)' = HeldBy(Claims) \ {hold[t]}
    BY <1>b, <2>1, <2>2, <1>d DEF HeldBy
  <2>5. /\ hold[t] \in HeldBy(PoolTasks) \cup HeldBy(Claims)
        /\ hold[t] \notin Queued \cup reclaiming
    BY <1>b, <1>d DEF ExclusiveOwner, HeldBy
  <2>6. Supply!Retire(hold[t])
    BY <1>d, <2>3, <2>4, <2>5 DEF Supply!Retire, PoolOwned, Closed, Queued
  <2> QED
    BY <1>d, <2>6 DEF SupplyStep, Supply!SupplyNext
<1>e. ASSUME NEW t \in PoolTasks, NEW s \in Fresh, hold[t] = NoSandbox,
             Let(t, s), UNCHANGED <<phase, ready, reclaiming>>
      PROVE SupplyStep
  <2>1. \A u \in Tasks : hold'[u] = IF u = t THEN s ELSE hold[u]
    BY <1>b, <1>e DEF Let
  <2>2. s \in Sandboxes /\ s \notin PoolOwned /\ s \notin HeldBy(Claims)
    BY <1>b, <1>e DEF Fresh, Referenced, PoolOwned, HeldBy
  <2>3. PoolOwned' = PoolOwned \cup {s} /\ HeldBy(Claims)' = HeldBy(Claims)
    BY <1>b, <1>e, <2>1, <2>2 DEF PoolOwned, Queued, HeldBy
  <2>4. Cardinality(PoolOwned) < Size
    <3>1. Cardinality(PoolOwned') = Cardinality(PoolOwned) + 1
      BY <1>b, <2>2, <2>3, FS_AddElement
    <3>2. Cardinality(PoolOwned') <= Size /\ Cardinality(PoolOwned) \in Nat
      BY <1>b, <1>z, FS_CardinalityType DEF InventoryBound
    <3> QED
      BY <3>1, <3>2, PoolAssumption DEF PoolAssumption
  <2>5. Supply!StockUp(s)
    BY <1>e, <2>2, <2>3, <2>4, SupplyCardinality DEF Supply!StockUp, Closed
  <2> QED
    BY <2>2, <2>5 DEF SupplyStep, Supply!SupplyNext
<1>f. ASSUME NEW t \in PoolTasks, hold[t] \in Sandboxes,
             ready' = Append(ready, hold[t]), Drop(t),
             UNCHANGED <<phase, reclaiming>>
      PROVE SupplyStep
  <2>1. \A u \in Tasks : hold'[u] = IF u = t THEN NoSandbox ELSE hold[u]
    BY <1>b, <1>f DEF Drop, Let
  <2>2. \A u \in Tasks : hold[u] = hold[t] => u = t
    BY <1>b, <1>f DEF ExclusiveOwner
  <2>3. /\ HeldBy(PoolTasks)' = HeldBy(PoolTasks) \ {hold[t]}
        /\ HeldBy(Claims)' = HeldBy(Claims)
    BY <1>b, <2>1, <2>2, <1>f DEF HeldBy
  <2>4. Queued' = Queued \cup {hold[t]} /\ hold[t] \in HeldBy(PoolTasks)
    BY <1>b, <1>f, AppendElements
       DEF Queued, Elements, HeldBy, BaseInv, TypeOK
  <2> QED
    BY <1>a, <1>f, <2>3, <2>4 DEF PoolOwned, Closed
<1>g. ASSUME NEW t \in Tasks, hold[t] = NoSandbox, ready # <<>>,
             ready' = Tail(ready), Let(t, Head(ready)),
             UNCHANGED <<phase, reclaiming>>
      PROVE /\ Head(ready) \in Sandboxes \cap Queued
            /\ Queued' = Queued \ {Head(ready)}
            /\ Head(ready) \notin HeldBy(Tasks) \cup reclaiming
            /\ HeldBy(PoolTasks)'
                 = IF t \in PoolTasks THEN HeldBy(PoolTasks) \cup {Head(ready)}
                   ELSE HeldBy(PoolTasks)
            /\ HeldBy(Claims)'
                 = IF t \in Claims THEN HeldBy(Claims) \cup {Head(ready)}
                   ELSE HeldBy(Claims)
  <2>1. /\ ready \in Seq(Sandboxes)
        /\ Distinct(ready)
        /\ Queued = Elements(ready)
        /\ Queued' = Elements(ready')
    BY <1>b DEF BaseInv, TypeOK, ExclusiveOwner, Distinct, Queued, Elements
  <2>2. /\ Head(ready) \in Sandboxes \cap Queued
        /\ Queued' = Queued \ {Head(ready)}
    BY <1>g, <2>1, TailElements
  <2>3. Head(ready) \notin HeldBy(Tasks) \cup reclaiming
    BY <1>b, <2>2 DEF ExclusiveOwner
  <2>4. \A u \in Tasks : hold'[u] = IF u = t THEN Head(ready) ELSE hold[u]
    BY <1>b, <1>g DEF Let
  <2> QED
    BY <1>b, <1>g, <2>2, <2>3, <2>4 DEF HeldBy
<1>1. CASE OtherOwner \/ UNCHANGED vars
  BY <1>1, <1>c DEF OtherOwner, vars
<1>2. CASE Start
  BY <1>2, <1>a DEF Start, Closed, PoolOwned, Queued, HeldBy
<1>3. CASE FillDone
  BY <1>3, <1>a DEF FillDone, Closed, PoolOwned, Queued, HeldBy
<1>4. CASE BeginClose
  <2>1. reclaiming = {} /\ ~Closed
    BY <1>4, <1>b DEF BeginClose, BaseInv, PhaseDiscipline, Closed
  <2>2. Queued' = {}
    BY <1>4 DEF BeginClose, Queued
  <2>3. Supply!Shut
    BY <1>4, <2>1, <2>2 DEF BeginClose, Supply!Shut, PoolOwned, HeldBy, Closed
  <2> QED
    BY <2>3 DEF SupplyStep, Supply!SupplyNext
<1>5. CASE EndClose \/ LoopEnds
  BY <1>5, <1>a DEF EndClose, LoopEnds, Closed, PoolOwned, Queued, HeldBy
<1>6. ASSUME NEW s \in Sandboxes, Expire(s) \/ Reclaim(s)
      PROVE  SupplyStep
  <2>1. CASE Expire(s)
    BY <2>1, <1>c DEF Expire
  <2>2. CASE Reclaim(s)
    <3>1. /\ s \in Sandboxes
          /\ s \notin Queued \cup HeldBy(PoolTasks) \cup HeldBy(Claims)
      BY <2>2, <1>b DEF Reclaim, ExclusiveOwner, HeldBy
    <3>2. Supply!Retire(s)
      BY <2>2, <3>1
         DEF Reclaim, Supply!Retire, PoolOwned, HeldBy, Queued, Closed
    <3> QED
      BY <3>1, <3>2 DEF SupplyStep, Supply!SupplyNext
  <2> QED
    BY <1>6, <2>1, <2>2
<1>7. ASSUME NEW p \in Creators, OpenCreatorStep(p)
      PROVE  SupplyStep
  <2>1. CASE TakeSlot(p) \/ AllocationFailed(p) \/ Booted(p) \/ BootFailed(p)
             \/ PrepareFailed(p) \/ BackoffOver(p)
    BY <2>1, <1>c
       DEF TakeSlot, AllocationFailed, GiveSlotBack, Booted, BootFailed,
           PrepareFailed, BackoffOver
  <2>2. CASE Allocated(p)
    BY <2>2, <1>b, <1>e
       DEF Allocated, Tasks, PoolTasks, At, BaseInv, TypeOK, HoldsMatchAwait,
           Holding
  <2>3. CASE PreparedOpen(p)
    BY <2>3, <1>b, <1>f
       DEF PreparedOpen, Tasks, PoolTasks, At, BaseInv, TypeOK, HoldsMatchAwait,
           Holding
  <2>4. CASE CreateCleaned(p)
    BY <2>4, <1>b, <1>d
       DEF CreateCleaned, Tasks, PoolTasks, At, BaseInv, TypeOK,
           HoldsMatchAwait, Holding
  <2> QED
    BY <1>7, <2>1, <2>2, <2>3, <2>4 DEF OpenCreatorStep
<1>8. ASSUME NEW r \in Renewers, OpenRenewerStep(r)
      PROVE  SupplyStep
  <2>1. CASE RenewFailed(r)
    BY <2>1, <1>c DEF RenewFailed
  <2>2. CASE RenewDueOpen(r)
    BY <2>2, <1>a, <1>b, <1>g
       DEF RenewDueOpen, PoolOwned, Closed, Tasks, PoolTasks, At, BaseInv,
           TypeOK, HoldsMatchAwait, Holding
  <2>3. CASE RenewKeptOpen(r)
    BY <2>3, <1>b, <1>f
       DEF RenewKeptOpen, Tasks, PoolTasks, At, BaseInv, TypeOK,
           HoldsMatchAwait, Holding
  <2>4. CASE RenewCleaned(r)
    BY <2>4, <1>b, <1>d
       DEF RenewCleaned, Tasks, PoolTasks, At, BaseInv, TypeOK,
           HoldsMatchAwait, Holding
  <2> QED
    BY <1>8, <2>1, <2>2, <2>3, <2>4 DEF OpenRenewerStep
<1>9. ASSUME NEW t \in PoolTasks, CancelStep(t)
      PROVE  SupplyStep
  <2>1. CASE CancelIdle(t) \/ CancelAllocation(t) \/ CancelHolding(t)
             \/ ResolvedEmpty(t)
    BY <2>1, <1>c
       DEF CancelIdle, CancelAllocation, CancelHolding, ResolvedEmpty
  <2>2. CASE CancelInsideClose(t)
    BY <2>2, <1>b, <1>d
       DEF CancelInsideClose, InsideClose, Tasks, PoolTasks, At, BaseInv,
           TypeOK, HoldsMatchAwait, Holding
  <2>3. CASE Resolved(t)
    BY <2>3, <1>b, <1>e
       DEF Resolved, Tasks, PoolTasks, At, BaseInv, TypeOK, HoldsMatchAwait,
           Holding
  <2>4. CASE Unwound(t)
    BY <2>4, <1>b, <1>d
       DEF Unwound, Tasks, PoolTasks, At, BaseInv, TypeOK, HoldsMatchAwait,
           Holding
  <2> QED
    BY <1>9, <2>1, <2>2, <2>3, <2>4 DEF CancelStep
<1>10. ASSUME NEW c \in Claims,
             Request(c) \/ AcquireStep(c) \/ Interrupt(c) \/ EpisodeStep(c)
      PROVE  SupplyStep
  <2>1. CASE Request(c) \/ RefusedClosed(c) \/ WaitForChange(c) \/ Claimed(c)
             \/ ClaimStale(c) \/ InterruptWait(c)
    BY <2>1, <1>c
       DEF Request, RefusedClosed, WaitForChange, Claimed, ClaimStale,
           InterruptWait
  <2>2. CASE InterruptClaim(c) \/ EndEpisode(c)
    BY <2>2, <1>c DEF InterruptClaim, EndEpisode
  <2>3. CASE TakeReady(c)
    <3>1. c \in Tasks /\ c \notin PoolTasks /\ hold[c] = NoSandbox
      BY <2>3, <1>b DEF TakeReady, BaseInv, TypeOK, HoldsMatchAwait, Holding
    <3>2. /\ Head(ready) \in Sandboxes \cap Queued
         /\ Head(ready) \notin HeldBy(PoolTasks) \cup reclaiming
         /\ Queued' = Queued \ {Head(ready)} /\ UNCHANGED HeldBy(PoolTasks)
         /\ HeldBy(Claims)' = HeldBy(Claims) \cup {Head(ready)}
      BY <2>3, <3>1, <1>b, <1>g DEF TakeReady, HeldBy
    <3>3. Supply!HandOut(Head(ready))
      BY <2>3, <3>2 DEF TakeReady, PoolOwned, Closed, Supply!HandOut
    <3> QED
      BY <3>2, <3>3 DEF SupplyStep, Supply!SupplyNext
  <2>4. CASE Discarded(c)
    BY <2>4, <1>b, <1>d
       DEF Discarded, Tasks, PoolTasks, At, BaseInv, TypeOK, HoldsMatchAwait,
           Holding
  <2>5. CASE InterruptClose(c)
    BY <2>5, <1>b, <1>d
       DEF InterruptClose, Tasks, PoolTasks, At, BaseInv, TypeOK,
           HoldsMatchAwait, Holding
  <2>6. CASE Released(c)
    BY <2>6, <1>b, <1>d
       DEF Released, Tasks, PoolTasks, At, BaseInv, TypeOK, HoldsMatchAwait,
           Holding
  <2> QED
    BY <1>10, <2>1, <2>2, <2>3, <2>4, <2>5, <2>6
       DEF AcquireStep, Interrupt, EpisodeStep
<1> QED
  BY <1>1, <1>2, <1>3, <1>4, <1>5, <1>6, <1>7, <1>8, <1>9, <1>10 DEF OpenNext

\* E2BWarmPool implements the bounded supply of single-use sandboxes.
THEOREM Refinement == Spec => ImplementsSupply
<1>1. Init => Supply!SupplyInit
  BY
     DEF Init, Supply!SupplyInit, Closed, PoolOwned, Queued, HeldBy, Tasks,
         PoolTasks
<1>2. IInv /\ IInv' /\ [Next]_vars => [Supply!SupplyNext]_(Supply!supplyVars)
  BY SupplyRefines DEF SupplyStep
<1> QED
  BY <1>1, <1>2, Invariance, PTL DEF Spec, ImplementsSupply, Supply!SupplySpec
-----------------------------------------------------------------------------
\* Kills succeed within their attempts, and no cancellation lands in a close.
Reliable == KillMayFail = FALSE /\ CloseInterruptible = FALSE

\* What CloseInterruptible = FALSE makes of the cancellations of _close.
NoCancelInsideClose == cancelled \cap InsideClose = {}

\* A cancelled task that is not inside a close does not get there before its
\* cancellation is delivered.
LEMMA NoCancelInsideCloseStep ==
  Reliable /\ BaseInv /\ NoCancelInsideClose /\ [Next]_vars
  => NoCancelInsideClose'
<1> SUFFICES ASSUME Reliable, BaseInv, NoCancelInsideClose, [OpenNext]_vars
             PROVE  NoCancelInsideClose'
  BY NextOpen
<1> USE PoolAssumption DEF PoolAssumption, Reliable, Tasks, PoolTasks, At,
        Goto, GotoAndSignal, Awaken, BaseInv, TypeOK, PhaseDiscipline,
        NoCancelInsideClose, InsideClose, Working, Closed
<1>1. CASE Start \/ FillDone \/ OtherOwner \/ BeginClose \/ EndClose
           \/ LoopEnds \/ UNCHANGED vars
  BY <1>1
     DEF Start, FillDone, OtherOwner, BeginClose, InsideClose, EndClose,
         LoopEnds, vars
<1>2. ASSUME NEW s \in Sandboxes, Expire(s) \/ Reclaim(s)
      PROVE  NoCancelInsideClose'
  BY <1>2 DEF Expire, Reclaim
<1>3. ASSUME NEW p \in Creators, OpenCreatorStep(p)
      PROVE  NoCancelInsideClose'
  <2>1. CASE TakeSlot(p) \/ Allocated(p) \/ AllocationFailed(p) \/ Booted(p)
             \/ BootFailed(p) \/ PreparedOpen(p)
    BY <2>1
       DEF TakeSlot, Allocated, AllocationFailed, GiveSlotBack, Booted,
           BootFailed, PreparedOpen
  <2>2. CASE PrepareFailed(p) \/ CreateCleaned(p) \/ BackoffOver(p)
    BY <2>2 DEF PrepareFailed, CreateCleaned, GiveSlotBack, BackoffOver
  <2> QED
    BY <1>3, <2>1, <2>2 DEF OpenCreatorStep
<1>4. ASSUME NEW r \in Renewers, OpenRenewerStep(r)
      PROVE  NoCancelInsideClose'
  BY <1>4
     DEF RenewDueOpen, RenewKeptOpen, RenewFailed, RenewCleaned, OpenRenewerStep
<1>5. ASSUME NEW t \in PoolTasks, CancelStep(t)
      PROVE  NoCancelInsideClose'
  <2>1. CASE CancelIdle(t) \/ CancelAllocation(t) \/ CancelHolding(t)
             \/ CancelInsideClose(t) \/ Resolved(t) \/ ResolvedEmpty(t)
    BY <2>1
       DEF CancelIdle, CancelAllocation, CancelHolding, CancelInsideClose,
           InsideClose, Resolved, ResolvedEmpty
  <2>2. CASE Unwound(t)
    BY <2>2 DEF Unwound
  <2> QED
    BY <1>5, <2>1, <2>2 DEF CancelStep
<1>6. ASSUME NEW c \in Claims,
             Request(c) \/ AcquireStep(c) \/ Interrupt(c) \/ EpisodeStep(c)
      PROVE  NoCancelInsideClose'
  <2>1. CASE Request(c) \/ RefusedClosed(c) \/ WaitForChange(c)
             \/ TakeReady(c) \/ Claimed(c) \/ ClaimStale(c)
    BY <2>1
       DEF Request, RefusedClosed, Closed, WaitForChange, TakeReady, Claimed,
           ClaimStale
  <2>2. CASE Discarded(c) \/ InterruptWait(c) \/ InterruptClaim(c)
             \/ InterruptClose(c) \/ EndEpisode(c) \/ Released(c)
    BY <2>2
       DEF Discarded, InterruptWait, InterruptClaim, InterruptClose,
           EndEpisode, Released
  <2> QED
    BY <1>6, <2>1, <2>2 DEF AcquireStep, Interrupt, EpisodeStep
<1> QED
  BY <1>1, <1>2, <1>3, <1>4, <1>5, <1>6 DEF OpenNext

\* Some task, the deque or the idle list answers for x.
Answered(x) ==
  x \in Queued \/ x \in reclaiming \/ \E t \in Tasks : hold[t] = x

\* A step that drops an instance has killed it.
LEMMA OrphanStep ==
  /\ Reliable
  /\ BaseInv
  /\ BaseInv'
  /\ ExclusiveOwner
  /\ NoCancelInsideClose
  /\ OrphanFree
  /\ [Next]_vars
  => OrphanFree'
<1> SUFFICES ASSUME Reliable, BaseInv, BaseInv', ExclusiveOwner,
                    NoCancelInsideClose, OrphanFree, [OpenNext]_vars
             PROVE  OrphanFree'
  BY NextOpen
<1> USE DEF Answered
<1>a. \A s \in Sandboxes : life[s] = "absent" \/ Answered(s)
  BY DEF OrphanFree, Orphans, Alive, Referenced, HeldBy
<1>b. SUFFICES ASSUME NEW x \in Sandboxes, life'[x] # "absent"
               PROVE  Answered(x)'
  BY PoolAssumption
     DEF Answered, OrphanFree, Orphans, Alive, Referenced, HeldBy,
         PoolAssumption
<1>c. /\ life \in [Sandboxes -> {"absent", "boot", "idle", "active"}]
      /\ hold \in [Tasks -> Sandboxes \cup {NoSandbox}]
      /\ ready \in Seq(Sandboxes)
      /\ NoSandbox \notin Sandboxes
      /\ PoolTasks \subseteq Tasks
  BY PoolAssumption DEF BaseInv, TypeOK, PoolAssumption, Tasks
<1>d. ASSUME UNCHANGED <<ready, reclaiming, hold>>,
             \A y \in Sandboxes : life'[y] # "absent" => life[y] # "absent"
      PROVE  Answered(x)'
  BY <1>a, <1>b, <1>d DEF Queued
\* A task that gives up its instance has killed it.
<1>e. ASSUME NEW t \in Tasks, hold[t] \in Sandboxes, Drop(t),
             life' = [life EXCEPT ![hold[t]] = "absent"],
             UNCHANGED <<ready, reclaiming>>
      PROVE  Answered(x)'
  <2>1. x # hold[t] /\ life[x] # "absent"
    BY <1>b, <1>c, <1>e
  <2>2. \A u \in Tasks : u # t => hold'[u] = hold[u]
    BY <1>c, <1>e DEF Drop, Let
  <2> QED
    BY <1>a, <1>e, <2>1, <2>2 DEF Queued
<1>f. ASSUME NEW t \in Tasks, hold[t] = NoSandbox, NEW y \in Sandboxes,
             Let(t, y), life' = [life EXCEPT ![y] = "boot"],
             UNCHANGED <<ready, reclaiming>>
      PROVE  Answered(x)'
  BY <1>a, <1>b, <1>c, <1>f DEF Let, Queued
<1>g. ASSUME NEW t \in Tasks, hold[t] \in Sandboxes, Drop(t),
             ready' = Append(ready, hold[t]),
             life' = [life EXCEPT ![hold[t]] = "idle"], Alive(hold[t]),
             UNCHANGED reclaiming
      PROVE  Answered(x)'
  <2>1. Queued' = Queued \cup {hold[t]}
    BY <1>c, <1>g, AppendElements DEF Queued, Elements
  <2> QED
    BY <1>a, <1>b, <1>c, <1>g, <2>1 DEF Drop, Let, Alive
<1>h. ASSUME NEW t \in Tasks, hold[t] = NoSandbox, ready # <<>>,
             ready' = Tail(ready), Let(t, Head(ready)),
             UNCHANGED <<reclaiming, life>>
      PROVE  Answered(x)'
  <2>1. Queued = Queued' \cup {Head(ready)} /\ Head(ready) \in Sandboxes
    <3>1. Queued = Elements(ready) /\ Queued' = Elements(Tail(ready))
      BY <1>h DEF Queued, Elements
    <3> QED
      BY <1>c, <1>h, <3>1, TailElements
  <2> QED
    BY <1>a, <1>b, <1>c, <1>h, <2>1 DEF Let
<1>1. CASE Start \/ FillDone \/ OtherOwner \/ EndClose \/ LoopEnds
           \/ UNCHANGED vars
  BY <1>1, <1>d DEF Start, FillDone, OtherOwner, EndClose, LoopEnds, vars
<1>2. CASE BeginClose
  BY <1>2, <1>a, <1>b, <1>c DEF BeginClose, BaseInv, PhaseDiscipline
<1>3. ASSUME NEW s \in Sandboxes, Expire(s) \/ Reclaim(s)
      PROVE  Answered(x)'
  <2>1. CASE Expire(s)
    BY <2>1, <1>c, <1>d
       DEF Expire, Alive, At, BaseInv, TypeOK, HoldsMatchAwait, Holding,
           Tasks, PoolTasks
  <2>2. CASE Reclaim(s)
    BY <2>2, <1>a, <1>b, <1>c DEF Reclaim, Kill, Reliable, Queued
  <2> QED
    BY <1>3, <2>1, <2>2
<1>4. ASSUME NEW p \in Creators, OpenCreatorStep(p)
      PROVE  Answered(x)'
  <2>1. CASE TakeSlot(p) \/ AllocationFailed(p) \/ Booted(p) \/ BootFailed(p)
             \/ BackoffOver(p)
    BY <2>1, <1>d
       DEF TakeSlot, AllocationFailed, GiveSlotBack, Booted, BootFailed,
           BackoffOver
  <2>2. CASE Allocated(p)
    BY <2>2, <1>c, <1>f
       DEF Allocated, Fresh, At, BaseInv, TypeOK, HoldsMatchAwait, Holding,
           Tasks, PoolTasks
  <2>3. CASE PreparedOpen(p)
    BY <2>3, <1>c, <1>g
       DEF PreparedOpen, At, BaseInv, TypeOK, HoldsMatchAwait, Holding, Tasks,
           PoolTasks
  <2>4. CASE PrepareFailed(p)
    BY <2>4, <1>c, <1>d
       DEF PrepareFailed, RenewUnanswered, Alive, At, BaseInv, TypeOK,
           HoldsMatchAwait, Holding, Tasks, PoolTasks
  <2>5. CASE CreateCleaned(p)
    BY <2>5, <1>c, <1>e
       DEF Reliable, Kill, CreateCleaned, At, BaseInv, TypeOK,
           HoldsMatchAwait, Holding, Tasks, PoolTasks
  <2> QED
    BY <1>4, <2>1, <2>2, <2>3, <2>4, <2>5 DEF OpenCreatorStep
<1>5. ASSUME NEW r \in Renewers, OpenRenewerStep(r)
      PROVE  Answered(x)'
  <2>1. CASE RenewDueOpen(r)
    BY <2>1, <1>c, <1>h
       DEF RenewDueOpen, At, BaseInv, TypeOK, HoldsMatchAwait, Holding, Tasks,
           PoolTasks
  <2>2. CASE RenewKeptOpen(r)
    BY <2>2, <1>c, <1>g
       DEF RenewKeptOpen, At, BaseInv, TypeOK, HoldsMatchAwait, Holding, Tasks,
           PoolTasks
  <2>3. CASE RenewFailed(r)
    BY <2>3, <1>c, <1>d
       DEF RenewFailed, RenewUnanswered, Alive, At, BaseInv, TypeOK,
           HoldsMatchAwait, Holding, Tasks, PoolTasks
  <2>4. CASE RenewCleaned(r)
    BY <2>4, <1>c, <1>e
       DEF Reliable, Kill, RenewCleaned, At, BaseInv, TypeOK, HoldsMatchAwait,
           Holding, Tasks, PoolTasks
  <2> QED
    BY <1>5, <2>1, <2>2, <2>3, <2>4 DEF OpenRenewerStep
<1>6. ASSUME NEW t \in PoolTasks, CancelStep(t)
      PROVE  Answered(x)'
  <2>1. CASE CancelIdle(t) \/ CancelAllocation(t) \/ ResolvedEmpty(t)
    BY <2>1, <1>d DEF CancelIdle, CancelAllocation, ResolvedEmpty
  <2>2. CASE CancelHolding(t)
    BY <2>2, <1>c, <1>d
       DEF CancelHolding, RenewUnanswered, Alive, At, BaseInv, TypeOK,
           HoldsMatchAwait, Holding, Tasks, PoolTasks
  <2>3. CASE CancelInsideClose(t)
    BY <2>3 DEF CancelInsideClose, NoCancelInsideClose
  <2>4. CASE Resolved(t)
    BY <2>4, <1>c, <1>f
       DEF Resolved, Fresh, At, BaseInv, TypeOK, HoldsMatchAwait, Holding,
           Tasks, PoolTasks
  <2>5. CASE Unwound(t)
    BY <2>5, <1>c, <1>e
       DEF Reliable, Kill, Unwound, At, BaseInv, TypeOK, HoldsMatchAwait,
           Holding, Tasks, PoolTasks
  <2> QED
    BY <1>6, <2>1, <2>2, <2>3, <2>4, <2>5 DEF CancelStep
<1>7. ASSUME NEW c \in Claims,
             Request(c) \/ AcquireStep(c) \/ Interrupt(c) \/ EpisodeStep(c)
      PROVE  Answered(x)'
  <2>1. CASE Request(c) \/ RefusedClosed(c) \/ WaitForChange(c)
             \/ InterruptWait(c) \/ EndEpisode(c)
    BY <2>1, <1>d
       DEF Request, RefusedClosed, WaitForChange, InterruptWait, EndEpisode
  <2>2. CASE TakeReady(c)
    BY <2>2, <1>c, <1>h
       DEF TakeReady, At, BaseInv, TypeOK, HoldsMatchAwait, Holding, Tasks,
           PoolTasks
  <2>3. CASE Claimed(c)
    BY <2>3, <1>c, <1>d
       DEF Claimed, Alive, At, BaseInv, TypeOK, HoldsMatchAwait, Holding,
           Tasks, PoolTasks
  <2>4. CASE ClaimStale(c)
    BY <2>4, <1>c, <1>d
       DEF ClaimStale, RenewUnanswered, Alive, At, BaseInv, TypeOK,
           HoldsMatchAwait, Holding, Tasks, PoolTasks
  <2>5. CASE Discarded(c)
    BY <2>5, <1>c, <1>e
       DEF Reliable, Kill, Discarded, At, BaseInv, TypeOK, HoldsMatchAwait,
           Holding, Tasks, PoolTasks
  <2>6. CASE InterruptClaim(c)
    BY <2>6, <1>c, <1>d
       DEF InterruptClaim, RenewUnanswered, Alive, At, BaseInv, TypeOK,
           HoldsMatchAwait, Holding, Tasks, PoolTasks
  <2>7. CASE InterruptClose(c)
    BY <2>7 DEF InterruptClose, Reliable
  <2>8. CASE Released(c)
    BY <2>8, <1>c, <1>e
       DEF Reliable, Kill, Released, At, BaseInv, TypeOK, HoldsMatchAwait,
           Holding, Tasks, PoolTasks
  <2> QED
    BY <1>7, <2>1, <2>2, <2>3, <2>4, <2>5, <2>6, <2>7, <2>8
       DEF AcquireStep, Interrupt, EpisodeStep
<1> QED
  BY <1>1, <1>2, <1>3, <1>4, <1>5, <1>6, <1>7 DEF OpenNext

\* With kills that succeed and no cancellation inside E2BSandbox.close, every
\* live instance has an owner that will destroy it, on every path of the pool.
THEOREM NoOrphans == Reliable => (Spec => []OrphanFree)
<1> SUFFICES ASSUME Reliable PROVE Spec => []OrphanFree
  OBVIOUS
<1> DEFINE Inv == IInv /\ NoCancelInsideClose /\ OrphanFree
<1>1. Init => Inv
  <2>1. Init => NoCancelInsideClose /\ OrphanFree
    BY DEF Init, NoCancelInsideClose, OrphanFree, Orphans, Alive
  <2> QED
    BY <2>1, InitInv
<1>2. Inv /\ [Next]_vars => Inv'
  BY StepInv, NoCancelInsideCloseStep, OrphanStep DEF IInv
<1> QED
  BY <1>1, <1>2, PTL DEF Spec
=============================================================================
