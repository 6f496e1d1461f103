------------------------------ MODULE WarmPool ------------------------------
(***************************************************************************)
(* The client-side pool of ready E2B sandboxes, rl/warm_pool.py.           *)
(*                                                                         *)
(* One asyncio loop runs the pool's own tasks (the producers _produce and  *)
(* the renewal workers of _keep_alive) and the episodes that call acquire. *)
(* Between two awaits a task runs alone, so one action here is the code    *)
(* between two awaits, and pc names the await a task is suspended in.  The *)
(* provider is the other party: it holds the instances (life), applies the *)
(* requests of the tasks, and may lose an instance at any moment.          *)
(*                                                                         *)
(* E2BSandbox.create and .close (rl/sandbox.py) are awaited by the pool;   *)
(* of them the model keeps the awaits at which a cancellation can land.    *)
(***************************************************************************)
EXTENDS Naturals, Sequences, FiniteSets

CONSTANTS
  Creators,           \* the _produce tasks
  Renewers,           \* the renew_worker tasks that _keep_alive gathers
  Claims,             \* the episodes that call acquire
  Sandboxes,          \* provider instances; a dead one's identity is reused
  NoSandbox,
  Size,               \* E2B_WARM_POOL_SIZE
  KillMayFail,        \* may E2BSandbox.close give up after three attempts?
  CloseInterruptible  \* may a cancellation land inside E2BSandbox.close?

PoolTasks == Creators \cup Renewers
Tasks == PoolTasks \cup Claims

ASSUME PoolAssumption ==
  /\ Size \in Nat \ {0}
  /\ IsFiniteSet(Creators) /\ IsFiniteSet(Renewers) /\ IsFiniteSet(Claims)
  /\ Creators \cap Renewers = {}
  /\ PoolTasks \cap Claims = {}
  /\ NoSandbox \notin Sandboxes
  /\ KillMayFail \in BOOLEAN /\ CloseInterruptible \in BOOLEAN

VARIABLES
  phase,       \* "new", "filling" (start), "serving", "closing" (_close), "closed"
  lock,        \* the flock on RUN_DIR/.e2b-warm-pool.lock: "free", "ours", "other"
  slots,       \* permits left in self._slots
  ready,       \* self._ready, oldest first
  reclaiming,  \* the idle list of _close that is still to be killed
  pc,          \* the await each task is suspended in
  hold,        \* the sandbox in each task's local variable
  cancelled,   \* tasks with an undelivered CancelledError
  life         \* the provider's view: "absent" or the lifetime last granted

vars == <<phase, lock, slots, ready, reclaiming, pc, hold, cancelled, life>>

CreatorAwaits == {"off", "slot", "alloc", "resolve", "boot", "bootclose",
                  "prepare", "close", "unwind", "backoff", "done"}
RenewerAwaits == {"off", "watch", "renew", "close", "unwind", "done"}
ClaimAwaits == {"idle", "runnable", "blocked", "claim", "discard", "abort",
                "own", "release"}

TypeOK ==
  /\ phase \in {"new", "filling", "serving", "closing", "closed"}
  /\ lock \in {"free", "ours", "other"}
  /\ slots \in Nat
  /\ ready \in Seq(Sandboxes)
  /\ reclaiming \in SUBSET Sandboxes
  /\ pc \in [Tasks -> CreatorAwaits \cup RenewerAwaits \cup ClaimAwaits]
  /\ \A p \in Creators : pc[p] \in CreatorAwaits
  /\ \A r \in Renewers : pc[r] \in RenewerAwaits
  /\ \A c \in Claims : pc[c] \in ClaimAwaits
  /\ hold \in [Tasks -> Sandboxes \cup {NoSandbox}]
  /\ cancelled \in SUBSET PoolTasks
  /\ life \in [Sandboxes -> {"absent", "boot", "idle", "active"}]

(***************************************************************************)
(* Who answers for a sandbox.                                              *)
(***************************************************************************)
Queued == {ready[i] : i \in 1..Len(ready)}
HeldBy(T) == {hold[t] : t \in T} \ {NoSandbox}
Referenced == Queued \cup reclaiming \cup HeldBy(Tasks)
Alive(s) == life[s] # "absent"
Fresh == {s \in Sandboxes : ~Alive(s)} \ Referenced
Orphans == {s \in Sandboxes : Alive(s)} \ Referenced

\* Pool tasks that have taken a permit of _slots and not given it back.
SlotHolders ==
  {p \in Creators : pc[p] \in {"alloc", "resolve", "boot", "bootclose",
                               "prepare", "close", "unwind"}}
  \cup {r \in Renewers : pc[r] \in {"renew", "close", "unwind"}}

\* self._changed.set(): every task suspended in _changed.wait() may go on.
Awaken(f) == [t \in Tasks |-> IF f[t] = "blocked" THEN "runnable" ELSE f[t]]

At(t, await) == pc[t] = await /\ t \notin cancelled
Goto(t, await) == pc' = [pc EXCEPT ![t] = await]
GotoAndSignal(t, await) == pc' = Awaken([pc EXCEPT ![t] = await])
Let(t, s) == hold' = [hold EXCEPT ![t] = s]
Drop(t) == Let(t, NoSandbox)

\* E2BSandbox.close: three kill attempts, the last failure is only logged.
Kill(s) == \/ life' = [life EXCEPT ![s] = "absent"]
           \/ KillMayFail /\ UNCHANGED life

\* A renewal whose answer is an error or a timeout may still have been applied.
RenewUnanswered(s, ttl) ==
  \/ UNCHANGED life
  \/ Alive(s) /\ life' = [life EXCEPT ![s] = ttl]

Closed == phase \in {"closing", "closed"}     \* self._closed
-----------------------------------------------------------------------------
Init ==
  /\ phase = "new" /\ lock = "free"
  /\ slots = Size /\ ready = <<>> /\ reclaiming = {}
  /\ pc = [t \in Tasks |-> IF t \in Claims THEN "idle" ELSE "off"]
  /\ hold = [t \in Tasks |-> NoSandbox]
  /\ cancelled = {}
  /\ life = [s \in Sandboxes |-> "absent"]

\* start(): take the run lock, spawn the tasks, then wait_ready().
Start ==
  /\ phase = "new" /\ lock = "free"
  /\ phase' = "filling" /\ lock' = "ours"
  /\ pc' = [t \in Tasks |-> CASE t \in Creators -> "slot"
                              [] t \in Renewers -> "watch"
                              [] OTHER -> pc[t]]
  /\ UNCHANGED <<slots, ready, reclaiming, hold, cancelled, life>>

\* wait_ready() returns once the inventory is complete.
FillDone ==
  /\ phase = "filling" /\ Len(ready) >= Size
  /\ phase' = "serving"
  /\ UNCHANGED <<lock, slots, ready, reclaiming, pc, hold, cancelled, life>>

\* Another rollout process of the same run takes and leaves the run lock.
OtherOwner ==
  /\ \/ lock = "free" /\ lock' = "other"
     \/ lock = "other" /\ lock' = "free"
  /\ UNCHANGED <<phase, slots, ready, reclaiming, pc, hold, cancelled, life>>

\* The provider ends an instance: lifetime over, or the machine is lost.
Expire(s) ==
  /\ Alive(s)
  /\ life' = [life EXCEPT ![s] = "absent"]
  /\ UNCHANGED <<phase, lock, slots, ready, reclaiming, pc, hold, cancelled>>
-----------------------------------------------------------------------------
(***************************************************************************)
(* _produce                                                                *)
(***************************************************************************)
\* Mutant: the producer does not wait for a permit.
TakeSlotUnbounded(p) ==
  /\ At(p, "slot")
  /\ slots' = slots - 1
  /\ Goto(p, "alloc")
  /\ UNCHANGED <<phase, lock, ready, reclaiming, hold, cancelled, life>>

TakeSlot(p) ==
  /\ At(p, "slot") /\ slots > 0
  /\ slots' = slots - 1
  /\ Goto(p, "alloc")
  /\ UNCHANGED <<phase, lock, ready, reclaiming, hold, cancelled, life>>

\* The finally block of a failed attempt, then the backoff.
GiveSlotBack(p) ==
  /\ slots' = slots + 1
  /\ GotoAndSignal(p, "backoff")

Allocated(p) ==
  /\ At(p, "alloc")
  /\ \E s \in Fresh :
       /\ life' = [life EXCEPT ![s] = "boot"]
       /\ Let(p, s)
  /\ Goto(p, "boot")
  /\ UNCHANGED <<phase, lock, slots, ready, reclaiming, cancelled>>

AllocationFailed(p) ==
  /\ At(p, "alloc")
  /\ GiveSlotBack(p)
  /\ UNCHANGED <<phase, lock, ready, reclaiming, hold, cancelled, life>>

\* The workspace bootstrap inside E2BSandbox.create.
Booted(p) ==
  /\ At(p, "boot")
  /\ Goto(p, "prepare")
  /\ UNCHANGED <<phase, lock, slots, ready, reclaiming, hold, cancelled, life>>

BootFailed(p) ==
  /\ At(p, "boot")
  /\ Goto(p, "bootclose")
  /\ UNCHANGED <<phase, lock, slots, ready, reclaiming, hold, cancelled, life>>

\* Mutant: the finally block does not set _changed.
PreparedSilently(p) ==
  /\ At(p, "prepare") /\ Alive(hold[p])
  /\ life' = [life EXCEPT ![hold[p]] = "idle"]
  /\ ready' = Append(ready, hold[p])
  /\ Drop(p)
  /\ Goto(p, "slot")
  /\ UNCHANGED <<phase, lock, slots, reclaiming, cancelled>>

\* check_lean_runtime, then renew(idle_timeout): the sandbox joins _ready, or
\* the finally block closes it when the pool has been closed meanwhile.
Prepared(p) ==
  /\ At(p, "prepare") /\ Alive(hold[p])
  /\ life' = [life EXCEPT ![hold[p]] = "idle"]
  /\ IF Closed THEN Goto(p, "close") /\ UNCHANGED <<ready, hold>>
     ELSE ready' = Append(ready, hold[p]) /\ Drop(p) /\ GotoAndSignal(p, "slot")
  /\ UNCHANGED <<phase, lock, slots, reclaiming, cancelled>>

PrepareFailed(p) ==
  /\ At(p, "prepare")
  /\ RenewUnanswered(hold[p], "idle")
  /\ Goto(p, "close")
  /\ UNCHANGED <<phase, lock, slots, ready, reclaiming, hold, cancelled>>

\* The awaited close of a failed attempt, in create or in the finally block.
CreateCleaned(p) ==
  /\ At(p, "bootclose") \/ At(p, "close")
  /\ Kill(hold[p])
  /\ Drop(p)
  /\ GiveSlotBack(p)
  /\ UNCHANGED <<phase, lock, ready, reclaiming, cancelled>>

\* Back to while not self._closed.
BackoffOver(p) ==
  /\ At(p, "backoff")
  /\ Goto(p, IF Closed THEN "done" ELSE "slot")
  /\ UNCHANGED <<phase, lock, slots, ready, reclaiming, hold, cancelled, life>>
-----------------------------------------------------------------------------
(***************************************************************************)
(* _renew_one_due.  Whether the oldest entry is due is a matter of time    *)
(* the model does not keep: it may be due whenever there is one.           *)
(***************************************************************************)
\* Mutant: the entry stays in the deque while it is renewed.
RenewDuePeeks(r) ==
  /\ At(r, "watch") /\ ready # <<>>
  /\ Let(r, Head(ready))
  /\ Goto(r, "renew")
  /\ UNCHANGED <<phase, lock, slots, ready, reclaiming, cancelled, life>>

\* The loop of renew_worker, and the entry taken out of the deque.
RenewDue(r) ==
  /\ At(r, "watch")
  /\ IF Closed THEN Goto(r, "done") /\ UNCHANGED <<ready, hold>>
     ELSE /\ ready # <<>>
          /\ Let(r, Head(ready))
          /\ ready' = Tail(ready)
          /\ Goto(r, "renew")
  /\ UNCHANGED <<phase, lock, slots, reclaiming, cancelled, life>>

RenewKept(r) ==
  /\ At(r, "renew") /\ Alive(hold[r])
  /\ life' = [life EXCEPT ![hold[r]] = "idle"]
  /\ IF Closed THEN Goto(r, "close") /\ UNCHANGED <<ready, hold>>
     ELSE ready' = Append(ready, hold[r]) /\ Drop(r) /\ GotoAndSignal(r, "watch")
  /\ UNCHANGED <<phase, lock, slots, reclaiming, cancelled>>

RenewFailed(r) ==
  /\ At(r, "renew")
  /\ RenewUnanswered(hold[r], "idle")
  /\ Goto(r, "close")
  /\ UNCHANGED <<phase, lock, slots, ready, reclaiming, hold, cancelled>>

\* Mutant: a failed renewal closes the sandbox but keeps its permit.
RenewCleanedKeepsPermit(r) ==
  /\ At(r, "close")
  /\ Kill(hold[r])
  /\ Drop(r)
  /\ GotoAndSignal(r, "watch")
  /\ UNCHANGED <<phase, lock, slots, ready, reclaiming, cancelled>>

RenewCleaned(r) ==
  /\ At(r, "close")
  /\ Kill(hold[r])
  /\ Drop(r)
  /\ slots' = slots + 1
  /\ GotoAndSignal(r, "watch")
  /\ UNCHANGED <<phase, lock, ready, reclaiming, cancelled>>
-----------------------------------------------------------------------------
(***************************************************************************)
(* acquire, and the episode that owns the sandbox afterwards.              *)
(***************************************************************************)
Request(c) ==
  /\ pc[c] = "idle" /\ phase = "serving"
  /\ Goto(c, "runnable")
  /\ UNCHANGED <<phase, lock, slots, ready, reclaiming, hold, cancelled, life>>

\* One turn of the loop: the pool is closed, empty, or has an instance to take.
RefusedClosed(c) ==
  /\ pc[c] = "runnable" /\ Closed
  /\ Goto(c, "idle")
  /\ UNCHANGED <<phase, lock, slots, ready, reclaiming, hold, cancelled, life>>

WaitForChange(c) ==
  /\ pc[c] = "runnable" /\ ~Closed /\ ready = <<>>
  /\ Goto(c, "blocked")
  /\ UNCHANGED <<phase, lock, slots, ready, reclaiming, hold, cancelled, life>>

TakeReady(c) ==
  /\ pc[c] = "runnable" /\ ~Closed /\ ready # <<>>
  /\ Let(c, Head(ready))
  /\ ready' = Tail(ready)
  /\ slots' = slots + 1
  /\ Goto(c, "claim")
  /\ UNCHANGED <<phase, lock, reclaiming, cancelled, life>>

\* renew(max(timeout, self.timeout)) answers: the episode owns the sandbox.
Claimed(c) ==
  /\ pc[c] = "claim" /\ Alive(hold[c])
  /\ life' = [life EXCEPT ![hold[c]] = "active"]
  /\ Goto(c, "own")
  /\ UNCHANGED <<phase, lock, slots, ready, reclaiming, hold, cancelled>>

ClaimStale(c) ==
  /\ pc[c] = "claim"
  /\ RenewUnanswered(hold[c], "active")
  /\ Goto(c, "discard")
  /\ UNCHANGED <<phase, lock, slots, ready, reclaiming, hold, cancelled>>

\* The close of a stale claim is over: take another turn, or re-raise.
Discarded(c) ==
  /\ pc[c] \in {"discard", "abort"}
  /\ Kill(hold[c])
  /\ Drop(c)
  /\ Goto(c, IF pc[c] = "discard" THEN "runnable" ELSE "idle")
  /\ UNCHANGED <<phase, lock, slots, ready, reclaiming, cancelled>>

\* asyncio.timeout(wait_timeout), or a cancellation of the episode, lands.
InterruptWait(c) ==
  /\ pc[c] \in {"runnable", "blocked"}
  /\ Goto(c, "idle")
  /\ UNCHANGED <<phase, lock, slots, ready, reclaiming, hold, cancelled, life>>

InterruptClaim(c) ==
  /\ pc[c] = "claim"
  /\ RenewUnanswered(hold[c], "active")
  /\ Goto(c, "abort")
  /\ UNCHANGED <<phase, lock, slots, ready, reclaiming, hold, cancelled>>

\* A cancellation lands inside a close, that of a stale claim or that at the end
\* of the episode: the kill request may or may not have arrived.
InterruptClose(c) ==
  /\ CloseInterruptible /\ pc[c] \in {"discard", "abort", "release"}
  /\ UNCHANGED life \/ life' = [life EXCEPT ![hold[c]] = "absent"]
  /\ Drop(c)
  /\ Goto(c, "idle")
  /\ UNCHANGED <<phase, lock, slots, ready, reclaiming, cancelled>>

EndEpisode(c) ==
  /\ pc[c] = "own"
  /\ Goto(c, "release")
  /\ UNCHANGED <<phase, lock, slots, ready, reclaiming, hold, cancelled, life>>

\* Mutant: the episode gives the used instance back to the pool.
ReleasedToPool(c) ==
  /\ pc[c] = "release"
  /\ ready' = Append(ready, hold[c])
  /\ Drop(c)
  /\ Goto(c, "idle")
  /\ UNCHANGED <<phase, lock, slots, reclaiming, cancelled, life>>

Released(c) ==
  /\ pc[c] = "release"
  /\ Kill(hold[c])
  /\ Drop(c)
  /\ Goto(c, "idle")
  /\ UNCHANGED <<phase, lock, slots, ready, reclaiming, cancelled>>
-----------------------------------------------------------------------------
(***************************************************************************)
(* _close, and what a cancelled pool task does with its CancelledError.    *)
(***************************************************************************)
InsideClose == {t \in PoolTasks : pc[t] \in {"bootclose", "close", "unwind"}}

\* Mutant: the producers are left to find self._closed themselves.
BeginCloseForgetsProducers ==
  /\ phase \in {"filling", "serving"}
  /\ CloseInterruptible \/ InsideClose = {}
  /\ phase' = "closing"
  /\ pc' = Awaken(pc)
  /\ cancelled' = Renewers
  /\ reclaiming' = Queued
  /\ ready' = <<>>
  /\ UNCHANGED <<lock, slots, hold, life>>

BeginClose ==
  /\ phase \in {"filling", "serving"}
  /\ CloseInterruptible \/ InsideClose = {}
  /\ phase' = "closing"
  /\ pc' = Awaken(pc)
  /\ cancelled' = PoolTasks
  /\ reclaiming' = Queued
  /\ ready' = <<>>
  /\ UNCHANGED <<lock, slots, hold, life>>

Reclaim(s) ==
  /\ s \in reclaiming
  /\ Kill(s)
  /\ reclaiming' = reclaiming \ {s}
  /\ UNCHANGED <<phase, lock, slots, ready, pc, hold, cancelled>>

\* Mutant: the run lock is released before the cancelled tasks are gathered.
EndCloseEarly ==
  /\ phase = "closing"
  /\ reclaiming = {}
  /\ phase' = "closed" /\ lock' = "free"
  /\ UNCHANGED <<slots, ready, reclaiming, pc, hold, cancelled, life>>

\* A cancelled gather is over with its first child: of the renewers, all told
\* of the cancellation at once, _close has only waited for the first to end.
KeepAliveOver == cancelled = {} /\ \E r \in Renewers : pc[r] = "done"

EndClose ==
  /\ phase = "closing"
  /\ \A p \in Creators : pc[p] = "done"
  /\ KeepAliveOver
  /\ reclaiming = {}
  /\ phase' = "closed" /\ lock' = "free"
  /\ UNCHANGED <<slots, ready, reclaiming, pc, hold, cancelled, life>>

\* asyncio.run cancels what is left when the loop that owned the pool returns:
\* the renewers that are still closing what they had in hand.
LoopEnds ==
  /\ phase = "closed" /\ CloseInterruptible /\ cancelled = {}
  /\ \A c \in Claims : pc[c] = "idle"
  /\ InsideClose # {} /\ cancelled' = InsideClose
  /\ UNCHANGED <<phase, lock, slots, ready, reclaiming, pc, hold, life>>

\* Nothing to undo: waiting for a permit, sleeping, or watching the inventory.
CancelIdle(t) ==
  /\ t \in cancelled /\ pc[t] \in {"slot", "backoff", "watch"}
  /\ cancelled' = cancelled \ {t}
  /\ Goto(t, "done")
  /\ UNCHANGED <<phase, lock, slots, ready, reclaiming, hold, life>>

\* The shielded allocation is awaited to its end before anything is raised.
CancelAllocation(t) ==
  /\ t \in cancelled /\ pc[t] = "alloc"
  /\ cancelled' = cancelled \ {t}
  /\ Goto(t, "resolve")
  /\ UNCHANGED <<phase, lock, slots, ready, reclaiming, hold, life>>

\* Mutant: the cancellation leaves through an except clause without a close.
CancelHoldingDrops(t) ==
  /\ t \in cancelled /\ pc[t] \in {"boot", "prepare", "renew"}
  /\ Drop(t)
  /\ slots' = slots + 1
  /\ cancelled' = cancelled \ {t}
  /\ Goto(t, "done")
  /\ UNCHANGED <<phase, lock, ready, reclaiming, life>>

\* A sandbox is in hand: the except or finally block closes it.
CancelHolding(t) ==
  /\ t \in cancelled /\ pc[t] \in {"boot", "prepare", "renew"}
  /\ IF pc[t] = "boot" THEN UNCHANGED life ELSE RenewUnanswered(hold[t], "idle")
  /\ cancelled' = cancelled \ {t}
  /\ Goto(t, "unwind")
  /\ UNCHANGED <<phase, lock, slots, ready, reclaiming, hold>>

\* The task was already inside close(): the rest of close() never runs, and of
\* a finally block neither does the rest, the release of the permit.
CancelInsideClose(t) ==
  /\ t \in cancelled \cap InsideClose
  /\ UNCHANGED life \/ life' = [life EXCEPT ![hold[t]] = "absent"]
  /\ Drop(t)
  /\ slots' = IF pc[t] = "bootclose" THEN slots + 1 ELSE slots
  /\ cancelled' = cancelled \ {t}
  /\ Goto(t, "done")
  /\ UNCHANGED <<phase, lock, ready, reclaiming>>

Resolved(t) ==
  /\ pc[t] = "resolve"
  /\ \E s \in Fresh :
       /\ life' = [life EXCEPT ![s] = "boot"]
       /\ Let(t, s)
  /\ Goto(t, "unwind")
  /\ UNCHANGED <<phase, lock, slots, ready, reclaiming, cancelled>>

ResolvedEmpty(t) ==
  /\ pc[t] = "resolve"
  /\ slots' = slots + 1
  /\ GotoAndSignal(t, "done")
  /\ UNCHANGED <<phase, lock, ready, reclaiming, hold, cancelled, life>>

Unwound(t) ==
  /\ At(t, "unwind")
  /\ Kill(hold[t])
  /\ Drop(t)
  /\ slots' = slots + 1
  /\ GotoAndSignal(t, "done")
  /\ UNCHANGED <<phase, lock, ready, reclaiming, cancelled>>
-----------------------------------------------------------------------------
CreatorStep(p) ==
  \/ TakeSlot(p) \/ Allocated(p) \/ AllocationFailed(p)
  \/ Booted(p) \/ BootFailed(p) \/ Prepared(p) \/ PrepareFailed(p)
  \/ CreateCleaned(p) \/ BackoffOver(p)

RenewerStep(r) ==
  RenewDue(r) \/ RenewKept(r) \/ RenewFailed(r) \/ RenewCleaned(r)

CancelStep(t) ==
  \/ CancelIdle(t) \/ CancelAllocation(t) \/ CancelHolding(t)
  \/ CancelInsideClose(t) \/ Resolved(t) \/ ResolvedEmpty(t) \/ Unwound(t)

Interrupt(c) == InterruptWait(c) \/ InterruptClaim(c) \/ InterruptClose(c)

AcquireStep(c) ==
  \/ RefusedClosed(c) \/ WaitForChange(c) \/ TakeReady(c)
  \/ Claimed(c) \/ ClaimStale(c) \/ Discarded(c)

EpisodeStep(c) == EndEpisode(c) \/ Released(c)

Next ==
  \/ Start \/ FillDone \/ OtherOwner \/ BeginClose \/ EndClose \/ LoopEnds
  \/ \E s \in Sandboxes : Expire(s) \/ Reclaim(s)
  \/ \E p \in Creators : CreatorStep(p)
  \/ \E r \in Renewers : RenewerStep(r)
  \/ \E t \in PoolTasks : CancelStep(t)
  \/ \E c \in Claims : Request(c) \/ AcquireStep(c) \/ Interrupt(c) \/ EpisodeStep(c)

Spec == Init /\ [][Next]_vars
-----------------------------------------------------------------------------
(***************************************************************************)
(* Safety.                                                                 *)
(***************************************************************************)
PoolOwned == Queued \cup reclaiming \cup HeldBy(PoolTasks)

\* While the pool is open every permit is free, with a task, or behind a queued
\* sandbox: a failure, renewal or claim neither loses one nor frees one twice
\* (the release calls of _produce, _renew_one_due and acquire).
SlotAccounting ==
  ~Closed => slots + Cardinality(SlotHolders) + Len(ready) = Size

\* "Bound idle + creating + renewing inventory independently of episodes": what
\* the pool holds, shutdown included, never exceeds Size instances.
InventoryBound == Cardinality(PoolOwned) <= Size

\* A sandbox is in one pair of hands: no claim takes what a renewal holds, no
\* two episodes share an instance, none is queued twice or after being claimed.
ExclusiveOwner ==
  /\ \A i, j \in 1..Len(ready) : ready[i] = ready[j] => i = j
  /\ \A t, u \in Tasks : hold[t] = hold[u] => t = u \/ hold[t] = NoSandbox
  /\ HeldBy(Tasks) \cap (Queued \cup reclaiming) = {}
  /\ Queued \cap reclaiming = {}

\* An idle renewal never shortens the lifetime of an instance an episode owns.
ActiveLifetime ==
  \A c \in Claims : pc[c] \in {"own", "release"} => life[hold[c]] \in {"active", "absent"}

\* No lost wakeup: acquire sleeps on _changed only while there is nothing to
\* take and the pool is open, although every waiter clears the shared event.
NoSleeperWhileReady ==
  (\E c \in Claims : pc[c] = "blocked") => ready = <<>> /\ ~Closed

\* "A shared-filesystem lock rejects a second process for the same run instead of
\* multiplying the inventory": while the pool holds an instance the lock is ours.
LockCoversInventory == PoolOwned # {} => lock = "ours"

\* What the lock does cover: the idle, created and reclaimed inventory.  Another
\* owner can meet only instances that a renewer, cancelled in the middle of its
\* renewal, is still killing.
LockCoversStock ==
  lock # "ours" => PoolOwned \subseteq HeldBy({r \in Renewers : pc[r] = "unwind"})

\* Every live instance is some task's to destroy: each failure, stale claim and
\* cancellation path ends in a close of the instance it had in hand.
OrphanFree == Orphans = {}

\* A completed shutdown leaves no instance of the pool alive.
ShutdownReclaims == phase = "closed" => Orphans = {}
-----------------------------------------------------------------------------
(***************************************************************************)
(* Liveness.  Every await of the pool has a deadline (create_timeout_sec,  *)
(* exec timeouts, 35 s renewals, 30 s kills) and the loop schedules every  *)
(* runnable task, so each task's steps are weakly fair.                    *)
(***************************************************************************)
TaskFairness ==
  /\ WF_vars(EndClose)
  /\ \A s \in Sandboxes : WF_vars(Reclaim(s))
  /\ \A t \in PoolTasks : WF_vars(CancelStep(t))
  /\ \A p \in Creators : WF_vars(CreatorStep(p))
  /\ \A r \in Renewers : WF_vars(RenewerStep(r))
  /\ \A c \in Claims : WF_vars(AcquireStep(c))

FairSpec == Spec /\ TaskFairness

\* close() returns: no cancelled task, allocation or idle instance blocks it.
ShutdownCompletes == phase = "closing" ~> phase = "closed"

\* A provider that answers often enough and in the end loses no more instances.
\* TakeReady is strongly fair because a renewal only takes entries a third of
\* idle_timeout old: it cannot take each fresh entry before the episode woken
\* for it runs.
ProviderFairness ==
  /\ \A p \in Creators : SF_vars(Allocated(p)) /\ SF_vars(Booted(p)) /\ SF_vars(Prepared(p))
  /\ \A r \in Renewers : SF_vars(RenewKept(r))
  /\ \A c \in Claims : SF_vars(TakeReady(c)) /\ SF_vars(Claimed(c))

StableProvider == <>[][\A s \in Sandboxes : ~Expire(s)]_vars

SuppliedSpec == FairSpec /\ ProviderFairness /\ StableProvider

\* Producers, renewals and waiting claims never all wait for each other, and no
\* run of failures uses up the permits: an episode that found the pool empty
\* gets an instance in the end, unless its deadline or the shutdown comes first.
WaiterServed ==
  \A c \in Claims : pc[c] = "blocked" ~> pc[c] \in {"own", "idle"}
-----------------------------------------------------------------------------
(***************************************************************************)
(* Refinement.  What the pool answers for is the stock; what the claims    *)
(* hold is in use.                                                         *)
(***************************************************************************)
Supply == INSTANCE SandboxSupply WITH
  open <- ~Closed, stock <- PoolOwned, used <- HeldBy(Claims)

\* The pool implements the bounded supply of single-use instances: no instance
\* comes back from an episode, none is handed out after close() began.
ImplementsSupply == Supply!SupplySpec
=============================================================================
