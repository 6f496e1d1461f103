---------------------------- MODULE HarborService ----------------------------
(***************************************************************************)
(* Miles and the Harbor service: rl/miles_harbor_agent.py, the hooks that  *)
(* Miles calls for every sample of a rollout, and rl/miles_harbor_server.py*)
(* which runs one trial for each request.                                  *)
(*                                                                         *)
(* Client and server are two processes.  A request, its answer and a flush *)
(* may be late or lost, the client may be cancelled or time out, and the   *)
(* server goes on with a request whose client has gone.  Samples of one    *)
(* Miles process share a session instance, and a flush names instances.    *)
(***************************************************************************)
EXTENDS Integers, FiniteSets

CONSTANTS
  Samples,
  Instances,              \* session server instances
  Groups,                 \* the prompts, each with its samples
  Configured,             \* the instance abort finds in args, if any
  MaxConcurrent,          \* CODEPROVER_AGENT_MAX_CONCURRENT
  Outcomes                \* how a trial that is not cancelled may end

Rewards == {"zero", "one"}          \* float(rewards["reward"]), finite
Unusable == {"text", "nan", "none"} \* no float, no finite one, no reward

ASSUME HarborAssumption ==
  /\ IsFiniteSet(Samples) /\ IsFiniteSet(Instances)
  /\ UNION Groups = Samples
  /\ \A g, h \in Groups : g # h => g \cap h = {}
  /\ {} \notin Groups
  /\ Configured \subseteq Instances
  /\ MaxConcurrent \in Nat \ {0}
  /\ Outcomes \subseteq [broken : BOOLEAN, said : Rewards \cup Unusable]

VARIABLES
  instance,    \* session_server_instance_id of each sample
  client,      \* where run is, for each sample
  counts,      \* _ACTIVE_INSTANCE_COUNTS: no key is 0
  handler,     \* where the server's task for /run is
  registry,    \* _ACTIVE_TRIALS: no key is {}
  permits,     \* _RUN_SEMAPHORE
  verdict,     \* what the verifier of the trial said
  reply,       \* the answer on its way to the client
  metadata,    \* of the sample: a reward, "infra" or nothing yet
  mismatch,    \* samples that Miles itself found at fault: a strict
               \* tito_session_mismatch, or the status aborted
  reward,      \* what reward_func returned for it
  flush,       \* /flush requests: by a cancelled run, or by the abort hook
  named,       \* the instances the abort's flush names
  flushed,     \* samples whose trial a flush has cancelled
  faulty,      \* samples that met a fault of the infrastructure
  group        \* how far Miles is with each group

clientVars == <<client, counts, metadata, mismatch>>
serverVars == <<handler, registry, permits, verdict, reply, flushed>>
milesVars == <<reward, group>>
flushVars == <<flush, named>>
vars == <<instance, clientVars, serverVars, milesVars, flushVars, faulty>>

Abort == "abort"                    \* the hook, among those that flush
Flushers == Samples \cup {Abort}

AtServer == {"waiting", "trial", "unwinding"}
Listening == {"posting", "flushing"}

TypeOK ==
  /\ instance \in [Samples -> Instances]
  /\ client \in [Samples ->
       {"new", "posting", "flushing", "answered", "cancelled"}]
  /\ \E I \in SUBSET Instances : counts \in [I -> Nat \ {0}]
  /\ handler \in [Samples -> {"none", "wire", "lost", "done"} \cup AtServer]
  /\ \E I \in SUBSET Instances : registry \in [I -> (SUBSET Samples) \ {{}}]
  /\ permits \in 0..MaxConcurrent
  /\ verdict \in [Samples -> Rewards \cup Unusable]
  /\ reply \in [Samples -> {"none", "infra", "dropped"} \cup Rewards]
  /\ metadata \in [Samples -> {"none", "infra"} \cup Rewards]
  /\ mismatch \subseteq Samples
  /\ reward \in [Samples -> {"none"} \cup Rewards]
  /\ flush \in [Flushers -> {"none", "wire", "served", "lost"}]
  /\ named \subseteq Instances
  /\ flushed \subseteq Samples /\ faulty \subseteq Samples
  /\ group \in [Groups -> {"generating", "rewarded", "trained", "refused"}]

Init ==
  /\ instance \in [Samples -> Instances]
  /\ client = [s \in Samples |-> "new"]
  /\ counts = [i \in {} |-> 0]
  /\ handler = [s \in Samples |-> "none"]
  /\ registry = [i \in {} |-> {}]
  /\ permits = MaxConcurrent
  /\ verdict = [s \in Samples |-> "none"]
  /\ reply = [s \in Samples |-> "none"]
  /\ metadata = [s \in Samples |-> "none"]
  /\ mismatch = {}
  /\ reward = [s \in Samples |-> "none"]
  /\ flush = [f \in Flushers |-> "none"]
  /\ named = {} /\ flushed = {} /\ faulty = {}
  /\ group = [g \in Groups |-> "generating"]
-----------------------------------------------------------------------------
(***************************************************************************)
(* Dictionaries whose entries disappear with their last user.              *)
(***************************************************************************)
Count(i) == IF i \in DOMAIN counts THEN counts[i] ELSE 0

\* _register_instance, _unregister_instance.
CountsWith(i, n) ==
  [j \in (DOMAIN counts \ {i}) \cup (IF n > 0 THEN {i} ELSE {}) |->
     IF j = i THEN n ELSE counts[j]]

Trials(i) == IF i \in DOMAIN registry THEN registry[i] ELSE {}

\* _register, _unregister; a flush cancels several trials before any of them
\* unregisters itself.
RegistryWith(i, tasks) ==
  [j \in (DOMAIN registry \ {i}) \cup (IF tasks # {} THEN {i} ELSE {}) |->
     IF j = i THEN tasks ELSE registry[j]]

\* The circuit opened: the filter raised, and the rollout is over.
Running == \A g \in Groups : group[g] # "refused"

-----------------------------------------------------------------------------
(***************************************************************************)
(* The client: run.                                                        *)
(***************************************************************************)

\* The sample's data does not make a request: no registration, no trial.
BadRequest(s) ==
  /\ Running /\ client[s] = "new"
  /\ client' = [client EXCEPT ![s] = "answered"]
  /\ metadata' = [metadata EXCEPT ![s] = "infra"]
  /\ faulty' = faulty \cup {s}
  /\ UNCHANGED <<instance, counts, mismatch, serverVars, milesVars,
                 flushVars>>

Post(s) ==
  LET i == instance[s]
  IN /\ Running /\ client[s] = "new"
     /\ client' = [client EXCEPT ![s] = "posting"]
     /\ counts' = CountsWith(i, Count(i) + 1)
     /\ handler' = [handler EXCEPT ![s] = "wire"]
     /\ UNCHANGED <<instance, metadata, mismatch, registry, permits, verdict,
                    reply, flushed, milesVars, flushVars, faulty>>

\* Mutant: the finally block is missing.
LeaveRegistered(s, how) ==
  /\ client' = [client EXCEPT ![s] = how]
  /\ UNCHANGED counts

\* run ends, whichever way: the finally block unregisters the instance.
Leave(s, how) ==
  LET i == instance[s]
  IN /\ client' = [client EXCEPT ![s] = how]
     /\ counts' = CountsWith(i, Count(i) - 1)

\* The answer of the server; the session server adds what it found in the
\* tokens.  A handler that was cancelled drops the connection.
Receive(s) ==
  /\ client[s] = "posting" /\ reply[s] # "none"
  /\ Leave(s, "answered")
  /\ metadata' = [metadata EXCEPT ![s] =
                    IF reply[s] \in Rewards THEN reply[s] ELSE "infra"]
  /\ mismatch' \in {mismatch, mismatch \cup {s}}
  /\ UNCHANGED <<instance, serverVars, milesVars, flushVars, faulty>>

\* A request that its client no longer waits for may never arrive.
RequestLost(s) ==
  [handler EXCEPT ![s] = IF @ = "wire" THEN "lost" ELSE @]

\* The request times out or the network fails.  Nobody tells the server.
PostFails(s) ==
  /\ client[s] = "posting"
  /\ Leave(s, "answered")
  /\ metadata' = [metadata EXCEPT ![s] = "infra"]
  /\ faulty' = faulty \cup {s}
  /\ handler' \in {handler, RequestLost(s)}
  /\ UNCHANGED <<instance, mismatch, registry, permits, verdict, reply,
                 flushed, milesVars, flushVars>>

\* Miles cancels run: it closes its connection and sends a flush.
CancelRun(s) ==
  /\ client[s] = "posting"
  /\ client' = [client EXCEPT ![s] = "flushing"]
  /\ flush' = [flush EXCEPT ![s] = "wire"]
  /\ handler' \in {handler, RequestLost(s)}
  /\ UNCHANGED <<instance, counts, metadata, mismatch, registry, permits,
                 verdict, reply, flushed, milesVars, named, faulty>>

\* The flush was answered, failed, or took ten seconds.
CancelledRunEnds(s) ==
  /\ client[s] = "flushing"
  /\ Leave(s, "cancelled")
  /\ UNCHANGED <<instance, metadata, mismatch, serverVars, milesVars,
                 flushVars, faulty>>

\* abort: a flush for every instance with a run, and for the configured one.
\* The bound: one abort.
AbortHook ==
  LET instances == DOMAIN counts \cup Configured
  IN /\ flush[Abort] = "none" /\ instances # {}
     /\ flush' = [flush EXCEPT ![Abort] = "wire"]
     /\ named' = instances
     /\ UNCHANGED <<instance, clientVars, serverVars, milesVars, faulty>>

FlushLost(f) ==
  /\ flush[f] = "wire"
  /\ flush' = [flush EXCEPT ![f] = "lost"]
  /\ UNCHANGED <<instance, clientVars, serverVars, milesVars, named, faulty>>
-----------------------------------------------------------------------------
(***************************************************************************)
(* The server.                                                             *)
(***************************************************************************)
Unregister(s) ==
  LET i == instance[s] IN registry' = RegistryWith(i, Trials(i) \ {s})

\* run_endpoint until its first await: registration, then the permit, at
\* once or after waiting for it.
Arrive(s) ==
  LET i == instance[s]
      mayRun == permits > 0 /\ \A t \in Samples : handler[t] # "waiting"
  IN /\ handler[s] = "wire"
     /\ registry' = RegistryWith(i, Trials(i) \cup {s})
     /\ handler' = [handler EXCEPT ![s] = IF mayRun THEN "trial" ELSE "waiting"]
     /\ permits' = permits - (IF mayRun THEN 1 ELSE 0)
     /\ UNCHANGED <<instance, verdict, reply, flushed, clientVars, milesVars,
                    flushVars, faulty>>

\* The authorization or the environment is not as it should be.
Refuse(s) ==
  /\ handler[s] = "wire"
  /\ handler' = [handler EXCEPT ![s] = "done"]
  /\ reply' = [reply EXCEPT ![s] = "infra"]
  /\ faulty' = faulty \cup {s}
  /\ UNCHANGED <<instance, registry, permits, verdict, flushed, clientVars,
                 milesVars, flushVars>>

\* Mutant: a waiting request goes on without a permit.
GetPermitUnasked(s) ==
  /\ handler[s] = "waiting"
  /\ handler' = [handler EXCEPT ![s] = "trial"]
  /\ permits' = permits - 1
  /\ UNCHANGED <<instance, registry, verdict, reply, flushed, clientVars,
                 milesVars, flushVars, faulty>>

GetPermit(s) ==
  /\ handler[s] = "waiting" /\ permits > 0
  /\ handler' = [handler EXCEPT ![s] = "trial"]
  /\ permits' = permits - 1
  /\ UNCHANGED <<instance, registry, verdict, reply, flushed, clientVars,
                 milesVars, flushVars, faulty>>

\* Mutant: a reward hides the exception of its trial.
PayloadOfBroken(outcome) ==
  IF outcome.said \notin Rewards THEN "infra" ELSE outcome.said

\* _result_payload: a trial that raised, reported an exception or was
\* stopped by its transport is an infrastructure error whatever reward there
\* is, and so is one whose verifier did not say a finite number.
Payload(outcome) ==
  IF outcome.broken \/ outcome.said \notin Rewards THEN "infra" ELSE outcome.said

TrialEnds(s, outcome) ==
  /\ handler[s] = "trial"
  /\ handler' = [handler EXCEPT ![s] = "done"]
  /\ permits' = permits + 1
  /\ Unregister(s)
  /\ verdict' = [verdict EXCEPT ![s] = outcome.said]
  /\ reply' = [reply EXCEPT ![s] = Payload(outcome)]
  /\ faulty' = IF outcome.broken \/ outcome.said \in Unusable
               THEN faulty \cup {s} ELSE faulty
  /\ UNCHANGED <<instance, flushed, clientVars, milesVars, flushVars>>

\* Mutant: a flush leaves alone what waits for a permit.
FlushTrialsOnly(f) ==
  LET instances == IF f = Abort THEN named ELSE {instance[f]}
      targets == UNION {Trials(i) : i \in instances}
  IN /\ flush[f] = "wire"
     /\ flush' = [flush EXCEPT ![f] = "served"]
     /\ handler' = [s \in Samples |->
          IF s \in targets /\ handler[s] = "trial" THEN "unwinding"
          ELSE handler[s]]
     /\ flushed' = flushed \cup targets
     /\ UNCHANGED <<instance, registry, permits, verdict, reply, clientVars,
                    milesVars, named, faulty>>

\* flush_endpoint up to its wait: every registered task of the instances is
\* cancelled.  One in its trial first tears its sandbox down, one that waits
\* for a permit ends as soon as the loop comes to it.
FlushArrives(f) ==
  LET instances == IF f = Abort THEN named ELSE {instance[f]}
      targets == UNION {Trials(i) : i \in instances}
      gone == {s \in targets : handler[s] = "waiting"}
  IN /\ flush[f] = "wire"
     /\ flush' = [flush EXCEPT ![f] = "served"]
     /\ handler' = [s \in Samples |->
          IF s \in gone THEN "done"
          ELSE IF s \in targets THEN "unwinding" ELSE handler[s]]
     /\ reply' = [s \in Samples |-> IF s \in gone THEN "dropped" ELSE reply[s]]
     /\ registry' = [i \in {j \in DOMAIN registry : registry[j] \ gone # {}} |->
                       registry[i] \ gone]
     /\ flushed' = flushed \cup targets
     /\ UNCHANGED <<instance, permits, verdict, clientVars, milesVars, named,
                    faulty>>

\* Mutant: a cancelled trial keeps its permit.
UnwoundKeepsPermit(s) ==
  /\ handler[s] = "unwinding"
  /\ handler' = [handler EXCEPT ![s] = "done"]
  /\ Unregister(s)
  /\ reply' = [reply EXCEPT ![s] = "dropped"]
  /\ UNCHANGED <<instance, permits, verdict, flushed, clientVars, milesVars,
                 flushVars, faulty>>

\* The cancelled trial has released its sandbox.
Unwound(s) ==
  /\ handler[s] = "unwinding"
  /\ handler' = [handler EXCEPT ![s] = "done"]
  /\ permits' = permits + 1
  /\ Unregister(s)
  /\ reply' = [reply EXCEPT ![s] = "dropped"]
  /\ UNCHANGED <<instance, verdict, flushed, clientVars, milesVars, flushVars,
                 faulty>>
-----------------------------------------------------------------------------
(***************************************************************************)
(* Miles: the reward hook and the filter, on a group whose runs all have   *)
(* returned.  A run that was cancelled returns nothing.                    *)
(***************************************************************************)

\* reward_func: a sample without a usable reward gets 0.0 and a mark.
RewardGroup(g) ==
  /\ Running /\ group[g] = "generating"
  /\ \A s \in g : client[s] = "answered"
  /\ reward' = [s \in Samples |->
       IF s \notin g THEN reward[s]
       ELSE IF metadata[s] \in Rewards THEN metadata[s] ELSE "zero"]
  /\ group' = [group EXCEPT ![g] = "rewarded"]
  /\ UNCHANGED <<instance, clientVars, serverVars, flushVars, faulty>>

Acceptable(s) == metadata[s] # "infra" /\ s \notin mismatch

\* fail_on_infrastructure: one bad sample ends the whole rollout.
FilterGroup(g) ==
  /\ Running /\ group[g] = "rewarded"
  /\ group' = [group EXCEPT ![g] =
       IF \A s \in g : Acceptable(s) THEN "trained" ELSE "refused"]
  /\ UNCHANGED <<instance, clientVars, serverVars, reward, flushVars, faulty>>
-----------------------------------------------------------------------------
ClientStep(s) ==
  \/ BadRequest(s) \/ Post(s) \/ Receive(s) \/ PostFails(s)
  \/ CancelRun(s) \/ CancelledRunEnds(s)

ServerStep(s) ==
  \/ Arrive(s) \/ Refuse(s) \/ GetPermit(s) \/ Unwound(s)
  \/ \E outcome \in Outcomes : TrialEnds(s, outcome)

FlushStep(f) == FlushLost(f) \/ FlushArrives(f)

Next ==
  \/ \E s \in Samples : ClientStep(s) \/ ServerStep(s)
  \/ \E f \in Flushers : FlushStep(f)
  \/ \E g \in Groups : RewardGroup(g) \/ FilterGroup(g)
  \/ AbortHook

\* A client's request has a timeout, and so have its flush, the agent, the
\* verifier and the sandbox: each await ends.
Fairness ==
  \A s \in Samples :
    /\ WF_vars(Receive(s) \/ PostFails(s))
    /\ WF_vars(CancelledRunEnds(s))
    /\ WF_vars(ServerStep(s))

Spec == Init /\ [][Next]_vars /\ Fairness
-----------------------------------------------------------------------------
(***************************************************************************)
(* Properties.                                                             *)
(***************************************************************************)

\* Registry, reference counts and permits say exactly who is there, however
\* a run or a trial ends: answered, failed, timed out, cancelled while it
\* waits for a permit or in its trial (miles_harbor_server.py:388,
\* miles_harbor_agent.py:42).
RegistersExact ==
  /\ \A i \in Instances :
       LET here == {s \in Samples : instance[s] = i}
       IN /\ Trials(i) = {s \in here : handler[s] \in AtServer}
          /\ Count(i) = Cardinality({s \in here : client[s] \in Listening})
  /\ LET inTrial == {s \in Samples : handler[s] \in {"trial", "unwinding"}}
     IN permits + Cardinality(inTrial) = MaxConcurrent

\* "network/server faults must never become reward 0": what reaches training
\* is a finite number the sample's own verifier said in a trial that nothing
\* disturbed, although reward_func hands out 0.0 in other cases too
\* (miles_harbor_agent.py:255).
TrainedIsVerified ==
  \A g \in Groups : group[g] = "trained" =>
    \A s \in g : /\ verdict[s] \in Rewards /\ reward[s] = verdict[s]
                 /\ s \notin flushed \cup faulty \cup mismatch

\* A flush reaches every trial that is registered for its instances, those
\* that still wait for a permit too: none of them goes on, and none of them
\* brings a reward (miles_harbor_server.py:514).
FlushStopsTrials ==
  \A s \in flushed :
    handler[s] \in {"unwinding", "done"} /\ reply[s] \notin Rewards

\* Every run returns or is cancelled, and every request that reached the
\* server gives its permit back, in whatever order they lose each other.
EveryRequestEnds ==
  \A s \in Samples :
    client[s] \in Listening \/ handler[s] \in AtServer
      ~> client[s] \notin Listening /\ handler[s] \notin AtServer
=============================================================================
