------------------------- MODULE HarborServiceProofs -------------------------
(***************************************************************************)
(* Proofs that the registry, the reference counts and the permits of Miles *)
(* and the Harbor service are exact, that a flush stops what it names, and *)
(* that only verified rewards are trained on, for any samples, instances,  *)
(* groups and outcomes and any number of permits.                          *)
(*                                                                         *)
(* The last one follows a reward from the verifier to training.  At each   *)
(* hop the invariant says what the number is a copy of, and that whoever   *)
(* could still spoil it has ended.                                         *)
(***************************************************************************)
EXTENDS HarborService, TLAPS, FiniteSetTheorems

\* A reward on its way is the verdict of a trial that has ended.
RepliesVerified ==
  \A s \in Samples :
    reply[s] \in Rewards => handler[s] = "done" /\ verdict[s] = reply[s]

\* A sample whose run has not begun has no request; a fault is not followed
\* by a reward; a sample's reward is that of the reply.
AnswersTrue ==
  \A s \in Samples :
    /\ client[s] = "new" => handler[s] = "none"
    /\ client[s] = "answered" => metadata[s] # "none"
    /\ s \in faulty /\ client[s] \in {"new", "posting"} =>
         handler[s] = "done" /\ reply[s] \notin Rewards
    /\ metadata[s] \in Rewards =>
         /\ client[s] = "answered" /\ reply[s] = metadata[s]
         /\ s \notin faulty

\* The rewards of a group are those of its samples, and stay so.
GroupsSettled ==
  \A g \in Groups : \A s \in g :
    /\ group[g] \in {"rewarded", "trained"} =>
         /\ client[s] = "answered"
         /\ metadata[s] \in Rewards => reward[s] = metadata[s]
    /\ group[g] = "trained" => Acceptable(s)

\* The inductive invariant.
ServiceInv ==
  /\ TypeOK /\ RegistersExact /\ FlushStopsTrials
  /\ RepliesVerified /\ AnswersTrue /\ GroupsSettled
-----------------------------------------------------------------------------
(***************************************************************************)
(* The two dictionaries and the permits.                                   *)
(***************************************************************************)
Listeners(i) == {s \in Samples : instance[s] = i /\ client[s] \in Listening}
AtServerOf(i) == {s \in Samples : instance[s] = i /\ handler[s] \in AtServer}
InTrial == {s \in Samples : handler[s] \in {"trial", "unwinding"}}

RegistryType == \E I \in SUBSET Instances : registry \in [I -> (SUBSET Samples) \ {{}}]
CountsType == \E I \in SUBSET Instances : counts \in [I -> Nat \ {0}]

TrialsExact == \A i \in Instances : Trials(i) = AtServerOf(i)
CountsExact == \A i \in Instances : Count(i) = Cardinality(Listeners(i))
PermitsExact ==
  /\ permits \in 0..MaxConcurrent
  /\ permits + Cardinality(InTrial) = MaxConcurrent

LEMMA RegisterParts ==
  permits \in 0..MaxConcurrent =>
    (RegistersExact <=> TrialsExact /\ CountsExact /\ PermitsExact)
<1>1. \A i \in Instances :
        /\ AtServerOf(i) = {s \in {t \in Samples : instance[t] = i} :
                              handler[s] \in AtServer}
        /\ Listeners(i) = {s \in {t \in Samples : instance[t] = i} :
                             client[s] \in Listening}
  BY DEF AtServerOf, Listeners
<1> QED
  BY <1>1 DEF RegistersExact, TrialsExact, CountsExact, PermitsExact, InTrial

\* Every set of samples is finite.
LEMMA SamplesFinite == \A S \in SUBSET Samples : IsFiniteSet(S)
  BY FS_Subset, HarborAssumption DEF HarborAssumption

\* Counting a sample more, or one less.
LEMMA OneMore ==
  ASSUME NEW S \in SUBSET Samples, NEW s \in Samples \ S
  PROVE  Cardinality(S \cup {s}) = Cardinality(S) + 1
  BY SamplesFinite, FS_AddElement

LEMMA OneLess ==
  ASSUME NEW S \in SUBSET Samples, NEW s \in S
  PROVE  /\ Cardinality(S \ {s}) = Cardinality(S) - 1
         /\ Cardinality(S) \in Nat \ {0}
<1>1. IsFiniteSet(S) /\ Cardinality(S) \in Nat
  BY SamplesFinite, FS_CardinalityType
<1>2. Cardinality(S \ {s}) = Cardinality(S) - 1
  BY <1>1, FS_RemoveElement
<1>3. Cardinality(S \ {s}) \in Nat
  BY <1>1, FS_RemoveElement, FS_CardinalityType
<1> QED
  BY <1>1, <1>2, <1>3

\* An entry without tasks disappears, the others keep theirs.
LEMMA RegistryUpdate ==
  ASSUME RegistryType, NEW i \in Instances, NEW tasks \in SUBSET Samples,
         registry' = RegistryWith(i, tasks)
  PROVE  /\ RegistryType'
         /\ Trials(i)' = tasks
         /\ \A j \in Instances : j # i => Trials(j)' = Trials(j)
<1>1. PICK I \in SUBSET Instances : registry \in [I -> (SUBSET Samples) \ {{}}]
  BY DEF RegistryType
<1> DEFINE J == (I \ {i}) \cup (IF tasks # {} THEN {i} ELSE {})
<1>2. registry' = [j \in J |-> IF j = i THEN tasks ELSE registry[j]]
  BY <1>1 DEF RegistryWith
<1>3. J \in SUBSET Instances /\ registry' \in [J -> (SUBSET Samples) \ {{}}]
  BY <1>1, <1>2
<1>4. RegistryType'
  BY <1>3 DEF RegistryType
<1>5. Trials(i)' = tasks
  BY <1>2 DEF Trials
<1>6. \A j \in Instances : j # i => Trials(j)' = Trials(j)
  BY <1>1, <1>2 DEF Trials
<1> QED
  BY <1>4, <1>5, <1>6

LEMMA CountsUpdate ==
  ASSUME CountsType, NEW i \in Instances, NEW n \in Nat,
         counts' = CountsWith(i, n)
  PROVE  /\ CountsType'
         /\ Count(i)' = n
         /\ \A j \in Instances : j # i => Count(j)' = Count(j)
<1>1. PICK I \in SUBSET Instances : counts \in [I -> Nat \ {0}]
  BY DEF CountsType
<1> DEFINE J == (I \ {i}) \cup (IF n > 0 THEN {i} ELSE {})
<1>2. counts' = [j \in J |-> IF j = i THEN n ELSE counts[j]]
  BY <1>1 DEF CountsWith
<1>3. J \in SUBSET Instances /\ counts' \in [J -> Nat \ {0}]
  BY <1>1, <1>2
<1>4. CountsType'
  BY <1>3 DEF CountsType
<1>5. Count(i)' = n
  BY <1>2 DEF Count
<1>6. \A j \in Instances : j # i => Count(j)' = Count(j)
  BY <1>1, <1>2 DEF Count
<1> QED
  BY <1>4, <1>5, <1>6
-----------------------------------------------------------------------------
\* The other variables.
ClientTypes ==
  /\ instance \in [Samples -> Instances]
  /\ client \in [Samples -> {"new", "posting", "flushing", "answered", "cancelled"}]
  /\ metadata \in [Samples -> {"none", "infra"} \cup Rewards]
  /\ mismatch \subseteq Samples

ServerTypes ==
  /\ handler \in [Samples -> {"none", "wire", "lost", "done"} \cup AtServer]
  /\ verdict \in [Samples -> Rewards \cup Unusable]
  /\ reply \in [Samples -> {"none", "infra", "dropped"} \cup Rewards]
  /\ flushed \subseteq Samples /\ faulty \subseteq Samples

MilesTypes ==
  /\ reward \in [Samples -> {"none"} \cup Rewards]
  /\ flush \in [Flushers -> {"none", "wire", "served", "lost"}]
  /\ named \subseteq Instances
  /\ group \in [Groups -> {"generating", "rewarded", "trained", "refused"}]

LEMMA TypeParts ==
  TypeOK <=> /\ ClientTypes /\ ServerTypes /\ MilesTypes
             /\ RegistryType /\ CountsType /\ permits \in 0..MaxConcurrent
  BY DEF TypeOK, ClientTypes, ServerTypes, MilesTypes, RegistryType, CountsType

\* Only its own run changes what the client knows of a sample.
LEMMA ClientElsewhere ==
  ASSUME [Next]_vars, \A s \in Samples : ~ClientStep(s)
  PROVE  UNCHANGED <<instance, clientVars>>
<1>1. ASSUME NEW s \in Samples, ServerStep(s)
      PROVE  UNCHANGED <<instance, clientVars>>
  BY <1>1 DEF ServerStep, Arrive, Refuse, GetPermit, Unwound, TrialEnds
<1>2. ASSUME NEW f \in Flushers, FlushStep(f)
      PROVE  UNCHANGED <<instance, clientVars>>
  BY <1>2 DEF FlushStep, FlushLost, FlushArrives
<1>3. ASSUME NEW g \in Groups, RewardGroup(g) \/ FilterGroup(g)
      PROVE  UNCHANGED <<instance, clientVars>>
  BY <1>3 DEF RewardGroup, FilterGroup
<1>4. ASSUME AbortHook \/ UNCHANGED vars
      PROVE  UNCHANGED <<instance, clientVars>>
  BY <1>4 DEF AbortHook, vars
<1> QED
  BY <1>1, <1>2, <1>3, <1>4 DEF Next

\* Only the hooks for a group change what Miles knows of it.
LEMMA MilesElsewhere ==
  ASSUME [Next]_vars, \A g \in Groups : ~RewardGroup(g) /\ ~FilterGroup(g)
  PROVE  UNCHANGED milesVars
<1>1. ASSUME NEW s \in Samples, ClientStep(s) \/ ServerStep(s)
      PROVE  UNCHANGED milesVars
  BY <1>1 DEF ClientStep, ServerStep, Arrive, Refuse, GetPermit, Unwound,
              TrialEnds, BadRequest, Post, Receive, PostFails, CancelRun,
              CancelledRunEnds
<1>2. ASSUME NEW f \in Flushers, FlushStep(f)
      PROVE  UNCHANGED milesVars
  BY <1>2 DEF FlushStep, FlushLost, FlushArrives
<1>3. ASSUME AbortHook \/ UNCHANGED vars
      PROVE  UNCHANGED milesVars
  BY <1>3 DEF AbortHook, vars
<1> QED
  BY <1>1, <1>2, <1>3 DEF Next
-----------------------------------------------------------------------------
\* A sample that starts to listen, stops, or goes on.
LEMMA ListenersStep ==
  ASSUME TypeOK, NEW s \in Samples, instance' = instance,
         NEW how, client' = [client EXCEPT ![s] = how]
  PROVE  /\ \A i \in Instances : i # instance[s] => Listeners(i)' = Listeners(i)
         /\ how \in Listening => Listeners(instance[s])' = Listeners(instance[s]) \cup {s}
         /\ how \notin Listening => Listeners(instance[s])' = Listeners(instance[s]) \ {s}
<1>1. \A t \in Samples : client'[t] = IF t = s THEN how ELSE client[t]
  BY TypeParts DEF ClientTypes
<1> QED
  BY <1>1 DEF Listeners

\* The finally block of run takes back what its beginning added.
LEMMA LeaveCounts ==
  ASSUME TypeOK, CountsExact, NEW s \in Samples, instance' = instance,
         client[s] \in Listening, NEW how, how \notin Listening, Leave(s, how)
  PROVE  CountsType' /\ CountsExact'
<1> DEFINE i == instance[s]
<1>1. i \in Instances /\ CountsType /\ s \in Listeners(i)
  BY TypeParts DEF ClientTypes, Listeners
<1>2. Listeners(i) \in SUBSET Samples
  BY DEF Listeners
<1>3. /\ Count(i) - 1 \in Nat
      /\ Cardinality(Listeners(i) \ {s}) = Count(i) - 1
  BY <1>1, <1>2, OneLess DEF CountsExact
<1>4. /\ CountsType' /\ Count(i)' = Count(i) - 1
      /\ \A j \in Instances : j # i => Count(j)' = Count(j)
  BY <1>1, <1>3, CountsUpdate DEF Leave
<1>5. /\ \A j \in Instances : j # i => Listeners(j)' = Listeners(j)
      /\ Listeners(i)' = Listeners(i) \ {s}
  BY ListenersStep DEF Leave
<1> QED
  BY <1>3, <1>4, <1>5 DEF CountsExact

\* The reference counts are exact after every step.
LEMMA CountsStep ==
  ASSUME TypeOK, CountsExact, [Next]_vars
  PROVE  CountsType' /\ CountsExact'
<1>1. CASE UNCHANGED <<instance, clientVars>>
  <2>1. CountsType /\ UNCHANGED <<instance, client, counts>>
    BY <1>1, TypeParts DEF clientVars
  <2> QED
    BY <2>1 DEF CountsType, CountsExact, Count, Listeners
<1>2. ASSUME NEW s \in Samples, BadRequest(s)
      PROVE  CountsType' /\ CountsExact'
  <2>1. /\ CountsType /\ client[s] = "new" /\ counts' = counts
        /\ instance' = instance /\ client' = [client EXCEPT ![s] = "answered"]
    BY <1>2, TypeParts DEF BadRequest
  <2>2. \A i \in Instances : Listeners(i)' = Listeners(i)
    BY <2>1, TypeParts DEF Listeners, Listening, ClientTypes
  <2> QED
    BY <2>1, <2>2 DEF CountsType, CountsExact, Count
<1>3. ASSUME NEW s \in Samples, Post(s)
      PROVE  CountsType' /\ CountsExact'
  <2> DEFINE i == instance[s]
  <2>1. /\ client[s] = "new" /\ instance' = instance
        /\ client' = [client EXCEPT ![s] = "posting"]
        /\ counts' = CountsWith(i, Count(i) + 1)
    BY <1>3 DEF Post
  <2>2. /\ i \in Instances /\ CountsType
        /\ Listeners(i) \in SUBSET Samples /\ s \notin Listeners(i)
    BY <2>1, TypeParts DEF ClientTypes, Listeners, Listening
  <2>3. Count(i) \in Nat /\ Cardinality(Listeners(i) \cup {s}) = Count(i) + 1
    BY <2>2, OneMore, SamplesFinite, FS_CardinalityType DEF CountsExact
  <2>4. /\ CountsType' /\ Count(i)' = Count(i) + 1
        /\ \A j \in Instances : j # i => Count(j)' = Count(j)
    BY <2>1, <2>2, <2>3, CountsUpdate
  <2>5. /\ \A j \in Instances : j # i => Listeners(j)' = Listeners(j)
        /\ Listeners(i)' = Listeners(i) \cup {s}
    BY <2>1, ListenersStep DEF Listening
  <2>6. ASSUME NEW j \in Instances PROVE Count(j)' = Cardinality(Listeners(j)')
    <3>1. CASE j = i
      <4>1. Count(j)' = Count(j) + 1 /\ Listeners(j)' = Listeners(j) \cup {s}
        BY <2>1, <2>4, <2>5, <3>1
      <4> QED
        BY <2>3, <3>1, <4>1
    <3>2. CASE j # i
      BY <2>4, <2>5, <3>2 DEF CountsExact
    <3> QED
      BY <3>1, <3>2
  <2> QED
    BY <2>4, <2>6 DEF CountsExact
<1>4. ASSUME NEW s \in Samples, CancelRun(s)
      PROVE  CountsType' /\ CountsExact'
  <2>1. /\ CountsType /\ client[s] = "posting" /\ counts' = counts
        /\ instance' = instance /\ client' = [client EXCEPT ![s] = "flushing"]
    BY <1>4, TypeParts DEF CancelRun
  <2>2. \A i \in Instances : Listeners(i)' = Listeners(i)
    BY <2>1, TypeParts DEF Listeners, Listening, ClientTypes
  <2> QED
    BY <2>1, <2>2 DEF CountsType, CountsExact, Count
<1>5. ASSUME NEW s \in Samples, Receive(s) \/ PostFails(s) \/ CancelledRunEnds(s)
      PROVE  CountsType' /\ CountsExact'
  <2>1. /\ client[s] \in Listening /\ instance' = instance
        /\ Leave(s, "answered") \/ Leave(s, "cancelled")
    BY <1>5 DEF Receive, PostFails, CancelledRunEnds, Listening
  <2> QED
    BY <2>1, LeaveCounts DEF Listening
<1> QED
  BY <1>1, <1>2, <1>3, <1>4, <1>5, ClientElsewhere DEF ClientStep
-----------------------------------------------------------------------------
\* The three registers of the server for a handler that goes to another place.
LEMMA HandlerStep ==
  ASSUME TypeOK, NEW s \in Samples, instance' = instance,
         NEW where, handler' = [handler EXCEPT ![s] = where]
  PROVE  /\ \A i \in Instances : i # instance[s] => AtServerOf(i)' = AtServerOf(i)
         /\ AtServerOf(instance[s])' = IF where \in AtServer
                                       THEN AtServerOf(instance[s]) \cup {s}
                                       ELSE AtServerOf(instance[s]) \ {s}
         /\ InTrial' = IF where \in {"trial", "unwinding"} THEN InTrial \cup {s}
                                                         ELSE InTrial \ {s}
<1>1. \A t \in Samples : handler'[t] = IF t = s THEN where ELSE handler[t]
  BY TypeParts DEF ServerTypes
<1> QED
  BY <1>1 DEF AtServerOf, InTrial

ServerExact == RegistryType /\ TrialsExact /\ PermitsExact

\* A handler that is nowhere the registers look.
LEMMA UnseenStep ==
  ASSUME TypeOK, ServerExact, instance' = instance,
         UNCHANGED <<registry, permits>>,
         \A s \in Samples :
           handler'[s] \in AtServer \/ handler[s] \in AtServer => handler'[s] = handler[s]
  PROVE  ServerExact'
<1>1. \A i \in Instances : AtServerOf(i)' = AtServerOf(i)
  BY DEF AtServerOf
<1>2. InTrial' = InTrial
  BY DEF InTrial, AtServer
<1> QED
  BY <1>1, <1>2 DEF ServerExact, RegistryType, TrialsExact, PermitsExact, Trials

\* A trial that ends, by itself or because it was cancelled.
LEMMA EndStep ==
  ASSUME TypeOK, ServerExact, NEW s \in Samples, instance' = instance,
         handler[s] \in {"trial", "unwinding"},
         handler' = [handler EXCEPT ![s] = "done"],
         permits' = permits + 1, Unregister(s)
  PROVE  ServerExact'
<1> DEFINE i == instance[s]
<1>1. i \in Instances /\ RegistryType /\ s \in InTrial /\ InTrial \in SUBSET Samples
  BY TypeParts DEF ClientTypes, InTrial
<1>2. /\ AtServerOf(i) \ {s} \in SUBSET Samples
      /\ Trials(i) = AtServerOf(i)
  BY <1>1 DEF ServerExact, TrialsExact, AtServerOf
<1>3. /\ RegistryType' /\ Trials(i)' = AtServerOf(i) \ {s}
      /\ \A j \in Instances : j # i => Trials(j)' = Trials(j)
  BY <1>1, <1>2, RegistryUpdate DEF Unregister
<1>4. /\ AtServerOf(i)' = AtServerOf(i) \ {s}
      /\ \A j \in Instances : j # i => AtServerOf(j)' = AtServerOf(j)
      /\ InTrial' = InTrial \ {s}
  BY HandlerStep DEF AtServer
<1>5. TrialsExact'
  BY <1>3, <1>4 DEF ServerExact, TrialsExact
<1>6. /\ Cardinality(InTrial \ {s}) = Cardinality(InTrial) - 1
      /\ Cardinality(InTrial) \in Nat \ {0}
  BY <1>1, OneLess
<1>7. MaxConcurrent \in Nat
  BY HarborAssumption DEF HarborAssumption
<1>8. PermitsExact'
  BY <1>4, <1>6, <1>7 DEF ServerExact, PermitsExact
<1> QED
  BY <1>3, <1>5, <1>8 DEF ServerExact

\* A flush moves what it names among the places the registers look at, or
\* takes it out of them.
LEMMA FlushExact ==
  ASSUME TypeOK, ServerExact, NEW f \in Flushers, FlushArrives(f)
  PROVE  ServerExact'
<1> DEFINE instances == IF f = Abort THEN named ELSE {instance[f]}
           targets == UNION {Trials(i) : i \in instances}
           gone == {s \in targets : handler[s] = "waiting"}
<1>1. PICK I \in SUBSET Instances : registry \in [I -> (SUBSET Samples) \ {{}}]
  BY DEF ServerExact, RegistryType
<1>2. /\ \A s \in Samples :
           handler'[s] = IF s \in gone THEN "done"
                         ELSE IF s \in targets THEN "unwinding" ELSE handler[s]
      /\ registry' = [i \in {j \in I : registry[j] \ gone # {}} |-> registry[i] \ gone]
      /\ UNCHANGED <<instance, permits>>
  BY <1>1 DEF FlushArrives
<1>3. instances \subseteq Instances
  BY TypeParts DEF Flushers, ClientTypes, MilesTypes
<1>4. \A s \in targets : s \in Samples /\ handler[s] \in AtServer
  BY <1>3 DEF ServerExact, TrialsExact, AtServerOf
<1>5. RegistryType'
  <2> DEFINE J == {j \in I : registry[j] \ gone # {}}
  <2>1. J \in SUBSET Instances /\ registry' \in [J -> (SUBSET Samples) \ {{}}]
    BY <1>1, <1>2
  <2> QED
    BY <2>1 DEF RegistryType
<1>6. TrialsExact'
  <2>1. ASSUME NEW i \in Instances PROVE Trials(i)' = AtServerOf(i)'
    <3>1. Trials(i)' = Trials(i) \ gone
      BY <1>1, <1>2 DEF Trials
    <3>2. AtServerOf(i)' = AtServerOf(i) \ gone
      BY <1>2, <1>4 DEF AtServerOf, AtServer
    <3> QED
      BY <3>1, <3>2 DEF ServerExact, TrialsExact
  <2> QED
    BY <2>1 DEF TrialsExact
<1>7. InTrial' = InTrial
  BY <1>2, <1>4 DEF InTrial, AtServer
<1> QED
  BY <1>2, <1>5, <1>6, <1>7 DEF ServerExact, PermitsExact

\* The registry and the permits are exact after every step.
LEMMA ServerRegistersStep ==
  ASSUME TypeOK, ServerExact, AnswersTrue, [Next]_vars
  PROVE  ServerExact'
<1>1. MaxConcurrent \in Nat
  BY HarborAssumption DEF HarborAssumption
<1>2. ASSUME UNCHANGED <<instance, handler, registry, permits>>
      PROVE  ServerExact'
  BY <1>2, UnseenStep
<1>3. ASSUME NEW s \in Samples, ClientStep(s)
      PROVE  ServerExact'
  <2>1. CASE Post(s)
    <3>1. handler[s] \notin AtServer
      BY <2>1 DEF Post, AnswersTrue, AtServer
    <3> QED
      BY <2>1, <3>1, UnseenStep, TypeParts DEF Post, ServerTypes, AtServer
  <2>2. CASE PostFails(s) \/ CancelRun(s)
    <3>1. handler' \in {handler, RequestLost(s)} /\ UNCHANGED <<instance, registry, permits>>
      BY <2>2 DEF PostFails, CancelRun
    <3> QED
      BY <3>1, UnseenStep, TypeParts DEF RequestLost, ServerTypes, AtServer
  <2>3. CASE BadRequest(s) \/ Receive(s) \/ CancelledRunEnds(s)
    BY <1>2, <2>3 DEF BadRequest, Receive, CancelledRunEnds, serverVars
  <2> QED
    BY <1>3, <2>1, <2>2, <2>3 DEF ClientStep
<1>4. ASSUME NEW s \in Samples, Arrive(s)
      PROVE  ServerExact'
  <2> DEFINE i == instance[s]
             mayRun == permits > 0 /\ \A t \in Samples : handler[t] # "waiting"
             where == IF mayRun THEN "trial" ELSE "waiting"
  <2>1. /\ handler[s] = "wire" /\ instance' = instance
        /\ handler' = [handler EXCEPT ![s] = where]
        /\ registry' = RegistryWith(i, Trials(i) \cup {s})
        /\ permits' = permits - (IF mayRun THEN 1 ELSE 0)
    BY <1>4 DEF Arrive
  <2>2. /\ i \in Instances /\ RegistryType /\ Trials(i) = AtServerOf(i)
        /\ AtServerOf(i) \cup {s} \in SUBSET Samples
        /\ s \notin InTrial /\ InTrial \in SUBSET Samples
    BY <2>1, TypeParts DEF ClientTypes, ServerExact, TrialsExact, AtServerOf,
       InTrial
  <2>3. /\ RegistryType' /\ Trials(i)' = AtServerOf(i) \cup {s}
        /\ \A j \in Instances : j # i => Trials(j)' = Trials(j)
    BY <2>1, <2>2, RegistryUpdate
  <2>4. /\ AtServerOf(i)' = AtServerOf(i) \cup {s}
        /\ \A j \in Instances : j # i => AtServerOf(j)' = AtServerOf(j)
        /\ InTrial' = IF mayRun THEN InTrial \cup {s} ELSE InTrial \ {s}
    BY <2>1, HandlerStep DEF AtServer
  <2>5. TrialsExact'
    <3>1. ASSUME NEW j \in Instances PROVE Trials(j)' = AtServerOf(j)'
      <4>1. CASE j = i
        BY <2>1, <2>3, <2>4, <4>1
      <4>2. CASE j # i
        BY <2>3, <2>4, <4>2 DEF ServerExact, TrialsExact
      <4> QED
        BY <4>1, <4>2
    <3> QED
      BY <3>1 DEF TrialsExact
  <2>6. /\ Cardinality(InTrial \cup {s}) = Cardinality(InTrial) + 1
        /\ Cardinality(InTrial) \in Nat /\ InTrial \ {s} = InTrial
    BY <2>2, OneMore, SamplesFinite, FS_CardinalityType
  <2>7. PermitsExact'
    <3>1. CASE mayRun
      BY <1>1, <2>1, <2>4, <2>6, <3>1 DEF ServerExact, PermitsExact
    <3>2. CASE ~mayRun
      <4>1. permits' = permits /\ InTrial' = InTrial
        BY <2>1, <2>4, <2>6, <3>2 DEF ServerExact, PermitsExact
      <4> QED
        BY <4>1 DEF ServerExact, PermitsExact
    <3> QED
      BY <3>1, <3>2
  <2> QED
    BY <2>3, <2>5, <2>7 DEF ServerExact
<1>5. ASSUME NEW s \in Samples, Refuse(s)
      PROVE  ServerExact'
  BY <1>5, UnseenStep, TypeParts DEF Refuse, ServerTypes, AtServer
<1>6. ASSUME NEW s \in Samples, GetPermit(s)
      PROVE  ServerExact'
  <2>1. /\ handler[s] = "waiting" /\ UNCHANGED <<instance, registry>>
        /\ handler' = [handler EXCEPT ![s] = "trial"]
        /\ permits > 0 /\ permits' = permits - 1
    BY <1>6 DEF GetPermit
  <2>2. s \notin InTrial /\ InTrial \in SUBSET Samples
    BY <2>1 DEF InTrial
  <2>3. /\ \A j \in Instances : AtServerOf(j)' = AtServerOf(j)
        /\ InTrial' = InTrial \cup {s}
    BY <2>1, TypeParts DEF ServerTypes, AtServerOf, AtServer, InTrial
  <2>4. /\ Cardinality(InTrial \cup {s}) = Cardinality(InTrial) + 1
        /\ Cardinality(InTrial) \in Nat
    BY <2>2, OneMore, SamplesFinite, FS_CardinalityType
  <2>5. PermitsExact'
    BY <1>1, <2>1, <2>3, <2>4 DEF ServerExact, PermitsExact
  <2> QED
    BY <2>1, <2>3, <2>5 DEF ServerExact, RegistryType, TrialsExact, Trials
<1>7. ASSUME NEW s \in Samples, NEW outcome \in Outcomes, TrialEnds(s, outcome)
      PROVE  ServerExact'
  BY <1>7, EndStep DEF TrialEnds, clientVars
<1>8. ASSUME NEW s \in Samples, Unwound(s)
      PROVE  ServerExact'
  BY <1>8, EndStep DEF Unwound
<1>9. ASSUME NEW f \in Flushers, FlushStep(f)
      PROVE  ServerExact'
  BY <1>2, <1>9, FlushExact DEF FlushStep, FlushLost, serverVars
<1>10. ASSUME NEW g \in Groups, RewardGroup(g) \/ FilterGroup(g)
      PROVE  ServerExact'
  BY <1>2, <1>10 DEF RewardGroup, FilterGroup, serverVars
<1>11. ASSUME AbortHook \/ UNCHANGED vars
       PROVE  ServerExact'
  BY <1>2, <1>11 DEF AbortHook, vars, serverVars
<1> QED
  BY <1>3, <1>4, <1>5, <1>6, <1>7, <1>8, <1>9, <1>10, <1>11 DEF Next, ServerStep
-----------------------------------------------------------------------------
(***************************************************************************)
(* Types.                                                                  *)
(***************************************************************************)
LEMMA ClientTypesStep ==
  ASSUME TypeOK, [Next]_vars
  PROVE  ClientTypes'
<1> USE TypeParts DEF ClientTypes, ServerTypes
<1>1. CASE UNCHANGED <<instance, clientVars>>
  BY <1>1 DEF clientVars
<1>2. ASSUME NEW s \in Samples, ClientStep(s) PROVE ClientTypes'
  <2>1. CASE BadRequest(s)
    BY <2>1 DEF BadRequest
  <2>2. CASE Post(s)
    BY <2>2 DEF Post
  <2>3. CASE Receive(s)
    BY <2>3 DEF Receive, Leave
  <2>4. CASE PostFails(s)
    BY <2>4 DEF PostFails, Leave
  <2>5. CASE CancelRun(s)
    BY <2>5 DEF CancelRun
  <2>6. CASE CancelledRunEnds(s)
    BY <2>6 DEF CancelledRunEnds, Leave
  <2> QED
    BY <1>2, <2>1, <2>2, <2>3, <2>4, <2>5, <2>6 DEF ClientStep
<1> QED
  BY <1>1, <1>2, ClientElsewhere

LEMMA ServerTypesStep ==
  ASSUME TypeOK, TrialsExact, [Next]_vars
  PROVE  ServerTypes'
<1> USE TypeParts DEF ServerTypes, AtServer
<1>1. ASSUME UNCHANGED <<serverVars, faulty>> PROVE ServerTypes'
  BY <1>1 DEF serverVars
<1>2. ASSUME NEW s \in Samples, ClientStep(s) PROVE ServerTypes'
  <2>1. CASE BadRequest(s)
    BY <2>1 DEF BadRequest, serverVars
  <2>2. CASE Post(s)
    BY <2>2 DEF Post
  <2>3. CASE PostFails(s)
    BY <2>3 DEF PostFails, RequestLost
  <2>4. CASE CancelRun(s)
    BY <2>4 DEF CancelRun, RequestLost
  <2>5. CASE Receive(s) \/ CancelledRunEnds(s)
    BY <1>1, <2>5 DEF Receive, CancelledRunEnds
  <2> QED
    BY <1>2, <2>1, <2>2, <2>3, <2>4, <2>5 DEF ClientStep
<1>3. ASSUME NEW s \in Samples, ServerStep(s) PROVE ServerTypes'
  <2>1. CASE Arrive(s)
    BY <2>1 DEF Arrive
  <2>2. CASE Refuse(s)
    BY <2>2 DEF Refuse
  <2>3. CASE GetPermit(s)
    BY <2>3 DEF GetPermit
  <2>4. CASE Unwound(s)
    BY <2>4 DEF Unwound
  <2>5. ASSUME NEW outcome \in Outcomes, TrialEnds(s, outcome)
        PROVE  ServerTypes'
    <3>1. /\ outcome.said \in Rewards \cup Unusable
          /\ Payload(outcome) \in {"infra"} \cup Rewards
      BY HarborAssumption DEF HarborAssumption, Payload
    <3> QED
      BY <2>5, <3>1 DEF TrialEnds
  <2> QED
    BY <1>3, <2>1, <2>2, <2>3, <2>4, <2>5 DEF ServerStep
<1>4. ASSUME NEW f \in Flushers, FlushStep(f) PROVE ServerTypes'
  <2>1. CASE FlushLost(f)
    BY <1>1, <2>1 DEF FlushLost
  <2>2. CASE FlushArrives(f)
    <3> DEFINE instances == IF f = Abort THEN named ELSE {instance[f]}
               targets == UNION {Trials(i) : i \in instances}
    <3>1. instances \subseteq Instances
      BY DEF Flushers, ClientTypes, MilesTypes
    <3>2. targets \subseteq Samples
      BY <3>1 DEF TrialsExact, AtServerOf
    <3>3. flushed' = flushed \cup targets
      BY <2>2 DEF FlushArrives
    <3>4. UNCHANGED <<verdict, faulty>>
      BY <2>2 DEF FlushArrives
    <3>5. handler' \in [Samples -> {"none", "wire", "lost", "done"} \cup AtServer]
      BY <2>2 DEF FlushArrives
    <3>6. reply' \in [Samples -> {"none", "infra", "dropped"} \cup Rewards]
      BY <2>2 DEF FlushArrives
    <3> QED
      BY <3>2, <3>3, <3>4, <3>5, <3>6
  <2> QED
    BY <1>4, <2>1, <2>2 DEF FlushStep
<1>5. ASSUME NEW g \in Groups, RewardGroup(g) \/ FilterGroup(g) PROVE ServerTypes'
  BY <1>1, <1>5 DEF RewardGroup, FilterGroup
<1>6. ASSUME AbortHook \/ UNCHANGED vars PROVE ServerTypes'
  BY <1>1, <1>6 DEF AbortHook, vars
<1> QED
  BY <1>2, <1>3, <1>4, <1>5, <1>6 DEF Next

LEMMA MilesTypesStep ==
  ASSUME TypeOK, [Next]_vars
  PROVE  MilesTypes'
<1> USE TypeParts DEF MilesTypes, Flushers
<1>1. ASSUME UNCHANGED <<milesVars, flushVars>> PROVE MilesTypes'
  BY <1>1 DEF milesVars, flushVars
<1>2. ASSUME NEW s \in Samples, ClientStep(s) PROVE MilesTypes'
  <2>1. CASE CancelRun(s)
    BY <2>1 DEF CancelRun, milesVars
  <2>2. CASE ~CancelRun(s)
    BY <1>1, <1>2, <2>2 DEF ClientStep, BadRequest, Post, Receive, PostFails,
                            CancelledRunEnds
  <2> QED
    BY <2>1, <2>2
<1>3. ASSUME NEW s \in Samples, ServerStep(s) PROVE MilesTypes'
  BY <1>1, <1>3 DEF ServerStep, Arrive, Refuse, GetPermit, Unwound, TrialEnds
<1>4. ASSUME NEW f \in Flushers, FlushStep(f) PROVE MilesTypes'
  BY <1>4 DEF FlushStep, FlushLost, FlushArrives, milesVars
<1>5. ASSUME NEW g \in Groups, RewardGroup(g) PROVE MilesTypes'
  <2>1. /\ \A s \in Samples : reward'[s] \in {"none"} \cup Rewards
        /\ reward' \in [Samples -> {"none"} \cup Rewards]
    BY <1>5 DEF RewardGroup, Rewards
  <2> QED
    BY <1>5, <2>1 DEF RewardGroup, flushVars
<1>6. ASSUME NEW g \in Groups, FilterGroup(g) PROVE MilesTypes'
  BY <1>6 DEF FilterGroup, flushVars
<1>7. CASE AbortHook
  <2>1. DOMAIN counts \subseteq Instances /\ Configured \subseteq Instances
    BY HarborAssumption DEF HarborAssumption, CountsType
  <2> QED
    BY <1>7, <2>1 DEF AbortHook, milesVars
<1>8. CASE UNCHANGED vars
  BY <1>1, <1>8 DEF vars
<1> QED
  BY <1>2, <1>3, <1>4, <1>5, <1>6, <1>7, <1>8 DEF Next
-----------------------------------------------------------------------------
(***************************************************************************)
(* From the verdict to the reply, and to the client.                       *)
(***************************************************************************)
ServerInv == FlushStopsTrials /\ RepliesVerified

\* The server's part of a sample that has no handler left, or whose flush or
\* fault it is, is not written again.
LEMMA RepliesStep ==
  ASSUME TypeOK, TrialsExact, AnswersTrue, ServerInv, [Next]_vars
  PROVE  ServerInv'
<1> USE TypeParts DEF ServerTypes, ServerInv, FlushStopsTrials, RepliesVerified
<1>1. ASSUME UNCHANGED <<handler, verdict, reply, flushed>> PROVE ServerInv'
  BY <1>1
<1>2. ASSUME NEW s \in Samples, ClientStep(s) PROVE ServerInv'
  <2>1. CASE Post(s)
    BY <2>1 DEF Post, AnswersTrue
  <2>2. CASE PostFails(s) \/ CancelRun(s)
    BY <2>2 DEF PostFails, CancelRun, RequestLost
  <2>3. CASE BadRequest(s) \/ Receive(s) \/ CancelledRunEnds(s)
    BY <1>1, <2>3 DEF BadRequest, Receive, CancelledRunEnds, serverVars
  <2> QED
    BY <1>2, <2>1, <2>2, <2>3 DEF ClientStep
<1>3. ASSUME NEW s \in Samples, ServerStep(s) PROVE ServerInv'
  <2>1. CASE Arrive(s)
    BY <2>1 DEF Arrive
  <2>2. CASE Refuse(s)
    BY <2>2 DEF Refuse, Rewards
  <2>3. CASE GetPermit(s)
    BY <2>3 DEF GetPermit
  <2>4. CASE Unwound(s)
    BY <2>4 DEF Unwound, Rewards
  <2>5. ASSUME NEW outcome \in Outcomes, TrialEnds(s, outcome)
        PROVE  ServerInv'
    <3>1. Payload(outcome) \in Rewards => outcome.said = Payload(outcome)
      BY DEF Payload, Rewards
    <3> QED
      BY <2>5, <3>1 DEF TrialEnds
  <2> QED
    BY <1>3, <2>1, <2>2, <2>3, <2>4, <2>5 DEF ServerStep
<1>4. ASSUME NEW f \in Flushers, FlushStep(f) PROVE ServerInv'
  <2>1. CASE FlushLost(f)
    BY <1>1, <2>1 DEF FlushLost, serverVars
  <2>2. CASE FlushArrives(f)
    <3> DEFINE instances == IF f = Abort THEN named ELSE {instance[f]}
               targets == UNION {Trials(i) : i \in instances}
               gone == {s \in targets : handler[s] = "waiting"}
    <3>1. instances \subseteq Instances
      BY DEF Flushers, ClientTypes, MilesTypes
    <3>2. \A s \in targets : s \in Samples /\ handler[s] \in AtServer
      BY <3>1 DEF TrialsExact, AtServerOf
    <3>3. /\ flushed' = flushed \cup targets /\ verdict' = verdict
          /\ \A s \in Samples :
               /\ handler'[s] = IF s \in gone THEN "done"
                                ELSE IF s \in targets THEN "unwinding"
                                ELSE handler[s]
               /\ reply'[s] = IF s \in gone THEN "dropped" ELSE reply[s]
      BY <2>2 DEF FlushArrives
    <3>4. FlushStopsTrials'
      BY <3>2, <3>3 DEF AtServer, Rewards
    <3>5. RepliesVerified'
      BY <3>2, <3>3 DEF AtServer, Rewards
    <3> QED
      BY <3>4, <3>5
  <2> QED
    BY <1>4, <2>1, <2>2 DEF FlushStep
<1>5. ASSUME NEW g \in Groups, RewardGroup(g) \/ FilterGroup(g) PROVE ServerInv'
  BY <1>1, <1>5 DEF RewardGroup, FilterGroup, serverVars
<1>6. ASSUME AbortHook \/ UNCHANGED vars PROVE ServerInv'
  BY <1>1, <1>6 DEF AbortHook, vars, serverVars
<1> QED
  BY <1>2, <1>3, <1>4, <1>5, <1>6 DEF Next

\* What the client knows of a sample is a copy of the reply, and a fault is
\* never followed by a reward.
LEMMA AnswersStep ==
  ASSUME TypeOK, TrialsExact, AnswersTrue, ServerInv, [Next]_vars
  PROVE  AnswersTrue'
<1> USE TypeParts DEF ClientTypes, ServerTypes, AnswersTrue, Rewards
<1>1. ASSUME UNCHANGED <<client, handler, metadata, reply, faulty>>
      PROVE  AnswersTrue'
  BY <1>1
<1>2. ASSUME NEW s \in Samples, ClientStep(s) PROVE AnswersTrue'
  <2>1. CASE BadRequest(s)
    BY <2>1 DEF BadRequest, serverVars
  <2>2. CASE Post(s)
    BY <2>2 DEF Post
  <2>3. CASE Receive(s)
    BY <2>3 DEF Receive, Leave, serverVars
  <2>4. CASE PostFails(s)
    BY <2>4 DEF PostFails, Leave, RequestLost
  <2>5. CASE CancelRun(s)
    BY <2>5 DEF CancelRun, RequestLost
  <2>6. CASE CancelledRunEnds(s)
    BY <2>6 DEF CancelledRunEnds, Leave, serverVars
  <2> QED
    BY <1>2, <2>1, <2>2, <2>3, <2>4, <2>5, <2>6 DEF ClientStep
<1>3. ASSUME NEW s \in Samples, ServerStep(s) PROVE AnswersTrue'
  <2> USE DEF ServerInv, RepliesVerified
  <2>1. CASE Arrive(s)
    BY <2>1 DEF Arrive, clientVars
  <2>2. CASE Refuse(s)
    BY <2>2 DEF Refuse, clientVars
  <2>3. CASE GetPermit(s)
    BY <2>3 DEF GetPermit, clientVars
  <2>4. CASE Unwound(s)
    BY <2>4 DEF Unwound, clientVars
  <2>5. ASSUME NEW outcome \in Outcomes, TrialEnds(s, outcome)
        PROVE  AnswersTrue'
    <3>1. outcome.broken \/ outcome.said \in Unusable => Payload(outcome) = "infra"
      BY DEF Payload, Unusable
    <3>2. /\ handler[s] = "trial" /\ handler' = [handler EXCEPT ![s] = "done"]
          /\ reply' = [reply EXCEPT ![s] = Payload(outcome)]
          /\ faulty' = IF outcome.broken \/ outcome.said \in Unusable
                       THEN faulty \cup {s} ELSE faulty
          /\ UNCHANGED <<client, metadata>>
      BY <2>5 DEF TrialEnds, clientVars
    <3> QED
      BY <3>1, <3>2
  <2> QED
    BY <1>3, <2>1, <2>2, <2>3, <2>4, <2>5 DEF ServerStep
<1>4. ASSUME NEW f \in Flushers, FlushStep(f) PROVE AnswersTrue'
  <2>1. CASE FlushLost(f)
    BY <1>1, <2>1 DEF FlushLost, serverVars, clientVars
  <2>2. CASE FlushArrives(f)
    <3> DEFINE instances == IF f = Abort THEN named ELSE {instance[f]}
               targets == UNION {Trials(i) : i \in instances}
               gone == {s \in targets : handler[s] = "waiting"}
    <3>1. instances \subseteq Instances
      BY DEF Flushers, ClientTypes, MilesTypes
    <3>2. \A s \in targets : s \in Samples /\ handler[s] \in AtServer
      BY <3>1 DEF TrialsExact, AtServerOf
    <3>3. /\ UNCHANGED <<client, metadata, faulty>>
          /\ \A s \in Samples :
               /\ handler'[s] = IF s \in gone THEN "done"
                                ELSE IF s \in targets THEN "unwinding"
                                ELSE handler[s]
               /\ reply'[s] = IF s \in gone THEN "dropped" ELSE reply[s]
      BY <2>2 DEF FlushArrives, clientVars
    <3> QED
      BY <3>2, <3>3 DEF AtServer, ServerInv, RepliesVerified
  <2> QED
    BY <1>4, <2>1, <2>2 DEF FlushStep
<1>5. ASSUME NEW g \in Groups, RewardGroup(g) \/ FilterGroup(g) PROVE AnswersTrue'
  BY <1>1, <1>5 DEF RewardGroup, FilterGroup, serverVars, clientVars
<1>6. ASSUME AbortHook \/ UNCHANGED vars PROVE AnswersTrue'
  BY <1>1, <1>6 DEF AbortHook, vars, serverVars, clientVars
<1> QED
  BY <1>2, <1>3, <1>4, <1>5, <1>6 DEF Next

\* A group is rewarded when all its runs have returned: nothing writes to its
\* samples afterwards, another group's reward neither.
LEMMA GroupsStep ==
  ASSUME TypeOK, GroupsSettled, [Next]_vars
  PROVE  GroupsSettled'
<1> USE TypeParts DEF ClientTypes, MilesTypes, GroupsSettled, Acceptable
<1>1. /\ \A g \in Groups : g \subseteq Samples
      /\ \A g, h \in Groups : g # h => g \cap h = {}
  BY HarborAssumption DEF HarborAssumption
<1>2. ASSUME UNCHANGED <<client, metadata, mismatch, reward, group>>
      PROVE  GroupsSettled'
  BY <1>2
<1>3. ASSUME NEW s \in Samples, ClientStep(s) PROVE GroupsSettled'
  <2>1. client[s] # "answered"
    BY <1>3 DEF ClientStep, BadRequest, Post, Receive, PostFails, CancelRun,
                CancelledRunEnds
  <2>2. /\ UNCHANGED milesVars
        /\ \A t \in Samples \ {s} :
             /\ client'[t] = client[t] /\ metadata'[t] = metadata[t]
             /\ t \in mismatch' => t \in mismatch
    BY <1>3 DEF ClientStep, BadRequest, Post, Receive, PostFails, CancelRun,
                CancelledRunEnds, Leave
  <2>3. \A g \in Groups : group[g] \in {"rewarded", "trained"} => s \notin g
    BY <2>1
  <2> QED
    BY <1>1, <2>2, <2>3 DEF milesVars
<1>4. ASSUME NEW g \in Groups, RewardGroup(g) PROVE GroupsSettled'
  <2>1. /\ group[g] = "generating" /\ group' = [group EXCEPT ![g] = "rewarded"]
        /\ \A s \in g : client[s] = "answered"
        /\ \A s \in Samples : reward'[s] =
             IF s \notin g THEN reward[s]
             ELSE IF metadata[s] \in Rewards THEN metadata[s] ELSE "zero"
        /\ UNCHANGED <<client, metadata, mismatch>>
    BY <1>4 DEF RewardGroup, clientVars
  <2> QED
    BY <1>1, <2>1
<1>5. ASSUME NEW g \in Groups, FilterGroup(g) PROVE GroupsSettled'
  BY <1>5 DEF FilterGroup, clientVars
<1>6. ASSUME NEW s \in Samples, ServerStep(s) PROVE GroupsSettled'
  BY <1>2, <1>6 DEF ServerStep, Arrive, Refuse, GetPermit, Unwound, TrialEnds,
                    clientVars, milesVars
<1>7. ASSUME NEW f \in Flushers, FlushStep(f) PROVE GroupsSettled'
  BY <1>2, <1>7 DEF FlushStep, FlushLost, FlushArrives, clientVars, milesVars
<1>8. ASSUME AbortHook \/ UNCHANGED vars PROVE GroupsSettled'
  BY <1>2, <1>8 DEF AbortHook, vars, clientVars, milesVars
<1> QED
  BY <1>3, <1>4, <1>5, <1>6, <1>7, <1>8 DEF Next
-----------------------------------------------------------------------------
\* Together.
THEOREM ServiceInvariance == Spec => []ServiceInv
<1>1. Init => ServiceInv
  <2> SUFFICES ASSUME Init PROVE ServiceInv
    OBVIOUS
  <2> USE DEF Init
  <2>1. MaxConcurrent \in Nat
    BY HarborAssumption DEF HarborAssumption
  <2>2. RegistryType /\ CountsType
    <3>1. /\ registry \in [{} -> (SUBSET Samples) \ {{}}]
          /\ counts \in [{} -> Nat \ {0}] /\ {} \in SUBSET Instances
      OBVIOUS
    <3> QED
      BY <3>1 DEF RegistryType, CountsType
  <2>3. ClientTypes /\ ServerTypes /\ MilesTypes
    BY DEF ClientTypes, ServerTypes, MilesTypes, Rewards, Unusable, Flushers
  <2>4. TypeOK
    BY <2>1, <2>2, <2>3, TypeParts
  <2>5. /\ \A i \in Instances : Listeners(i) = {} /\ AtServerOf(i) = {}
        /\ InTrial = {}
    BY DEF Listeners, AtServerOf, InTrial, Listening, AtServer
  <2>6. TrialsExact /\ CountsExact /\ PermitsExact
    <3>1. Cardinality({}) = 0
      BY FS_EmptySet
    <3>2. TrialsExact
      BY <2>5 DEF TrialsExact, Trials
    <3>3. CountsExact
      BY <2>5, <3>1 DEF CountsExact, Count
    <3>4. PermitsExact
      BY <2>1, <2>5, <3>1 DEF PermitsExact
    <3> QED
      BY <3>2, <3>3, <3>4
  <2>7. RegistersExact
    BY <2>6, RegisterParts DEF PermitsExact
  <2>8. FlushStopsTrials /\ RepliesVerified /\ AnswersTrue /\ GroupsSettled
    BY HarborAssumption
       DEF FlushStopsTrials, RepliesVerified, AnswersTrue, GroupsSettled,
           HarborAssumption, Rewards
  <2> QED
    BY <2>4, <2>7, <2>8 DEF ServiceInv
<1>2. ServiceInv /\ [Next]_vars => ServiceInv'
  <2> SUFFICES ASSUME ServiceInv, [Next]_vars PROVE ServiceInv'
    OBVIOUS
  <2>1. /\ TypeOK /\ TrialsExact /\ CountsExact /\ PermitsExact /\ AnswersTrue
        /\ ServerInv /\ ServerExact /\ GroupsSettled
    BY RegisterParts, TypeParts DEF ServiceInv, ServerInv, ServerExact
  <2>2. ServerExact' /\ CountsType' /\ CountsExact'
    BY <2>1, ServerRegistersStep, CountsStep
  <2>3. TypeOK'
    <3>1. ClientTypes' /\ ServerTypes' /\ MilesTypes'
      BY <2>1, ClientTypesStep, ServerTypesStep, MilesTypesStep
    <3> QED
      BY <2>2, <3>1 DEF TypeOK, ClientTypes, ServerTypes, MilesTypes,
                        ServerExact, PermitsExact, RegistryType, CountsType
  <2>4. RegistersExact'
    <3>1. \A i \in Instances :
            /\ AtServerOf(i)' = {s \in {t \in Samples : instance'[t] = i} :
                                   handler'[s] \in AtServer}
            /\ Listeners(i)' = {s \in {t \in Samples : instance'[t] = i} :
                                  client'[s] \in Listening}
      BY DEF AtServerOf, Listeners
    <3> QED
      BY <2>2, <3>1 DEF RegistersExact, ServerExact, TrialsExact, CountsExact,
                        PermitsExact, InTrial
  <2>5. ServerInv' /\ AnswersTrue' /\ GroupsSettled'
    BY <2>1, RepliesStep, AnswersStep, GroupsStep
  <2> QED
    BY <2>3, <2>4, <2>5 DEF ServiceInv, ServerInv
<1> QED
  BY <1>1, <1>2, PTL DEF Spec

\* Every variable of Miles and the service keeps its type; with it the permits
\* stay between zero and the limit.
THEOREM ServiceTypes == Spec => []TypeOK
<1>1. ServiceInv => TypeOK
  BY DEF ServiceInv
<1> QED
  BY <1>1, ServiceInvariance, PTL

\* However runs and trials end, the registers say exactly who is there.
THEOREM RegistersKept == Spec => []RegistersExact
<1>1. ServiceInv => RegistersExact
  BY DEF ServiceInv
<1> QED
  BY <1>1, ServiceInvariance, PTL

\* A trial that a flush was told to stop brings no reward.
THEOREM FlushKept == Spec => []FlushStopsTrials
<1>1. ServiceInv => FlushStopsTrials
  BY DEF ServiceInv
<1> QED
  BY <1>1, ServiceInvariance, PTL

\* Only what a sample's own verifier said, in a trial nothing disturbed, is
\* trained on.
THEOREM OnlyVerifiedTrained == Spec => []TrainedIsVerified
<1>1. ServiceInv => TrainedIsVerified
  <2> SUFFICES ASSUME ServiceInv, NEW g \in Groups, group[g] = "trained",
                      NEW s \in g
               PROVE  /\ verdict[s] \in Rewards /\ reward[s] = verdict[s]
                      /\ s \notin flushed \cup faulty \cup mismatch
    BY DEF TrainedIsVerified
  <2>1. s \in Samples
    BY HarborAssumption DEF HarborAssumption
  <2>2. /\ client[s] = "answered" /\ metadata[s] # "infra" /\ s \notin mismatch
        /\ metadata[s] \in Rewards => reward[s] = metadata[s]
    BY DEF ServiceInv, GroupsSettled, Acceptable
  <2>3. metadata[s] \in Rewards
    BY <2>1, <2>2, TypeParts DEF ServiceInv, AnswersTrue, ClientTypes
  <2>4. reply[s] = metadata[s] /\ s \notin faulty
    BY <2>1, <2>3 DEF ServiceInv, AnswersTrue
  <2>5. verdict[s] = reply[s] /\ s \notin flushed
    BY <2>1, <2>3, <2>4 DEF ServiceInv, RepliesVerified, FlushStopsTrials
  <2> QED
    BY <2>2, <2>3, <2>4, <2>5
<1> QED
  BY <1>1, ServiceInvariance, PTL
=============================================================================
