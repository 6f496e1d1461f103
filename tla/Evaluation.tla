---------------------------- MODULE Evaluation ----------------------------
(***************************************************************************)
(* A fixed evaluation, rl/evaluate.py: evaluate_records starts one task    *)
(* for each planned trial, at most slots of them run an episode at once,   *)
(* each writes a row when its episode is over, and a summary is written    *)
(* only over a complete set of rows.  An early stop, an error or a         *)
(* cancellation from outside ends the other trials first.                  *)
(***************************************************************************)
EXTENDS Episode

VARIABLES
  stage,    \* of evaluate_records
  slots,    \* its semaphore
  rows,     \* the output file, and results
  error     \* has a task raised?

vars == <<episodeVars, stage, slots, rows, error>>

Ended == {"done", "gone"}
AllEnded == \A t \in DOMAIN setup.plan : ep[t].pc \in Ended

TypeOK ==
  /\ setup \in Setups
  /\ permits \in 0..setup.permits /\ slots \in 0..setup.slots
  /\ stage \in {"called", "running", "interrupted", "cleaning", "raised", "returned"}
  /\ error \in BOOLEAN
  /\ \A t \in Trials :
       LET e == ep[t]
       IN /\ e.pc \in {"queued", "permit"} \cup Holding \cup Ended
          /\ e.turn \in 0..setup.turns /\ e.nudges \in 0..setup.nudges
          /\ e.tries \in 1..(IF setup.attempts > 3 THEN setup.attempts ELSE 3)
          /\ e.file \in Files /\ e.probed \subseteq Files
          /\ e.box \in {"none", "live", "lost", "killed", "left", "abandoned"}
          /\ (e.box \in {"live", "lost"}) => e.pc \in Holding

Init ==
  /\ setup \in Setups
  /\ ep = [t \in Trials |-> Nobody]
  /\ permits = setup.permits
  /\ stage = "called" /\ slots = setup.slots /\ rows = <<>> /\ error = FALSE
-----------------------------------------------------------------------------
\* An output that exists is not mixed with new rows.
Evaluate ==
  /\ stage = "called"
  /\ stage' = IF setup.existing THEN "raised" ELSE "running"
  /\ UNCHANGED <<episodeVars, slots, rows, error>>

\* Results are counted as they come; the early stop looks at the first ones.
FirstAllFailed(results) ==
  /\ Len(results) = setup.trouble
  /\ \A k \in 1..Len(results) : results[k].status = "failed"

\* The rest of one(): the row of the sample generate has returned.
WriteRow(t) ==
  \/ /\ rows' = Append(rows, [trial |-> t, status |-> ep'[t].status,
                              reward |-> ep'[t].reward])
     /\ error' = (error \/ FirstAllFailed(rows'))
  \/ setup.faulty /\ rows' = rows /\ error' = TRUE       \* the write fails

Admit(t) ==
  /\ stage = "running" /\ t \in DOMAIN setup.plan /\ slots > 0
  /\ \/ Begin(t) /\ slots' = slots - 1 /\ UNCHANGED <<stage, rows, error>>
     \/ BadTask(t) /\ WriteRow(t) /\ UNCHANGED <<stage, slots>>

\* Mutant: the slot of a trial that is over is not given back.
FinishKeepsSlot(t) ==
  /\ Closed(t) \/ CreateFails(t)
  /\ WriteRow(t)
  /\ UNCHANGED <<stage, slots>>

Finish(t) ==
  /\ Closed(t) \/ CreateFails(t)
  /\ WriteRow(t)
  /\ slots' = slots + 1
  /\ UNCHANGED stage

FinishCancelled(t) ==
  /\ ClosedCancelled(t)
  /\ slots' = slots + 1
  /\ UNCHANGED <<stage, rows, error>>

Trial(t) ==
  \/ Admit(t)
  \/ Finish(t)
  \/ FinishCancelled(t)
  \/ Advance(t) /\ UNCHANGED <<stage, slots, rows, error>>
-----------------------------------------------------------------------------
(***************************************************************************)
(* Cancellation: Task.cancel() for every task that is not done.            *)
(***************************************************************************)
CancelAll ==
  LET held(phases) == Cardinality({t \in Trials : ep[t].pc \in phases})
      stillHeld(phases) == Cardinality({t \in Trials : ep'[t].pc \in phases})
      admitted == {"permit"} \cup Holding
  IN /\ \E allocated \in SUBSET {t \in Trials : ep[t].pc = "create"} :
          ep' = [t \in Trials |-> IF t \in DOMAIN setup.plan
                                  THEN CancelledAt(ep[t], t \in allocated) ELSE ep[t]]
     /\ permits' = permits + held(Holding) - stillHeld(Holding)
     /\ slots' = slots + held(admitted) - stillHeld(admitted)
     /\ UNCHANGED setup

\* A task has raised: gather hands its exception on, the finally block cancels.
Abort ==
  /\ stage = "running" /\ error
  /\ CancelAll
  /\ stage' = "cleaning"
  /\ UNCHANGED <<rows, error>>

\* The caller is cancelled: gather cancels its children.
Interrupt ==
  /\ stage = "running" /\ ~error /\ setup.interrupts
  /\ ~AllEnded
  /\ CancelAll
  /\ stage' = "interrupted"
  /\ UNCHANGED <<rows, error>>

\* gather is done with the first child that ends cancelled, and the finally
\* block cancels those that are not done yet.
AbortInterrupted ==
  /\ stage = "interrupted"
  /\ \E t \in DOMAIN setup.plan : ep[t].pc = "gone"
  /\ CancelAll
  /\ stage' = "cleaning"
  /\ UNCHANGED <<rows, error>>

\* Mutant: the tasks are cancelled and left to themselves.
CleanedUnawaited ==
  /\ stage = "cleaning"
  /\ stage' = "raised"
  /\ UNCHANGED <<episodeVars, slots, rows, error>>

Cleaned ==
  /\ stage = "cleaning" /\ AllEnded
  /\ stage' = "raised"
  /\ UNCHANGED <<episodeVars, slots, rows, error>>
-----------------------------------------------------------------------------
\* summarize_results: as many rows of every task as there are samples, each
\* with an index of its own.
Complete ==
  LET task(k) == setup.plan[rows[k].trial][1]
      sample(k) == setup.plan[rows[k].trial][2]
  IN \A k \in 1..Len(rows) :
       LET group == {j \in 1..Len(rows) : task(j) = task(k)}
       IN /\ Cardinality(group) = setup.samples
          /\ Cardinality({sample(j) : j \in group}) = setup.samples

Gathered ==
  /\ stage = "running" /\ AllEnded /\ ~error
  /\ stage' = IF Complete THEN "returned" ELSE "raised"
  /\ UNCHANGED <<episodeVars, slots, rows, error>>

Main == Evaluate \/ Abort \/ AbortInterrupted \/ Cleaned \/ Gathered

Next ==
  \/ Main
  \/ Interrupt
  \/ \E t \in Trials : Trial(t)
  \/ \E t \in Trials : Environment(t) /\ UNCHANGED <<stage, slots, rows, error>>

Spec == Init /\ [][Next]_vars

\* Every await has a timeout and asyncio runs every runnable task; what the
\* environment does by itself need not happen.
Fairness == WF_vars(Main) /\ \A t \in Trials : WF_vars(Trial(t))
FairSpec == Spec /\ Fairness
-----------------------------------------------------------------------------
(***************************************************************************)
(* Properties.                                                             *)
(***************************************************************************)

\* What is trained is what was sampled: mask and logprobs cover the response,
\* the mask is 1 exactly on sampled tokens, a turn is closed before anything is
\* injected, the budget holds, and no check inside run_episode ever fails
\* (generate_with_prover.py:294-327, 479-481).
StreamExact ==
  \A t \in Trials :
    LET e == ep[t]
        s == e.stream
        tokens == s.tokens
    IN /\ e.failure # "invariant"
       /\ (\/ e.pc \in {"model", "tool", "probe"} \cup Grading
           \/ (e.pc = "done" /\ e.failure = "none"))
            => /\ Validated(e)
               /\ \A k \in 1..Len(s.mask) :
                    s.mask[k] = 1 <=> tokens[k + 1] \in Sampled
               /\ \A k \in 1..(Len(tokens) - 1) :
                    tokens[k + 1] = "injected"
                      => tokens[k] \in {"injected", "end", "closing"}

\* A sample that is not marked as failed has the verdict of the one execution
\* of the verifier, which ran after the generation had ended and in the sandbox
\* of the episode; only a proof is rewarded; and a failed one carries nothing to
\* train on ("Never restart an execution whose completion state is unknown",
\* generate_with_prover.py:534; _mark_failed).
ScoreIsVerdict ==
  \A t \in Trials :
    LET e == ep[t]
    IN /\ e.runs <= 1
       /\ (e.pc = "done" /\ e.status # "failed")
            => /\ e.runs = 1 /\ e.failure = "none"
               /\ e.reward = e.verdict["reward"]
               /\ e.reward = 1 => e.judged = "proof"
       /\ e.status = "failed" => (e.stream = Unstarted /\ e.reward = 0)

\* The verification has a reserve of its own: the timeout of the whole episode
\* never cuts it short, whatever the generation took (effective_episode_timeout).
ReserveKept == \A t \in Trials : ep[t].failure # "EpisodeTimeout"

\* When evaluate_records is over no trial runs any more, every permit is back and
\* every sandbox was closed, unless a cancellation came while it was being closed;
\* and it only returns, with a summary, when each task has all its samples, each
\* scored once (evaluate.py:81-114).
EvaluationClean ==
  stage \in {"raised", "returned"} =>
    /\ \A t \in Trials : ep[t].pc \in {"queued"} \cup Ended
    /\ permits = setup.permits /\ slots = setup.slots
    /\ stage = "returned" =>
         /\ Complete
         /\ \A t \in DOMAIN setup.plan :
              \E k \in 1..Len(rows) : /\ rows[k].trial = t
                                      /\ rows[k].reward = ep[t].reward
         /\ Len(rows) = Cardinality(DOMAIN setup.plan)

\* An evaluation that was started comes to an end.
EvaluationEnds == stage = "running" ~> stage \in {"raised", "returned"}

\* A cancelled evaluation waits until its trials have closed their sandboxes
\* (tests/test_rl_eval_task_cleanup.py:66).
CancellationWaitsForCleanup ==
  \A t \in Trials : ep[t].failure = "cancelled" => ep[t].box # "abandoned"
=============================================================================
