---------------------------- MODULE MCEvaluation ----------------------------
(***************************************************************************)
(* Evaluation for TLC: the setups of the runs.                             *)
(***************************************************************************)
EXTENDS Evaluation, TLC

CONSTANTS t1, t2, t3, a, b, c

ThreeTrials == {t1, t2, t3}
ThreeTasks == {a, b, c}

\* One trial with several turns, tool calls, and little room for tokens.
Turns ==
  [plan |-> t1 :> <<a, 0>>, samples |-> 1, permits |-> 1, slots |-> 1,
   trouble |-> 2, existing |-> FALSE, interrupts |-> FALSE,
   turns |-> 3, total |-> 6, nudges |-> 1, calls |-> 2, reply |-> 2,
   attempts |-> 2, faulty |-> TRUE, timed |-> FALSE]

\* One short trial against the clock.
Clock == [Turns EXCEPT !.turns = 2, !.total = 4, !.nudges = 0, !.calls = 1,
                       !.reply = 1, !.timed = TRUE]

\* Three trials that have no room for a reply: two slots, one permit, an early
\* stop after two results.
Fan == [Turns EXCEPT !.plan = t1 :> <<a, 0>> @@ t2 :> <<b, 0>> @@ t3 :> <<c, 0>>,
                     !.permits = 1, !.slots = 2, !.turns = 1, !.total = 2,
                     !.nudges = 0, !.calls = 0, !.reply = 1, !.attempts = 1]

\* Two samples of a task; the same task twice; an output that exists.
Samples == [Fan EXCEPT !.plan = t1 :> <<a, 0>> @@ t2 :> <<a, 1>>, !.samples = 2,
                         !.permits = 2, !.total = 3]
Twice == [Samples EXCEPT !.plan = t1 :> <<a, 0>> @@ t2 :> <<a, 0>>, !.faulty = FALSE]
Existing == [Samples EXCEPT !.existing = TRUE]

\* Two trials, and a cancellation from outside.
Interrupted == [Samples EXCEPT !.interrupts = TRUE, !.faulty = FALSE]
Cancelled == {Interrupted}

Evaluations == {Turns, Clock, Fan, Samples, Twice, Existing, Interrupted}
=============================================================================
