------------------------- MODULE MCRolloutPipeline -------------------------
(***************************************************************************)
(* RolloutPipeline for TLC: the setups of the runs.  Setup's arguments are *)
(* the number of groups in flight (and the length of the queue), what may  *)
(* happen how often, and the risks.                                        *)
(***************************************************************************)
EXTENDS RolloutPipeline

Setup(width, drops, stales, evaluations, deaths, risks) ==
  [active |-> width, queue |-> width, drops |-> drops, stale |-> stales,
   evals |-> evaluations, crashes |-> deaths, risks |-> risks]

\* Two groups in flight, and an evaluation beside drops, with threads preempted
\* anywhere; a crash and a restart; stale groups beside an evaluation.
Overlap == {Setup(2, 0, 0, 0, 0, {"preemption"}), Setup(1, 1, 0, 1, 0, {"preemption"})}
Restart == {Setup(1, 1, 0, 0, 1, {}), Setup(1, 1, 1, 1, 0, {})}
OverlapOrRestart == Overlap \cup Restart
LateSave == {Setup(1, 0, 0, 0, 0, {"late save"})}
EvalAfterFinal == {Setup(1, 0, 0, 1, 0, {"eval after final"})}
LostGroups == LateSave \cup EvalAfterFinal
=============================================================================
