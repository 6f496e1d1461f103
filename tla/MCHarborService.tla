-------------------------- MODULE MCHarborService --------------------------
(***************************************************************************)
(* Samples, instances and groups for the runs of HarborService.            *)
(***************************************************************************)
EXTENDS HarborService, TLC

CONSTANTS s1, s2, i1, i2

\* Two samples of one prompt, on one instance or on two.
TwoSamples == {s1, s2}
OneGroup == {TwoSamples}
TwoInstances == {i1, i2}
NoInstance == {}

Outcome(broken, said) == [broken |-> broken, said |-> said]
FourOutcomes == {Outcome(FALSE, "zero"), Outcome(FALSE, "one"),
                 Outcome(FALSE, "nan"), Outcome(TRUE, "one")}
=============================================================================
