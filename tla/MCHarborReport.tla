--------------------------- MODULE MCHarborReport ---------------------------
(***************************************************************************)
(* Two tasks, the second with a Vericoding overlay; two materialisers; at  *)
(* most three trial directories.  The first situations are about the view, *)
(* the others about a job over a whole view, with crashes of each grader.  *)
(* Repository tasks have no spec file in the view, as those of VeriSoft.   *)
(***************************************************************************)
EXTENDS HarborReport

Solved == [grader |-> "file", readable |-> TRUE, sorries |-> FALSE, intact |-> TRUE,
           forbidden |-> FALSE, lean |-> "accepts", axioms |-> "standard",
           crash |-> FALSE]
Failed == [Solved EXCEPT !.axioms = "extra"]
GraderDown == [Solved EXCEPT !.crash = TRUE]
Answer == [grader |-> "verisoft", attested |-> TRUE, parsed |-> TRUE,
           incomplete |-> FALSE, repl |-> "clash", again |-> "proves", crash |-> FALSE]
AnswerLost == [Answer EXCEPT !.crash = TRUE]
Repaired == [grader |-> "repo", sealed |-> TRUE, filled |-> TRUE, sorries |-> FALSE,
             forbidden |-> FALSE, build |-> "passes", specs |-> TRUE,
             probe |-> "standard", stops |-> 5]
ProbeDown == [Repaired EXCEPT !.stops = 4]
Package == [grader |-> "vero", attested |-> TRUE, build |-> TRUE, total |-> 1,
            passed |-> 1, crash |-> FALSE]
PackageDown == [Package EXCEPT !.crash = TRUE]

Attempt(t) == [task |-> t, agent |-> "qwen", digest |-> t]

Quiet == [kind |-> "putnam", force |-> FALSE, existing |-> FALSE,
          committed |-> "whole", edited |-> {}, capture |-> {}, builders |-> {},
          explicit |-> "none", environment |-> "good", local |-> "bad",
          edits |-> {}, refresh |-> FALSE, faulty |-> FALSE, crashes |-> FALSE,
          plan |-> <<Attempt("t1")>>, found |-> "nothing", slow |-> FALSE,
          regrade |-> FALSE, reports |-> 0, submissions |-> {Solved}]

Pair == [Quiet EXCEPT !.builders = {"b1", "b2"}, !.faulty = TRUE, !.crashes = TRUE]
Single == [Pair EXCEPT !.builders = {"b1"}]

Materialised ==
  {[Pair EXCEPT !.edits = {"source"}],
   [Single EXCEPT !.kind = "vericoding", !.edits = {"source"}, !.refresh = TRUE],
   [Single EXCEPT !.kind = "vericoding", !.capture = {"b1"},
                  !.edits = {"source", "spec", "mirror"}],
   [Pair EXCEPT !.kind = "verisoft", !.force = TRUE, !.existing = TRUE,
                !.capture = {"b2"}],
   [Single EXCEPT !.kind = "vero", !.edited = {"entries"}],
   [Single EXCEPT !.kind = "vero", !.committed = "half", !.capture = {"b1"}],
   [Pair EXCEPT !.kind = "vero", !.committed = "absent", !.capture = {"b1"}],
   [Single EXCEPT !.explicit = "bad"]}

Job == [Quiet EXCEPT !.existing = TRUE, !.reports = 1,
                     !.plan = <<Attempt("t1"), Attempt("t1")>>]
Mixed == <<Attempt("t1"), [Attempt("t1") EXCEPT !.agent = "kimi"]>>

Reported ==
  {[Job EXCEPT !.found = "copy", !.submissions = {Solved, GraderDown}],
   [Job EXCEPT !.found = "extra", !.submissions = {Solved, Failed}],
   [Job EXCEPT !.found = "foreign", !.plan = Mixed],
   [Job EXCEPT !.found = "stranger"],
   [Job EXCEPT !.found = "lockless"],
   [Job EXCEPT !.plan = <<Attempt("t1")>>, !.slow = TRUE, !.regrade = TRUE,
               !.reports = 2, !.submissions = {Solved, Failed}],
   [Job EXCEPT !.kind = "vericoding", !.edits = {"spec"},
               !.plan = <<Attempt("t1"), Attempt("t2")>>],
   [Job EXCEPT !.kind = "verisoft", !.submissions = {Answer, AnswerLost}],
   [Job EXCEPT !.kind = "verisoft", !.submissions = {Repaired, ProbeDown}],
   [Job EXCEPT !.kind = "vero", !.submissions = {Package, PackageDown}],
   [Job EXCEPT !.plan[2].digest = "t2"]}

AllSetups == Materialised \cup Reported
=============================================================================
