------------------------------ MODULE Verifier ------------------------------
(***************************************************************************)
(* The four graders and what each publishes as reward.json:                *)
(*   "file"     verifier/grade.py, one Lean file with marked sections      *)
(*   "repo"     verifier/grade_repo.py, a repository under a seal          *)
(*   "verisoft" verisoft/harbor_grade.py, an answer checked by a REPL      *)
(*   "vero"     vero/harbor_grade.py, a frozen native evaluator            *)
(*                                                                         *)
(* A submission is what the grader can find out about what it is given;    *)
(* the compiler, the REPL and the native evaluator are part of it.  The    *)
(* metrics are a function from names to 0 or 1.                            *)
(***************************************************************************)
EXTENDS Naturals

Checks == {"sorry_free", "spec_intact", "forbidden_free", "compiled", "axioms_ok"}
Graders == {"file", "repo", "verisoft", "vero"}

Float(truth) == IF truth THEN 1 ELSE 0

\* The reward is the conjunction of the five checks that ride along.
Rewarded(checks) ==
  [m \in {"reward"} \cup Checks |->
     IF m = "reward" THEN Float(\A c \in Checks : checks[c] = 1) ELSE checks[m]]

NoCheck == [c \in Checks |-> 0]
-----------------------------------------------------------------------------
(***************************************************************************)
(* grade.py.  lean: how the one run of Lean on the file with its probes    *)
(* ends.  axioms: what the probes report of the original's theorems.       *)
(***************************************************************************)
FileSubmissions ==
  [grader : {"file"}, readable : BOOLEAN, sorries : BOOLEAN, intact : BOOLEAN,
   forbidden : BOOLEAN, lean : {"accepts", "rejects", "late"},
   axioms : {"standard", "extra", "missing"}, crash : BOOLEAN]

CompileAndCheckAxioms(s) ==
  [compiled |-> s.lean = "accepts",
   axioms_ok |-> s.lean = "accepts" /\ s.axioms = "standard"]

\* An unreadable file passes no check; a file with sorries is compiled too.
FileChecks(s) ==
  LET lean == CompileAndCheckAxioms(s)
      passed == {c \in Checks :
                   \/ c = "sorry_free" /\ ~s.sorries
                   \/ c = "spec_intact" /\ s.intact
                   \/ c = "forbidden_free" /\ ~s.forbidden
                   \/ c = "compiled" /\ lean.compiled
                   \/ c = "axioms_ok" /\ lean.axioms_ok}
  IN [c \in Checks |-> Float(s.readable /\ c \in passed)]

\* The handler at the end of the program; test.sh exits 0 after it too.
FileCrash == [m \in {"reward", "grader_error"} |-> Float(m = "grader_error")]

GradeFile(s) == IF s.crash THEN FileCrash ELSE Rewarded(FileChecks(s))
-----------------------------------------------------------------------------
(***************************************************************************)
(* grade_repo.py.  The merged tree is the pristine one with the agent's    *)
(* bodies; a body that is not found keeps the pristine sorry.  stops is    *)
(* the first of the four steps that raises, 5 if none does: the checks of  *)
(* the steps before it are published.                                      *)
(***************************************************************************)
RepoSubmissions ==
  [grader : {"repo"}, sealed : BOOLEAN, filled : BOOLEAN, sorries : BOOLEAN,
   forbidden : BOOLEAN, build : {"passes", "fails", "late"}, specs : BOOLEAN,
   probe : {"standard", "extra", "missing", "errors", "late"}, stops : 1..5]

RepoStep == [c \in Checks |->
  IF c = "spec_intact" THEN 1 ELSE IF c = "compiled" THEN 3
  ELSE IF c = "axioms_ok" THEN 4 ELSE 2]

AxiomProbe(s) == s.build = "passes" /\ (s.specs => s.probe = "standard")

GradeRepo(s) ==
  LET passed == {c \in Checks :
                   \/ c = "spec_intact" /\ s.sealed
                   \/ c = "sorry_free" /\ s.filled /\ ~s.sorries
                   \/ c = "forbidden_free" /\ ~s.forbidden
                   \/ c = "compiled" /\ s.build = "passes"
                   \/ c = "axioms_ok" /\ AxiomProbe(s)}
  IN Rewarded([c \in Checks |-> Float(c \in passed /\ RepoStep[c] < s.stops)])
-----------------------------------------------------------------------------
(***************************************************************************)
(* verisoft/harbor_grade.py.  attested: the files match their attestation. *)
(* repl: the answer of the first verify_proof, "clash" if a name has been  *)
(* declared already; again: that of the second one, with other names,      *)
(* "none" if there is nothing to rename.                                   *)
(***************************************************************************)
VerisoftSubmissions ==
  [grader : {"verisoft"}, attested : BOOLEAN, parsed : BOOLEAN,
   incomplete : BOOLEAN, repl : {"proves", "fails", "clash"},
   again : {"proves", "fails", "none"}, crash : BOOLEAN]

VerifyProof(s) ==
  \/ s.repl = "proves"
  \/ s.repl = "clash" /\ s.again = "proves"

\* spec_intact is constant and axioms_ok mirrors the compiler's answer: this
\* track has no audit of axioms.
GradeVerisoft(s) ==
  LET complete == s.parsed /\ ~s.incomplete
      success == complete /\ VerifyProof(s)
      metrics == [m \in {"reward"} \cup Checks |->
        Float(CASE m = "spec_intact" -> TRUE
                [] m \in {"sorry_free", "forbidden_free"} -> complete
                [] OTHER -> success)]
  IN IF s.attested /\ ~s.crash THEN metrics ELSE Rewarded(NoCheck)
-----------------------------------------------------------------------------
(***************************************************************************)
(* vero/harbor_grade.py: three metrics of its own beside the reward.       *)
(***************************************************************************)
VeroSubmissions ==
  [grader : {"vero"}, attested : BOOLEAN, build : BOOLEAN, total : 0..1,
   passed : 0..1, crash : BOOLEAN]

VeroMetrics == {"reward", "native_build_ok", "native_all_specs_passed",
                "runtime_attested"}

GradeVero(s) ==
  LET graded == s.attested /\ ~s.crash
      allPassed == graded /\ s.total > 0 /\ s.passed = s.total
      build == graded /\ s.build
  IN [m \in VeroMetrics |->
        Float(CASE m = "reward" -> build /\ allPassed
                [] m = "native_build_ok" -> build
                [] m = "native_all_specs_passed" -> allPassed
                [] OTHER -> graded)]
-----------------------------------------------------------------------------
Submissions ==
  FileSubmissions \cup RepoSubmissions \cup VerisoftSubmissions \cup VeroSubmissions

Grade(s) == CASE s.grader = "file" -> GradeFile(s)
              [] s.grader = "repo" -> GradeRepo(s)
              [] s.grader = "verisoft" -> GradeVerisoft(s)
              [] s.grader = "vero" -> GradeVero(s)

\* The program ended by its exception handler.
Crashed(s) == CASE s.grader = "repo" -> s.stops < 5
                [] s.grader = "file" -> s.crash
                [] OTHER -> s.crash \/ ~s.attested
=============================================================================
