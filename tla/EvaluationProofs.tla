--------------------------- MODULE EvaluationProofs ---------------------------
(***************************************************************************)
(* Proofs about an evaluation and its episodes, for any trials, deadlines, *)
(* budgets and setups:                                                     *)
(*                                                                         *)
(*   - a score is the verdict of the one execution of the verifier, and    *)
(*     the timeout of the whole episode never cuts verification short      *)
(*     (Order: what is known of an episode at each await);                 *)
(*   - what is trained is what was sampled (StreamsOK: what is known of    *)
(*     the token stream there);                                            *)
(*   - permits, slots and rows are those of the trials (Books, Stages).    *)
(***************************************************************************)
EXTENDS Evaluation, TLAPS, FiniteSetTheorems

\* An episode is a record of these fields.
Shape(e) ==
  DOMAIN e = {"pc", "turn", "stream", "nudges", "calls", "file", "late", "probed",
              "status", "tries", "runs", "judged", "verdict", "reward", "failure",
              "box", "clock", "until", "slack"}

\* The deadlines that have been granted by the time of a phase.
Allowed(phase) ==
  IF phase \in Generation THEN GenerationTimeout
  ELSE IF phase = "tests" THEN GenerationTimeout + GRADE_UPLOAD_TIMEOUT
  ELSE IF phase = "verify"
       THEN GenerationTimeout + GRADE_UPLOAD_TIMEOUT + GRADE_TIMEOUT
  ELSE GenerationTimeout + GRADE_UPLOAD_TIMEOUT + GRADE_TIMEOUT
         + GRADE_REWARD_TIMEOUT

\* Neither the clock nor the phase's deadline is beyond these, but for what
\* the event loop was late.
InTime(e, phase) ==
  /\ e.clock \in Nat /\ e.until \in Nat /\ e.slack \in Nat
  /\ e.slack < SCHEDULING_MARGIN
  /\ e.clock <= Allowed(phase) + e.slack
  /\ e.until <= Allowed(phase) + e.slack

\* What is there to publish was found by the verifier in a task file.
Graded(e) ==
  \E file \in Files, crash \in BOOLEAN :
    e.judged = file /\ e.verdict = Grade(Submission(file, crash))

\* An episode between two awaits of the turn loop.
Working(e) ==
  /\ Shape(e) /\ InTime(e, "model") /\ e.file \in Files
  /\ e.failure = "none" /\ e.status # "failed" /\ e.runs = 0

Unborn(e) == e = [Nobody EXCEPT !.pc = e.pc]

Failed(e) == e.runs = 0 /\ e.failure # "EpisodeTimeout"

Scored(e) ==
  /\ e.failure = "none" /\ e.status # "failed" /\ e.runs = 1
  /\ Graded(e) /\ e.reward = e.verdict["reward"]

Verifying(e) ==
  /\ InTime(e, e.pc) /\ e.file \in Files
  /\ e.failure = "none" /\ e.status # "failed"
  /\ IF e.pc = "tests" THEN e.runs = 0 ELSE e.runs = 1
  /\ e.pc = "verify" => e.verdict = NoCheck \/ Graded(e)
  /\ e.pc = "read" => Graded(e)

\* What is known of an episode at the await it is in.
EpisodeOK(e) ==
  /\ Shape(e)
  /\ \/ e.pc \in {"queued", "permit", "create"} /\ Unborn(e)
     \/ e.pc \in Generation /\ Working(e)
     \/ e.pc \in Grading /\ Verifying(e)
     \/ e.pc = "close" /\ (Scored(e) \/ (Failed(e) /\ e.failure # "none" /\ e.status = "none"))
     \/ e.pc = "done" /\ \/ Scored(e)
                         \/ /\ Failed(e) /\ e.status = "failed"
                            /\ e.stream = Unstarted /\ e.reward = 0
     \/ e.pc = "gone" /\ e.status # "failed" /\ e.runs \in {0, 1}
                      /\ e.failure # "EpisodeTimeout"

EpisodesOK ==
  /\ ep = [t \in Trials |-> ep[t]]
  /\ \A t \in Trials : EpisodeOK(ep[t])
-----------------------------------------------------------------------------
\* A step of one episode that leaves it in order.
Moves(t) == \E x : EpisodeOK(x) /\ Set(t, x)

LEMMA MovesKeep ==
  ASSUME EpisodesOK, NEW t \in Trials, Moves(t)
  PROVE  EpisodesOK'
BY DEF EpisodesOK, Moves, Set

LEMMA Limits ==
  /\ GenerationTimeout \in Nat /\ EpisodeTimeoutSetting \in Nat
  /\ GRADE_UPLOAD_TIMEOUT \in Nat /\ GRADE_TIMEOUT \in Nat
  /\ GRADE_REWARD_TIMEOUT \in Nat /\ SCHEDULING_MARGIN \in Nat \ {0}
BY EpisodeAssumption DEF EpisodeAssumption, GenerationTimeout

\* Nobody is a record of an episode in order.
LEMMA NobodyOK ==
  /\ Shape(Nobody) /\ EpisodeOK(Nobody)
BY DEF EpisodeOK, Shape, Nobody, Unborn

\* An exception leaves nothing but its name.
LEMMA FailOK ==
  ASSUME NEW e, NEW why, why \notin {"none", "EpisodeTimeout"}
  PROVE  EpisodeOK(Fail(e, why))
<1> DEFINE x == Fail(e, why)
<1>1. /\ Shape(x) /\ x.pc = "close" /\ x.failure = why /\ x.runs = 0
      /\ x.status = "none"
  BY DEF Fail, Nobody, Shape
<1> HIDE DEF x
<1>2. EpisodeOK(x)
  BY <1>1 DEF EpisodeOK, Failed
<1> QED
  BY <1>2 DEF x

\* Only a proof is rewarded.
LEMMA ProofRewarded ==
  ASSUME NEW file \in Files, NEW crash \in BOOLEAN,
         Grade(Submission(file, crash))["reward"] = 1
  PROVE  file = "proof"
<1> DEFINE s == Submission(file, crash)
<1>1. s.grader = "file" /\ s.crash = crash /\ s.lean \in {"accepts", "rejects"}
      /\ s.axioms = (IF file = "proof" THEN "standard" ELSE "extra")
  BY DEF Submission, Compiles
<1>2. Grade(s) = IF crash THEN FileCrash ELSE Rewarded(FileChecks(s))
  BY <1>1 DEF Grade, GradeFile
<1>3. FileCrash["reward"] = 0
  BY DEF FileCrash, Float
<1>4. ~crash
  BY <1>2, <1>3
<1>5. Rewarded(FileChecks(s))["reward"] = Float(\A c \in Checks : FileChecks(s)[c] = 1)
  BY DEF Rewarded
<1>6. FileChecks(s)["axioms_ok"] = 1
  BY <1>2, <1>4, <1>5 DEF Float, Checks
<1>7. FileChecks(s)["axioms_ok"] = Float(s.readable /\ CompileAndCheckAxioms(s).axioms_ok)
  BY DEF FileChecks, Checks
<1>8. CompileAndCheckAxioms(s).axioms_ok = (s.lean = "accepts" /\ s.axioms = "standard")
  BY DEF CompileAndCheckAxioms
<1>9. CompileAndCheckAxioms(s).axioms_ok
  BY <1>6, <1>7 DEF Float
<1> QED
  BY <1>1, <1>8, <1>9
-----------------------------------------------------------------------------
(***************************************************************************)
(* The turn loop.                                                          *)
(***************************************************************************)

\* The next phase begins in time, with a deadline of its own.
LEMMA PhaseInTime ==
  ASSUME NEW e, Shape(e), NEW old, InTime(e, old), NEW phase, NEW limit \in Nat,
         Allowed(old) \in Nat, Allowed(phase) \in Nat,
         Allowed(old) + limit <= Allowed(phase)
  PROVE  Shape(In(e, phase, limit)) /\ InTime(In(e, phase, limit), phase)
<1> DEFINE x == In(e, phase, limit)
<1>1. x = [e EXCEPT !.pc = phase, !.until = e.clock + limit, !.tries = 1]
  BY DEF In
<1>2. Shape(x) /\ x.clock = e.clock /\ x.slack = e.slack /\ x.until = e.clock + limit
  BY <1>1 DEF Shape
<1> HIDE DEF x
<1>3. InTime(x, phase)
  BY <1>2 DEF InTime
<1> QED
  BY <1>2, <1>3 DEF x

\* The deadlines of the phases add up.
LEMMA AllowedIs ==
  /\ Allowed("tests") = GenerationTimeout + GRADE_UPLOAD_TIMEOUT
  /\ Allowed("verify") = GenerationTimeout + GRADE_UPLOAD_TIMEOUT + GRADE_TIMEOUT
  /\ Allowed("read") = GenerationTimeout + GRADE_UPLOAD_TIMEOUT + GRADE_TIMEOUT
                        + GRADE_REWARD_TIMEOUT
  /\ \A phase \in Generation : Allowed(phase) = GenerationTimeout
  /\ "model" \in Generation
  /\ \A phase \in {"model", "tests", "verify", "read"} : Allowed(phase) \in Nat
BY Limits DEF Allowed, Generation

\* What the loop keeps in order.
LEMMA StillWorking ==
  ASSUME NEW e, Working(e), NEW x, Shape(x), x.file \in Files,
         x.failure = e.failure, x.status = e.status, x.runs = e.runs,
         x.clock = e.clock, x.until = e.until, x.slack = e.slack
  PROVE  Working(x)
BY DEF Working, InTime

LEMMA ToTests ==
  ASSUME NEW y, Working(y)
  PROVE  EpisodeOK(In(y, "tests", GRADE_UPLOAD_TIMEOUT))
<1> DEFINE x == In(y, "tests", GRADE_UPLOAD_TIMEOUT)
<1>1. Shape(y) /\ InTime(y, "model") /\ GRADE_UPLOAD_TIMEOUT \in Nat
  BY Limits DEF Working
<1>2. /\ Allowed("model") + GRADE_UPLOAD_TIMEOUT <= Allowed("tests")
      /\ Allowed("model") \in Nat /\ Allowed("tests") \in Nat
  BY AllowedIs, Limits
<1>3. Shape(x) /\ InTime(x, "tests")
  BY <1>1, <1>2, PhaseInTime
<1>4. /\ x.pc = "tests" /\ x.failure = y.failure /\ x.runs = y.runs
      /\ x.status = y.status /\ x.file = y.file
  BY <1>1 DEF Shape, In
<1> HIDE DEF x
<1>5. EpisodeOK(x)
  BY <1>3, <1>4 DEF EpisodeOK, Verifying, Grading, Working
<1> QED
  BY <1>5 DEF x

LEMMA StoppedOK ==
  ASSUME NEW e, Working(e), NEW status, status # "failed"
  PROVE  EpisodeOK(Stopped(e, status))
<1> DEFINE y == [e EXCEPT !.status = status]
<1>1. Shape(y) /\ y.clock = e.clock /\ y.until = e.until /\ y.slack = e.slack
      /\ y.failure = e.failure /\ y.runs = e.runs /\ y.status = status
      /\ y.file = e.file
  BY DEF Working, Shape
<1>2. Stopped(e, status) = IF Validated(e) THEN In(y, "tests", GRADE_UPLOAD_TIMEOUT)
                           ELSE Fail(e, "invariant")
  BY DEF Stopped
<1> HIDE DEF y
<1>3. Working(y)
  BY <1>1 DEF Working, InTime
<1> QED
  BY <1>2, <1>3, ToTests, FailOK

LEMMA LoopTopMoves ==
  ASSUME NEW t, NEW e, Working(e), LoopTop(t, e)
  PROVE  Moves(t)
<1> DEFINE y == [e EXCEPT !.turn = @ + 1]
           x == [e EXCEPT !.turn = @ + 1, !.pc = "model"]
<1>1. CASE Set(t, Stopped(e, "truncated"))
  BY <1>1, StoppedOK DEF Moves
<1>2. Shape(y) /\ Working(y)
  <2>1. /\ Shape(y) /\ y.file = e.file /\ y.failure = e.failure /\ y.status = e.status
        /\ y.runs = e.runs /\ y.clock = e.clock /\ y.until = e.until
        /\ y.slack = e.slack
    BY DEF Working, Shape
  <2> HIDE DEF y
  <2> QED
    BY <2>1, StillWorking DEF Working
<1>3. CASE Set(t, Stopped(y, "truncated"))
  <2> HIDE DEF y
  <2> QED
    BY <1>2, <1>3, StoppedOK DEF Moves
<1>4. CASE Set(t, x)
  <2>1. /\ Shape(x) /\ x.file = e.file /\ x.failure = e.failure /\ x.status = e.status
        /\ x.runs = e.runs /\ x.clock = e.clock /\ x.until = e.until
        /\ x.slack = e.slack /\ x.pc = "model"
    BY DEF Working, Shape
  <2> HIDE DEF x
  <2>2. Working(x)
    BY <2>1, StillWorking DEF Working
  <2>3. EpisodeOK(x)
    BY <2>1, <2>2 DEF EpisodeOK, Generation
  <2> QED
    BY <2>3, <1>4 DEF Moves
<1> QED
  BY <1>1, <1>3, <1>4 DEF LoopTop

LEMMA FollowUpMoves ==
  ASSUME NEW t, NEW e, Working(e), FollowUp(t, e)
  PROVE  Moves(t)
<1>1. ASSUME NEW s, LoopTop(t, [e EXCEPT !.stream = s])
      PROVE  Moves(t)
  <2> DEFINE x == [e EXCEPT !.stream = s]
  <2>1. /\ Shape(x) /\ x.file = e.file /\ x.failure = e.failure /\ x.status = e.status
        /\ x.runs = e.runs /\ x.clock = e.clock /\ x.until = e.until
        /\ x.slack = e.slack
    BY DEF Working, Shape
  <2>2. LoopTop(t, x)
    BY <1>1
  <2> HIDE DEF x
  <2>3. Working(x)
    BY <2>1, StillWorking DEF Working
  <2> QED
    BY <2>2, <2>3, LoopTopMoves
<1> QED
  BY <1>1, StoppedOK DEF FollowUp, Moves

LEMMA NextCallMoves ==
  ASSUME NEW t, NEW e, Working(e), NextCall(t, e)
  PROVE  Moves(t)
<1> DEFINE x == [e EXCEPT !.pc = "tool", !.calls = @ - 1]
<1>1. CASE FollowUp(t, e)
  BY <1>1, FollowUpMoves
<1>2. CASE Set(t, Stopped(e, "truncated"))
  BY <1>2, StoppedOK DEF Moves
<1>3. CASE Set(t, x)
  <2>1. /\ Shape(x) /\ x.file = e.file /\ x.failure = e.failure /\ x.status = e.status
        /\ x.runs = e.runs /\ x.clock = e.clock /\ x.until = e.until
        /\ x.slack = e.slack /\ x.pc = "tool"
    BY DEF Working, Shape
  <2> HIDE DEF x
  <2>2. Working(x)
    BY <2>1, StillWorking DEF Working
  <2>3. EpisodeOK(x)
    BY <2>1, <2>2 DEF EpisodeOK, Generation
  <2> QED
    BY <2>3, <1>3 DEF Moves
<1> QED
  BY <1>1, <1>2, <1>3 DEF NextCall
-----------------------------------------------------------------------------
(***************************************************************************)
(* The steps of one episode.                                               *)
(***************************************************************************)

\* What is known by the name of the await.
LEMMA Known ==
  ASSUME NEW e, EpisodeOK(e)
  PROVE  /\ Shape(e)
         /\ e.pc \in {"queued", "permit", "create"} => Unborn(e)
         /\ e.pc \in Generation => Working(e)
         /\ e.pc \in Grading => Verifying(e)
         /\ e.pc = "close" =>
              Scored(e) \/ (Failed(e) /\ e.failure # "none" /\ e.status = "none")
BY DEF EpisodeOK, Generation, Grading

\* generate, up to the first turn.
LEMMA BeforeTurns ==
  ASSUME NEW t, EpisodeOK(ep[t]),
         \/ BadTask(t) \/ Begin(t) \/ GetPermit(t) \/ CreateFails(t) \/ Created(t)
  PROVE  Moves(t)
<1> DEFINE e == ep[t]
<1>1. Shape(e) /\ Unborn(e)
  BY Known DEF BadTask, Begin, GetPermit, CreateFails, Created
<1>2. ASSUME NEW pc \in {"permit", "create"}, Set(t, [e EXCEPT !.pc = pc])
      PROVE  Moves(t)
  <2> DEFINE x == [e EXCEPT !.pc = pc]
  <2>1. Shape(x) /\ x.pc = pc /\ x = [Nobody EXCEPT !.pc = pc]
    BY <1>1 DEF Shape, Unborn
  <2>2. Set(t, x)
    BY <1>2
  <2> HIDE DEF x
  <2>3. EpisodeOK(x)
    BY <2>1 DEF EpisodeOK, Unborn
  <2> QED
    BY <2>2, <2>3 DEF Moves
<1>3. ASSUME Set(t, Marked([e EXCEPT !.pc = "done", !.failure = "error"]))
      PROVE  Moves(t)
  <2> DEFINE y == [e EXCEPT !.pc = "done", !.failure = "error"]
             x == [y EXCEPT !.stream = Unstarted, !.status = "failed", !.reward = 0]
  <2>1. e.runs = 0
    BY <1>1 DEF Unborn, Nobody
  <2>2. Shape(y) /\ y.pc = "done" /\ y.failure = "error" /\ y.runs = 0
    BY <1>1, <2>1 DEF Shape
  <2>3. Marked(y) = x
    BY <2>2 DEF Marked
  <2>4. Set(t, Marked(y))
    BY <1>3
  <2> HIDE DEF y
  <2>5. /\ Shape(x) /\ x.pc = "done" /\ x.failure = "error" /\ x.runs = 0
        /\ x.stream = Unstarted /\ x.status = "failed" /\ x.reward = 0
    BY <2>2 DEF Shape
  <2> HIDE DEF x
  <2>6. EpisodeOK(x)
    BY <2>5 DEF EpisodeOK, Failed
  <2> QED
    BY <2>3, <2>4, <2>6 DEF Moves
<1>4. ASSUME Set(t, In([e EXCEPT !.box = "live"], "upload", GenerationTimeout))
      PROVE  Moves(t)
  <2> DEFINE x == In([e EXCEPT !.box = "live"], "upload", GenerationTimeout)
  <2>1. /\ e.clock = 0 /\ e.slack = 0 /\ e.file = "open" /\ e.failure = "none"
        /\ e.status = "none" /\ e.runs = 0
    BY <1>1 DEF Unborn, Nobody
  <2>2. /\ Shape(x) /\ x.pc = "upload" /\ x.clock = e.clock /\ x.slack = e.slack
        /\ x.until = e.clock + GenerationTimeout /\ x.file = e.file
        /\ x.failure = e.failure /\ x.status = e.status /\ x.runs = e.runs
    BY <1>1 DEF Shape, In
  <2> HIDE DEF x
  <2>3. InTime(x, "model")
    BY <2>1, <2>2, AllowedIs, Limits DEF InTime
  <2>4. EpisodeOK(x)
    BY <2>1, <2>2, <2>3 DEF EpisodeOK, Working, Generation, Files
  <2> QED
    BY <2>4, <1>4 DEF Moves, x
<1> QED
  BY <1>2, <1>3, <1>4 DEF BadTask, Begin, GetPermit, CreateFails, Created

\* Any exception of an episode.
LEMMA FailMoves ==
  ASSUME NEW t, NEW e, NEW why, why \notin {"none", "EpisodeTimeout"},
         Set(t, Fail(e, why))
  PROVE  Moves(t)
BY FailOK DEF Moves

LEMMA SomethingFails ==
  ASSUME NEW t,
         \/ UploadFails(t) \/ SurfaceFails(t) \/ RouterFails(t) \/ ToolRaises(t)
         \/ VerifierFails(t) \/ ReadFails(t) \/ DeadlineFires(t)
  PROVE  Moves(t)
BY FailMoves DEF UploadFails, SurfaceFails, RouterFails, ToolRaises, VerifierFails,
                 ReadFails, DeadlineFires

\* An attempt that is repeated changes the count of attempts.
LEMMA RetryMoves ==
  ASSUME NEW t, EpisodeOK(ep[t]), UploadRetried(t) \/ ReadRetried(t)
  PROVE  Moves(t)
<1> DEFINE e == ep[t]
           x == [e EXCEPT !.tries = @ + 1]
<1>1. Shape(e) /\ e.pc \in {"upload", "tests", "read"} /\ Set(t, x)
  BY Known DEF UploadRetried, ReadRetried
<1>2. /\ Shape(x) /\ x.pc = e.pc /\ x.clock = e.clock /\ x.until = e.until
      /\ x.slack = e.slack /\ x.file = e.file /\ x.failure = e.failure
      /\ x.status = e.status /\ x.runs = e.runs /\ x.verdict = e.verdict
      /\ x.judged = e.judged
  BY <1>1 DEF Shape
<1> HIDE DEF x
<1>3. CASE e.pc = "upload"
  <2>1. Working(x)
    BY <1>2, <1>3, Known, StillWorking DEF Generation, Working
  <2> QED
    BY <1>1, <1>2, <1>3, <2>1 DEF Moves, EpisodeOK, Generation
<1>4. CASE e.pc \in {"tests", "read"}
  <2>1. Verifying(e)
    BY <1>4, Known DEF Grading
  <2>2. InTime(x, x.pc)
    BY <1>2, <2>1 DEF Verifying, InTime
  <2>3. Graded(e) => Graded(x)
    BY <1>2 DEF Graded
  <2>4. Verifying(x)
    BY <1>2, <1>4, <2>1, <2>2, <2>3 DEF Verifying
  <2> QED
    BY <1>1, <1>2, <1>4, <2>4 DEF Moves, EpisodeOK, Grading
<1> QED
  BY <1>1, <1>3, <1>4

LEMMA TurnsMove ==
  ASSUME NEW t, EpisodeOK(ep[t]),
         TaskUploaded(t) \/ SurfaceReady(t) \/ Replied(t)
  PROVE  Moves(t)
<1> DEFINE e == ep[t]
<1>1. Working(e) /\ Shape(e)
  BY Known DEF TaskUploaded, SurfaceReady, Replied, Generation
<1>2. CASE TaskUploaded(t)
  <2> DEFINE x == [e EXCEPT !.pc = "surface", !.stream = [@ EXCEPT !.tokens = Prompt]]
  <2>1. Set(t, x)
    BY <1>2 DEF TaskUploaded
  <2>2. /\ Shape(x) /\ x.file = e.file /\ x.failure = e.failure /\ x.status = e.status
        /\ x.runs = e.runs /\ x.clock = e.clock /\ x.until = e.until
        /\ x.slack = e.slack /\ x.pc = "surface"
    BY <1>1 DEF Shape
  <2> HIDE DEF x
  <2>3. Working(x)
    BY <1>1, <2>2, StillWorking DEF Working
  <2> QED
    BY <2>1, <2>2, <2>3 DEF Moves, EpisodeOK, Generation
<1>3. CASE SurfaceReady(t)
  BY <1>1, <1>3, LoopTopMoves DEF SurfaceReady
<1>4. CASE Replied(t)
  <2>1. ASSUME NEW s
        PROVE  LET x == [e EXCEPT !.stream = s] IN Working(x)
    <3> DEFINE x == [e EXCEPT !.stream = s]
    <3>1. /\ Shape(x) /\ x.file = e.file /\ x.failure = e.failure
          /\ x.status = e.status /\ x.runs = e.runs /\ x.clock = e.clock
          /\ x.until = e.until /\ x.slack = e.slack
      BY <1>1 DEF Shape
    <3> HIDE DEF x
    <3>2. Working(x)
      BY <1>1, <3>1, StillWorking DEF Working
    <3> QED
      BY <3>2 DEF x
  <2>2. ASSUME NEW heard, Working(heard), NEW n
        PROVE  /\ Working([heard EXCEPT !.nudges = n])
               /\ \A k : Working([heard EXCEPT !.nudges = n, !.calls = k])
    <3> DEFINE x == [heard EXCEPT !.nudges = n]
    <3>1. /\ Shape(x) /\ x.file = heard.file /\ x.failure = heard.failure
          /\ x.status = heard.status /\ x.runs = heard.runs /\ x.clock = heard.clock
          /\ x.until = heard.until /\ x.slack = heard.slack
      BY <2>2 DEF Shape, Working
    <3>2. ASSUME NEW k PROVE Working([heard EXCEPT !.nudges = n, !.calls = k])
      <4> DEFINE y == [heard EXCEPT !.nudges = n, !.calls = k]
      <4>1. /\ Shape(y) /\ y.file = heard.file /\ y.failure = heard.failure
            /\ y.status = heard.status /\ y.runs = heard.runs
            /\ y.clock = heard.clock /\ y.until = heard.until
            /\ y.slack = heard.slack
        BY <2>2 DEF Shape, Working
      <4> HIDE DEF y
      <4>2. Working(y)
        BY <2>2, <4>1, StillWorking DEF Working
      <4> QED
        BY <4>2 DEF y
    <3> HIDE DEF x
    <3>3. Working(x)
      BY <2>2, <3>1, StillWorking DEF Working
    <3> QED
      BY <3>2, <3>3 DEF x
  <2>3. PICK r \in Replies(MaxNewTokens(e)), says \in {"calls", "errors", "nothing"} :
          LET heard == [e EXCEPT !.stream = ClosedTurn(Extended(@, r.tokens, 1))]
          IN \/ FollowUp(t, heard)
             \/ FollowUp(t, [heard EXCEPT !.nudges = @ + 1])
             \/ Set(t, Stopped(heard, "truncated"))
             \/ Set(t, Stopped(heard, "completed"))
             \/ \E n \in 1..setup.calls :
                  NextCall(t, [heard EXCEPT !.nudges = 0, !.calls = n])
    BY <1>4 DEF Replied
  <2> DEFINE heard == [e EXCEPT !.stream = ClosedTurn(Extended(@, r.tokens, 1))]
  <2>4. Working(heard)
    BY <2>1
  <2>5. \/ FollowUp(t, heard)
        \/ FollowUp(t, [heard EXCEPT !.nudges = heard.nudges + 1])
        \/ Set(t, Stopped(heard, "truncated"))
        \/ Set(t, Stopped(heard, "completed"))
        \/ \E n \in 1..setup.calls :
             NextCall(t, [heard EXCEPT !.nudges = 0, !.calls = n])
    BY <2>3
  <2> HIDE DEF heard
  <2>6. CASE FollowUp(t, heard)
    BY <2>4, <2>6, FollowUpMoves
  <2>7. CASE FollowUp(t, [heard EXCEPT !.nudges = heard.nudges + 1])
    BY <2>2, <2>4, <2>7, FollowUpMoves
  <2>8. CASE Set(t, Stopped(heard, "truncated")) \/ Set(t, Stopped(heard, "completed"))
    BY <2>4, <2>8, StoppedOK DEF Moves
  <2>9. CASE \E n \in 1..setup.calls :
               NextCall(t, [heard EXCEPT !.nudges = 0, !.calls = n])
    BY <2>2, <2>4, <2>9, NextCallMoves
  <2> QED
    BY <2>5, <2>6, <2>7, <2>8, <2>9
<1> QED
  BY <1>2, <1>3, <1>4

LEMMA ToolsMove ==
  ASSUME NEW t, EpisodeOK(ep[t]), ToolReturns(t) \/ Probed(t)
  PROVE  Moves(t)
<1> DEFINE e == ep[t]
<1>1. Working(e) /\ Shape(e)
  BY Known DEF ToolReturns, Probed, Generation
<1>2. CASE Probed(t)
  BY <1>1, <1>2, NextCallMoves, StoppedOK DEF Probed, Moves
<1>3. CASE ToolReturns(t)
  <2>1. CASE NextCall(t, e)
    BY <1>1, <2>1, NextCallMoves
  <2>2. ASSUME NEW file \in Files, NEW late,
               LET written == [e EXCEPT !.file = file, !.late = late]
               IN \/ Set(t, [written EXCEPT !.pc = "probe", !.probed = @ \cup {file}])
                  \/ NextCall(t, written)
        PROVE  Moves(t)
    <3> DEFINE w == [e EXCEPT !.file = file, !.late = late]
               x == [w EXCEPT !.pc = "probe", !.probed = @ \cup {file}]
    <3>1. /\ Shape(w) /\ w.file = file /\ w.failure = e.failure /\ w.status = e.status
          /\ w.runs = e.runs /\ w.clock = e.clock /\ w.until = e.until
          /\ w.slack = e.slack
      BY <1>1 DEF Shape
    <3>2. Set(t, x) \/ NextCall(t, w)
      BY <2>2
    <3> HIDE DEF w
    <3>3. Working(w)
      BY <1>1, <3>1, StillWorking
    <3>4. /\ Shape(x) /\ x.file = w.file /\ x.failure = w.failure
          /\ x.status = w.status /\ x.runs = w.runs /\ x.clock = w.clock
          /\ x.until = w.until /\ x.slack = w.slack /\ x.pc = "probe"
      BY <3>1 DEF Shape
    <3> HIDE DEF x
    <3>5. Working(x)
      BY <3>1, <3>3, <3>4, StillWorking
    <3>6. EpisodeOK(x)
      BY <3>4, <3>5 DEF EpisodeOK, Generation
    <3> QED
      BY <3>2, <3>3, <3>6, NextCallMoves DEF Moves
  <2>3. \/ NextCall(t, e)
        \/ \E file \in Files, late \in {e.late, setup.faulty} :
             LET written == [e EXCEPT !.file = file, !.late = late]
             IN \/ Set(t, [written EXCEPT !.pc = "probe", !.probed = @ \cup {file}])
                \/ NextCall(t, written)
    BY <1>3 DEF ToolReturns
  <2> QED
    BY <2>1, <2>2, <2>3
<1> QED
  BY <1>2, <1>3

\* _grade: one execution of the verifier, and what it has published.
LEMMA GradingMoves ==
  ASSUME NEW t, EpisodeOK(ep[t]), setup \in Setups,
         \/ TestsUploaded(t) \/ VerifierPublishes(t) \/ VerifierEnds(t)
         \/ RewardRead(t)
  PROVE  Moves(t)
<1> DEFINE e == ep[t]
<1>1. Shape(e) /\ Verifying(e)
  BY Known DEF TestsUploaded, VerifierPublishes, VerifierEnds, RewardRead, Grading
<1>2. CASE TestsUploaded(t)
  <2> DEFINE y == [e EXCEPT !.runs = @ + 1, !.verdict = NoCheck]
             x == In(y, "verify", GRADE_TIMEOUT)
  <2>1. e.pc = "tests" /\ e.runs = 0 /\ InTime(e, "tests") /\ Set(t, x)
    BY <1>1, <1>2 DEF TestsUploaded, Verifying
  <2>2. /\ Shape(y) /\ y.runs = 1 /\ y.verdict = NoCheck /\ y.file = e.file
        /\ y.failure = e.failure /\ y.status = e.status /\ y.clock = e.clock
        /\ y.until = e.until /\ y.slack = e.slack
    BY <1>1, <2>1 DEF Shape
  <2> HIDE DEF y
  <2>3. InTime(y, "tests")
    BY <2>1, <2>2 DEF InTime
  <2>4. /\ Allowed("tests") + GRADE_TIMEOUT <= Allowed("verify")
        /\ Allowed("tests") \in Nat /\ Allowed("verify") \in Nat /\ GRADE_TIMEOUT \in Nat
    BY AllowedIs, Limits
  <2>5. Shape(x) /\ InTime(x, "verify")
    BY <2>2, <2>3, <2>4, PhaseInTime
  <2>6. /\ x.pc = "verify" /\ x.failure = y.failure /\ x.runs = y.runs
        /\ x.status = y.status /\ x.file = y.file /\ x.verdict = y.verdict
    BY <2>2 DEF Shape, In
  <2> HIDE DEF x
  <2>7. EpisodeOK(x)
    BY <1>1, <2>2, <2>5, <2>6 DEF EpisodeOK, Verifying, Grading
  <2> QED
    BY <2>1, <2>7 DEF Moves
<1>3. CASE VerifierPublishes(t)
  <2>1. setup.faulty \in BOOLEAN
    BY EpisodeAssumption DEF EpisodeAssumption, SetupType
  <2>2. PICK crash \in {FALSE, setup.faulty} :
          Set(t, [e EXCEPT !.verdict = Grade(Submission(e.file, crash)),
                           !.judged = e.file])
    BY <1>3 DEF VerifierPublishes
  <2> DEFINE v == Grade(Submission(e.file, crash))
             x == [e EXCEPT !.verdict = v, !.judged = e.file]
  <2>3. e.pc = "verify" /\ Set(t, x) /\ crash \in BOOLEAN
    BY <1>3, <2>1, <2>2 DEF VerifierPublishes
  <2>4. /\ Shape(x) /\ x.pc = e.pc /\ x.verdict = v /\ x.judged = e.file
        /\ x.file = e.file /\ x.failure = e.failure /\ x.status = e.status
        /\ x.runs = e.runs /\ x.clock = e.clock /\ x.until = e.until
        /\ x.slack = e.slack
    BY <1>1 DEF Shape
  <2> HIDE DEF x
  <2>5. Graded(x)
    BY <1>1, <2>3, <2>4 DEF Graded, Verifying
  <2>6. InTime(x, "verify")
    BY <1>1, <2>3, <2>4 DEF InTime, Verifying
  <2>7. EpisodeOK(x)
    BY <1>1, <2>3, <2>4, <2>5, <2>6 DEF EpisodeOK, Verifying, Grading
  <2> QED
    BY <2>3, <2>7 DEF Moves
<1>4. CASE VerifierEnds(t)
  <2> DEFINE x == In(e, "read", GRADE_REWARD_TIMEOUT)
  <2>1. e.pc = "verify" /\ e.runs = 1 /\ Graded(e) /\ InTime(e, "verify") /\ Set(t, x)
    BY <1>1, <1>4 DEF VerifierEnds, Verifying
  <2>2. /\ Allowed("verify") + GRADE_REWARD_TIMEOUT <= Allowed("read")
        /\ Allowed("verify") \in Nat /\ Allowed("read") \in Nat
        /\ GRADE_REWARD_TIMEOUT \in Nat
    BY AllowedIs, Limits
  <2>3. Shape(x) /\ InTime(x, "read")
    BY <1>1, <2>1, <2>2, PhaseInTime
  <2>4. /\ x.pc = "read" /\ x.failure = e.failure /\ x.runs = e.runs
        /\ x.status = e.status /\ x.file = e.file /\ x.verdict = e.verdict
        /\ x.judged = e.judged
    BY <1>1 DEF Shape, In
  <2> HIDE DEF x
  <2>5. Graded(x)
    BY <2>1, <2>4 DEF Graded
  <2>6. EpisodeOK(x)
    BY <1>1, <2>1, <2>3, <2>4, <2>5 DEF EpisodeOK, Verifying, Grading
  <2> QED
    BY <2>1, <2>6 DEF Moves
<1>5. CASE RewardRead(t)
  <2> DEFINE x == [Nobody EXCEPT !.pc = "close", !.stream = e.stream, !.box = e.box,
                     !.status = e.status, !.runs = e.runs, !.judged = e.judged,
                     !.verdict = e.verdict, !.reward = e.verdict["reward"]]
  <2>1. e.pc = "read" /\ e.runs = 1 /\ Graded(e) /\ e.status # "failed" /\ Set(t, x)
    BY <1>1, <1>5 DEF RewardRead, Verifying
  <2>2. /\ Shape(x) /\ x.pc = "close" /\ x.failure = "none" /\ x.runs = e.runs
        /\ x.status = e.status /\ x.verdict = e.verdict /\ x.judged = e.judged
        /\ x.reward = e.verdict["reward"]
    BY DEF Shape, Nobody
  <2> HIDE DEF x
  <2>3. Graded(x)
    BY <2>1, <2>2 DEF Graded
  <2>4. EpisodeOK(x)
    BY <2>1, <2>2, <2>3 DEF EpisodeOK, Scored
  <2> QED
    BY <2>1, <2>4 DEF Moves
<1> QED
  BY <1>2, <1>3, <1>4, <1>5

\* The timeout of the whole episode is beyond all that the phases may take.
LEMMA DeadlineOutOfReach ==
  ASSUME NEW t, EpisodeOK(ep[t])
  PROVE  ~EpisodeDeadlineFires(t)
<1> DEFINE e == ep[t]
<1> SUFFICES ASSUME e.pc \in Generation \cup Grading,
                    e.clock >= EffectiveEpisodeTimeout
             PROVE  FALSE
  BY DEF EpisodeDeadlineFires
<1> DEFINE most == GenerationTimeout + GRADE_UPLOAD_TIMEOUT + GRADE_TIMEOUT
                     + GRADE_REWARD_TIMEOUT
<1>1. \/ e.pc \in Generation /\ InTime(e, "model")
      \/ e.pc \in Grading /\ InTime(e, e.pc)
  BY Known DEF Working, Verifying
<1>2. most \in Nat /\ Allowed("model") <= most
  BY AllowedIs, Limits
<1>3. \A phase \in Grading : Allowed(phase) \in Nat /\ Allowed(phase) <= most
  BY AllowedIs, Limits DEF Grading
<1>4. /\ e.clock \in Nat /\ e.slack \in Nat /\ e.slack < SCHEDULING_MARGIN
      /\ e.clock <= most + e.slack
  BY <1>1, <1>2, <1>3, AllowedIs DEF InTime
<1>5. most + SCHEDULING_MARGIN <= EffectiveEpisodeTimeout
      /\ EffectiveEpisodeTimeout \in Nat
  BY Limits DEF EffectiveEpisodeTimeout
<1> QED
  BY <1>2, <1>4, <1>5, Limits

LEMMA AdvanceMoves ==
  ASSUME NEW t, EpisodeOK(ep[t]), setup \in Setups, Advance(t)
  PROVE  Moves(t)
BY BeforeTurns, SomethingFails, RetryMoves, TurnsMove, ToolsMove, GradingMoves,
   DeadlineOutOfReach DEF Advance

\* The end of generate.
LEMMA ClosingMoves ==
  ASSUME NEW t, EpisodeOK(ep[t]), Closed(t) \/ ClosedCancelled(t)
  PROVE  Moves(t)
<1> DEFINE e == ep[t]
<1>1. /\ Shape(e) /\ e.pc = "close"
      /\ Scored(e) \/ (Failed(e) /\ e.failure # "none" /\ e.status = "none")
  BY Known DEF Closed, ClosedCancelled
<1>2. CASE Closed(t)
  <2>1. PICK box : Set(t, Marked([e EXCEPT !.pc = "done", !.box = box]))
    BY <1>2 DEF Closed
  <2> DEFINE y == [e EXCEPT !.pc = "done", !.box = box]
             x == [y EXCEPT !.stream = Unstarted, !.status = "failed", !.reward = 0]
  <2>2. /\ Shape(y) /\ y.pc = "done" /\ y.failure = e.failure
        /\ y.status = e.status /\ y.runs = e.runs /\ y.verdict = e.verdict
        /\ y.judged = e.judged /\ y.reward = e.reward
    BY <1>1 DEF Shape
  <2>3. Set(t, Marked(y))
    BY <2>1
  <2> HIDE DEF y
  <2>4. CASE Scored(e)
    <3>1. Graded(y)
      BY <2>2, <2>4 DEF Graded, Scored
    <3>2. EpisodeOK(y)
      BY <2>2, <2>4, <3>1 DEF EpisodeOK, Scored
    <3>3. Marked(y) = y
      BY <2>2, <2>4 DEF Marked, Scored
    <3> QED
      BY <2>3, <3>2, <3>3 DEF Moves
  <2>5. CASE Failed(e) /\ e.failure # "none"
    <3>1. /\ Shape(x) /\ x.pc = y.pc /\ x.failure = y.failure /\ x.runs = y.runs
          /\ x.stream = Unstarted /\ x.status = "failed" /\ x.reward = 0
      BY <2>2 DEF Shape
    <3>2. Marked(y) = x
      BY <2>2, <2>5 DEF Marked
    <3> HIDE DEF x
    <3>3. EpisodeOK(x)
      BY <2>2, <2>5, <3>1 DEF EpisodeOK, Failed
    <3> QED
      BY <2>3, <3>2, <3>3 DEF Moves
  <2> QED
    BY <1>1, <2>4, <2>5
<1>3. CASE ClosedCancelled(t)
  <2> DEFINE x == [e EXCEPT !.pc = "gone", !.box = "killed"]
  <2>1. Set(t, x)
    BY <1>3 DEF ClosedCancelled
  <2>2. /\ Shape(x) /\ x.pc = "gone" /\ x.failure = e.failure
        /\ x.status = e.status /\ x.runs = e.runs
    BY <1>1 DEF Shape
  <2> HIDE DEF x
  <2>3. EpisodeOK(x)
    BY <1>1, <2>2 DEF EpisodeOK, Scored, Failed
  <2> QED
    BY <2>1, <2>3 DEF Moves
<1> QED
  BY <1>2, <1>3

\* The clock, a command that is still running, and the provider.
LEMMA EnvironmentMoves ==
  ASSUME NEW t, EpisodeOK(ep[t]), Environment(t)
  PROVE  Moves(t)
<1> DEFINE e == ep[t]
<1>1. Shape(e)
  BY Known
<1>2. CASE Tick(t)
  <2>1. PICK late \in {0, 1} :
          /\ e.pc \in Generation \cup Grading
          /\ Set(t, [e EXCEPT !.clock = @ + 1, !.slack = @ + late])
          /\ \/ late = 0 /\ e.clock < e.until
             \/ late = 1 /\ e.slack + 1 < SCHEDULING_MARGIN
    <3>1. \/ e.pc \in Generation /\ InTime(e, "model")
          \/ e.pc \in Grading /\ InTime(e, e.pc)
      BY <1>2, Known DEF Tick, Working, Verifying
    <3>2. e.slack \in Nat
      BY <3>1 DEF InTime
    <3>3. [e EXCEPT !.clock = e.clock + 1]
            = [e EXCEPT !.clock = e.clock + 1, !.slack = e.slack]
      BY <1>1 DEF Shape
    <3>4. e.slack + 0 = e.slack
      BY <3>2
    <3>5. CASE e.clock < e.until /\ Set(t, [e EXCEPT !.clock = e.clock + 1])
      <4>1. Set(t, [e EXCEPT !.clock = e.clock + 1, !.slack = e.slack + 0])
        BY <3>3, <3>4, <3>5
      <4> QED
        BY <1>2, <3>5, <4>1 DEF Tick
    <3>6. CASE /\ e.slack + 1 < SCHEDULING_MARGIN
               /\ Set(t, [e EXCEPT !.clock = e.clock + 1, !.slack = e.slack + 1])
      BY <1>2, <3>6 DEF Tick
    <3> QED
      BY <1>2, <3>5, <3>6 DEF Tick
  <2> DEFINE x == [e EXCEPT !.clock = @ + 1, !.slack = @ + late]
  <2>2. /\ Shape(x) /\ x.pc = e.pc /\ x.clock = e.clock + 1 /\ x.until = e.until
        /\ x.slack = e.slack + late /\ x.file = e.file /\ x.failure = e.failure
        /\ x.status = e.status /\ x.runs = e.runs /\ x.verdict = e.verdict
        /\ x.judged = e.judged
    BY <1>1 DEF Shape
  <2>3. Set(t, x)
    BY <2>1
  <2> HIDE DEF x
  <2>4. ASSUME NEW phase, InTime(e, phase), Allowed(phase) \in Nat
        PROVE  InTime(x, phase)
    BY <2>1, <2>2, <2>4, Limits DEF InTime
  <2>5. CASE e.pc \in Generation
    <3>1. Working(x)
      BY <2>2, <2>4, <2>5, Known, AllowedIs DEF Working
    <3> QED
      BY <2>2, <2>3, <2>5, <3>1 DEF Moves, EpisodeOK
  <2>6. CASE e.pc \in Grading
    <3>1. Verifying(e)
      BY <2>6, Known
    <3>2. InTime(x, x.pc)
      BY <2>2, <2>4, <2>6, <3>1, AllowedIs DEF Verifying, Grading
    <3>3. Graded(e) => Graded(x)
      BY <2>2 DEF Graded
    <3>4. Verifying(x)
      BY <2>2, <3>1, <3>2, <3>3 DEF Verifying
    <3> QED
      BY <2>2, <2>3, <2>6, <3>4 DEF Moves, EpisodeOK
  <2> QED
    BY <2>1, <2>5, <2>6
<1>3. ASSUME NEW x, Set(t, x), Shape(x), x.pc = e.pc, x.file \in Files,
             x.stream = e.stream, x.failure = e.failure, x.status = e.status,
             x.runs = e.runs, x.verdict = e.verdict, x.judged = e.judged,
             x.reward = e.reward, x.clock = e.clock, x.until = e.until,
             x.slack = e.slack, e.pc \notin {"queued", "permit", "create"}
      PROVE  Moves(t)
  <2>1. Working(e) => Working(x)
    BY <1>3, StillWorking
  <2>2. Graded(e) => Graded(x)
    BY <1>3 DEF Graded
  <2>3. Verifying(e) => Verifying(x)
    BY <1>3, <2>2 DEF Verifying, InTime
  <2>4. Scored(e) => Scored(x)
    BY <1>3, <2>2 DEF Scored
  <2>5. Failed(e) => Failed(x)
    BY <1>3 DEF Failed
  <2>6. EpisodeOK(x)
    BY <1>3, <2>1, <2>3, <2>4, <2>5 DEF EpisodeOK
  <2> QED
    BY <1>3, <2>6 DEF Moves
<1>4. CASE LateWrite(t)
  <2>1. PICK file \in Files : Set(t, [e EXCEPT !.file = file, !.late = FALSE])
    BY <1>4 DEF LateWrite
  <2> DEFINE x == [e EXCEPT !.file = file, !.late = FALSE]
  <2>2. /\ Shape(x) /\ x.pc = e.pc /\ x.file = file /\ x.stream = e.stream
        /\ x.failure = e.failure /\ x.status = e.status /\ x.runs = e.runs
        /\ x.verdict = e.verdict /\ x.judged = e.judged /\ x.reward = e.reward
        /\ x.clock = e.clock /\ x.until = e.until /\ x.slack = e.slack
    BY <1>1 DEF Shape
  <2>3. e.pc \notin {"queued", "permit", "create"}
    <3>1. Unborn(e) => ~e.late
      BY DEF Unborn, Nobody
    <3> QED
      BY <1>4, <3>1, Known DEF LateWrite
  <2>4. Set(t, x)
    BY <2>1
  <2> HIDE DEF x
  <2> QED
    BY <1>3, <2>2, <2>3, <2>4
<1>5. CASE SandboxLost(t)
  <2> DEFINE x == [e EXCEPT !.box = "lost"]
  <2>1. Set(t, x) /\ e.pc \in Generation \cup Grading
    BY <1>5 DEF SandboxLost
  <2>2. /\ Shape(x) /\ x.pc = e.pc /\ x.file = e.file /\ x.stream = e.stream
        /\ x.failure = e.failure /\ x.status = e.status /\ x.runs = e.runs
        /\ x.verdict = e.verdict /\ x.judged = e.judged /\ x.reward = e.reward
        /\ x.clock = e.clock /\ x.until = e.until /\ x.slack = e.slack
    BY <1>1 DEF Shape
  <2>3. e.file \in Files
    BY <2>1, Known DEF Working, Verifying
  <2> HIDE DEF x
  <2> QED
    BY <1>3, <2>1, <2>2, <2>3 DEF Generation, Grading
<1> QED
  BY <1>2, <1>4, <1>5 DEF Environment
-----------------------------------------------------------------------------
(***************************************************************************)
(* The evaluation.                                                         *)
(***************************************************************************)

LEMMA CancelledOK ==
  ASSUME NEW e, EpisodeOK(e), NEW allocated
  PROVE  EpisodeOK(CancelledAt(e, allocated))
<1>1. ASSUME NEW x, Shape(x), x.pc = "gone", x.status = e.status, x.runs = e.runs,
             x.failure = e.failure, e.pc \in {"queued", "permit", "create", "close"}
      PROVE  EpisodeOK(x)
  <2>1. Unborn(e) => e.status = "none" /\ e.runs = 0 /\ e.failure = "none"
    BY DEF Unborn, Nobody
  <2> QED
    BY <1>1, <2>1, Known DEF EpisodeOK, Scored, Failed
<1>2. CASE e.pc \in {"queued", "permit", "create"}
  <2> DEFINE x == [e EXCEPT !.pc = "gone"]
  <2>1. /\ Shape(x) /\ x.pc = "gone" /\ x.status = e.status /\ x.runs = e.runs
        /\ x.failure = e.failure
    BY Known DEF Shape
  <2>2. \/ CancelledAt(e, allocated) = x
        \/ CancelledAt(e, allocated) = Fail([e EXCEPT !.box = "live"], "cancelled")
    BY <1>2 DEF CancelledAt, Generation, Grading
  <2> HIDE DEF x
  <2> QED
    BY <1>1, <1>2, <2>1, <2>2, FailOK
<1>3. CASE e.pc \in Generation \cup Grading
  <2>1. CancelledAt(e, allocated) = Fail(e, "cancelled")
    BY <1>3 DEF CancelledAt, Generation, Grading
  <2> QED
    BY <2>1, FailOK
<1>4. CASE e.pc = "close"
  <2> DEFINE x == [e EXCEPT !.pc = "gone", !.box = "abandoned"]
  <2>1. /\ Shape(x) /\ x.pc = "gone" /\ x.status = e.status /\ x.runs = e.runs
        /\ x.failure = e.failure
    BY Known DEF Shape
  <2>2. CancelledAt(e, allocated) = x
    BY <1>4 DEF CancelledAt, Generation, Grading
  <2> HIDE DEF x
  <2> QED
    BY <1>1, <1>4, <2>1, <2>2
<1>5. CASE e.pc \in {"done", "gone"}
  <2>1. CancelledAt(e, allocated) = e
    BY <1>5 DEF CancelledAt, Generation, Grading
  <2> QED
    BY <2>1
<1> QED
  BY <1>2, <1>3, <1>4, <1>5 DEF EpisodeOK

LEMMA CancelAllKeeps ==
  ASSUME EpisodesOK, CancelAll
  PROVE  EpisodesOK'
<1>1. PICK allocated :
        ep' = [t \in Trials |-> IF t \in DOMAIN setup.plan
                                THEN CancelledAt(ep[t], t \in allocated) ELSE ep[t]]
  BY DEF CancelAll
<1>2. ASSUME NEW t \in Trials
      PROVE  EpisodeOK(ep'[t])
  <2>1. EpisodeOK(ep[t])
    BY DEF EpisodesOK
  <2>2. ep'[t] = CancelledAt(ep[t], t \in allocated) \/ ep'[t] = ep[t]
    BY <1>1
  <2> QED
    BY <2>1, <2>2, CancelledOK
<1>3. ep' = [t \in Trials |-> ep'[t]]
  BY <1>1
<1> QED
  BY <1>2, <1>3 DEF EpisodesOK

Order == setup \in Setups /\ EpisodesOK

\* At each await of each episode all that is known of it there is true: what
\* has run and may still run of the verifier, and how much of the time of the
\* whole episode can have gone.
THEOREM EpisodesInOrder == Spec => []Order
<1>1. Init => Order
  <2> SUFFICES ASSUME Init PROVE Order
    OBVIOUS
  <2>1. ep = [t \in Trials |-> ep[t]] /\ \A t \in Trials : ep[t] = Nobody
    BY DEF Init
  <2> QED
    BY <2>1, NobodyOK DEF Init, Order, EpisodesOK
<1>2. Order /\ [Next]_vars => Order'
  <2> SUFFICES ASSUME Order, [Next]_vars PROVE Order'
    OBVIOUS
  <2>1. CASE UNCHANGED episodeVars
    BY <2>1 DEF Order, EpisodesOK, episodeVars
  <2>2. CASE CancelAll
    BY <2>2, CancelAllKeeps DEF Order, CancelAll
  <2>3. ASSUME NEW t \in Trials, Moves(t), setup' = setup
        PROVE  Order'
    BY <2>3, MovesKeep DEF Order
  <2>4. CASE \E t \in Trials : Trial(t)
    <3>1. PICK t \in Trials : Trial(t)
      BY <2>4
    <3>2. EpisodeOK(ep[t]) /\ setup \in Setups
      BY DEF Order, EpisodesOK
    <3>3. setup' = setup
      <4>1. CASE Advance(t)
        BY <4>1 DEF Advance, GetPermit, Created, TaskUploaded, UploadRetried,
             UploadFails, SurfaceReady, SurfaceFails, Replied, RouterFails,
             ToolReturns, ToolRaises, Probed, TestsUploaded, VerifierPublishes,
             VerifierEnds, VerifierFails, ReadRetried, ReadFails, RewardRead,
             DeadlineFires, EpisodeDeadlineFires
      <4> QED
        BY <3>1, <4>1 DEF Trial, Admit, Finish, FinishCancelled, Begin, BadTask,
                          CreateFails, Closed, ClosedCancelled
    <3>4. Moves(t)
      BY <3>1, <3>2, AdvanceMoves, BeforeTurns, ClosingMoves
         DEF Trial, Admit, Finish, FinishCancelled
    <3> QED
      BY <2>3, <3>3, <3>4
  <2>5. CASE \E t \in Trials : Environment(t)
    <3>1. PICK t \in Trials : Environment(t)
      BY <2>5
    <3>2. Moves(t)
      BY <3>1, EnvironmentMoves DEF Order, EpisodesOK
    <3>3. setup' = setup
      BY <3>1 DEF Environment, Tick, LateWrite, SandboxLost
    <3> QED
      BY <2>3, <3>2, <3>3
  <2>6. CASE UNCHANGED vars
    BY <2>1, <2>6 DEF vars, episodeVars
  <2>7. CASE Main \/ Interrupt
    BY <2>1, <2>2, <2>7 DEF Main, Interrupt, Evaluate, Abort, AbortInterrupted,
                            Cleaned, Gathered
  <2> QED
    BY <2>4, <2>5, <2>6, <2>7 DEF Next
<1> QED
  BY <1>1, <1>2, PTL DEF Spec

\* A sample that is not marked as failed has the verdict of the one execution
\* of the verifier, only a proof is rewarded, and a failed one carries nothing
\* to train on: for any number of trials, any limits and any setups.
THEOREM OneVerdict == Spec => []ScoreIsVerdict
<1>1. Order => ScoreIsVerdict
  <2> SUFFICES ASSUME Order, NEW t \in Trials
               PROVE  LET e == ep[t]
                      IN /\ e.runs <= 1
                         /\ (e.pc = "done" /\ e.status # "failed")
                              => /\ e.runs = 1 /\ e.failure = "none"
                                 /\ e.reward = e.verdict["reward"]
                                 /\ e.reward = 1 => e.judged = "proof"
                         /\ e.status = "failed" => (e.stream = Unstarted /\ e.reward = 0)
    BY DEF ScoreIsVerdict
  <2> DEFINE e == ep[t]
  <2>1. EpisodeOK(e)
    BY DEF Order, EpisodesOK
  <2>2. Unborn(e) => e.runs = 0 /\ e.status = "none"
    BY DEF Unborn, Nobody
  <2>3. e.runs \in {0, 1}
    BY <2>1, <2>2 DEF EpisodeOK, Working, Verifying, Scored, Failed
  <2>4. ASSUME e.pc = "done", e.status # "failed"
        PROVE  /\ e.runs = 1 /\ e.failure = "none"
               /\ e.reward = e.verdict["reward"]
               /\ e.reward = 1 => e.judged = "proof"
    <3>1. Scored(e)
      BY <2>1, <2>4 DEF EpisodeOK, Generation, Grading
    <3> QED
      BY <3>1, ProofRewarded DEF Scored, Graded
  <2>5. e.status = "failed" => (e.stream = Unstarted /\ e.reward = 0)
    BY <2>1, <2>2 DEF EpisodeOK, Working, Verifying, Scored
  <2> QED
    BY <2>3, <2>4, <2>5
<1> QED
  BY <1>1, EpisodesInOrder, PTL

\* The verification keeps its reserve, whatever EPISODE_TIMEOUT and the limits
\* of the phases are set to.
THEOREM VerifierKeepsReserve == Spec => []ReserveKept
<1>1. Order => ReserveKept
  <2> SUFFICES ASSUME Order, NEW t \in Trials
               PROVE  ep[t].failure # "EpisodeTimeout"
    BY DEF ReserveKept
  <2> DEFINE e == ep[t]
  <2>1. EpisodeOK(e)
    BY DEF Order, EpisodesOK
  <2>2. Unborn(e) => e.failure = "none"
    BY DEF Unborn, Nobody
  <2> QED
    BY <2>1, <2>2 DEF EpisodeOK, Working, Verifying, Scored, Failed
<1> QED
  BY <1>1, EpisodesInOrder, PTL
-----------------------------------------------------------------------------
(***************************************************************************)
(* The token stream.                                                       *)
(***************************************************************************)
Kinds == {"prompt", "text", "end", "closing", "injected"}
Closing == {"injected", "end", "closing"}

\* Mask and logprobs cover the response, exactly the sampled tokens are
\* trained, and only a closed turn is followed by what the model did not say.
Exact(s) ==
  /\ s.tokens \in Seq(Kinds) /\ s.mask \in Seq({0, 1})
  /\ Len(s.tokens) = Len(s.mask) + 1 /\ s.logprobs = Len(s.mask)
  /\ \A k \in 1..Len(s.mask) : s.mask[k] = 1 <=> s.tokens[k + 1] \in Sampled
  /\ \A k \in 1..Len(s.mask) :
       s.tokens[k + 1] = "injected" => s.tokens[k] \in Closing

Last(s) == s.tokens[Len(s.tokens)]
Fits(s) == Exact(s) /\ Len(s.tokens) <= setup.total

\* What is known of an episode's stream at the await it is in.
StreamAt(e) ==
  /\ e.failure # "invariant"
  /\ e.pc = "upload" => e.stream = Unstarted
  /\ e.pc \in (Generation \ {"upload"}) \cup Grading => Fits(e.stream)
  /\ e.pc = "model" => Remaining(e) > 1
  /\ e.pc \in {"tool", "probe"} => Last(e.stream) \in Closing
  /\ e.pc \in {"close", "done"} /\ e.failure = "none" => Fits(e.stream)

Streams(t) == \E x : StreamAt(x) /\ Set(t, x)

LEMMA ConcatIs ==
  ASSUME NEW S, NEW u \in Seq(S), NEW v \in Seq(S)
  PROVE  /\ u \o v \in Seq(S) /\ Len(u \o v) = Len(u) + Len(v)
         /\ Len(u) \in Nat /\ Len(v) \in Nat
         /\ \A k \in 1..Len(u) : (u \o v)[k] = u[k]
         /\ \A k \in 1..Len(v) : (u \o v)[Len(u) + k] = v[k]
OBVIOUS

\* Tokens of one origin are added at the end.
LEMMA ExtendedExact ==
  ASSUME NEW s, Exact(s), NEW new \in Seq(Kinds), Len(new) > 0, NEW bit \in {0, 1},
         \A k \in 1..Len(new) : bit = 1 <=> new[k] \in Sampled,
         \A k \in 1..Len(new) : new[k] = "injected"
             => /\ Last(s) \in Closing
                /\ \A j \in 1..Len(new) : new[j] = "injected"
  PROVE  LET x == Extended(s, new, bit)
         IN /\ Exact(x) /\ Len(x.tokens) = Len(s.tokens) + Len(new)
            /\ Last(x) = new[Len(new)]
<1> DEFINE x == Extended(s, new, bit)
           bits == [k \in 1..Len(new) |-> bit]
           n == Len(s.mask)
           m == Len(new)
<1>1. /\ bits \in Seq({0, 1}) /\ Len(bits) = m /\ m \in Nat /\ n \in Nat
      /\ Len(s.tokens) = n + 1 /\ \A k \in 1..m : bits[k] = bit
      /\ s.tokens \in Seq(Kinds) /\ s.mask \in Seq({0, 1})
      /\ n = Len(s.mask) /\ m = Len(new) /\ s.logprobs = n
  BY DEF Exact
<1>2. /\ x.tokens = s.tokens \o new /\ x.mask = s.mask \o bits
      /\ x.logprobs = s.logprobs + m
  BY DEF Extended
<1> HIDE DEF x, bits, n, m
<1>3. n \in Nat /\ m \in Nat
  BY <1>1
<1>4. /\ x.tokens \in Seq(Kinds) /\ Len(x.tokens) = n + 1 + m
      /\ x.mask \in Seq({0, 1}) /\ Len(x.mask) = n + m
      /\ \A k \in 1..(n + 1) : x.tokens[k] = s.tokens[k]
      /\ \A k \in 1..m : x.tokens[n + 1 + k] = new[k]
      /\ \A k \in 1..n : x.mask[k] = s.mask[k]
      /\ \A k \in 1..m : x.mask[n + k] = bit
  <2>1. /\ x.tokens \in Seq(Kinds) /\ Len(x.tokens) = Len(s.tokens) + Len(new)
        /\ \A k \in 1..Len(s.tokens) : x.tokens[k] = s.tokens[k]
        /\ \A k \in 1..Len(new) : x.tokens[Len(s.tokens) + k] = new[k]
    <3>1. s.tokens \in Seq(Kinds) /\ new \in Seq(Kinds) /\ x.tokens = s.tokens \o new
      BY <1>1, <1>2
    <3> QED
      BY <3>1, ConcatIs
  <2>2. /\ x.mask \in Seq({0, 1}) /\ Len(x.mask) = Len(s.mask) + Len(bits)
        /\ \A k \in 1..Len(s.mask) : x.mask[k] = s.mask[k]
        /\ \A k \in 1..Len(bits) : x.mask[Len(s.mask) + k] = bits[k]
    <3>1. s.mask \in Seq({0, 1}) /\ bits \in Seq({0, 1}) /\ x.mask = s.mask \o bits
      BY <1>1, <1>2
    <3> QED
      BY <3>1, ConcatIs
  <2> QED
    BY <1>1, <2>1, <2>2
<1>5. ASSUME NEW k \in 1..(n + m)
      PROVE  /\ x.mask[k] = 1 <=> x.tokens[k + 1] \in Sampled
             /\ x.tokens[k + 1] = "injected" => x.tokens[k] \in Closing
  <2>1. CASE k <= n
    <3>1. k \in 1..n /\ k + 1 \in 1..(n + 1) /\ k \in 1..(n + 1)
      BY <1>1, <2>1
    <3> QED
      BY <1>1, <1>4, <3>1 DEF Exact
  <2>2. CASE k > n
    <3> DEFINE j == k - n
    <3>1. j \in 1..m /\ k = n + j /\ k + 1 = n + 1 + j
      BY <1>3, <2>2
    <3>2. x.mask[k] = bit /\ x.tokens[k + 1] = new[j]
      BY <1>4, <3>1
    <3>3. ASSUME new[j] = "injected" PROVE x.tokens[k] \in Closing
      <4>1. CASE j = 1
        <5>1. k = n + 1 /\ k \in 1..(n + 1)
          BY <1>1, <3>1, <4>1
        <5>2. x.tokens[k] = Last(s)
          BY <1>1, <1>4, <5>1 DEF Last
        <5> QED
          BY <1>1, <3>1, <3>3, <5>2
      <4>2. CASE j > 1
        <5>1. j - 1 \in 1..m /\ k = n + 1 + (j - 1)
          BY <1>3, <3>1, <4>2
        <5>2. x.tokens[k] = new[j - 1]
          BY <1>4, <5>1
        <5> QED
          BY <1>1, <3>1, <3>3, <5>1, <5>2 DEF Closing
      <4> QED
        BY <3>1, <4>1, <4>2
    <3> QED
      BY <1>1, <3>1, <3>2, <3>3
  <2> QED
    BY <1>1, <2>1, <2>2
<1>6. Exact(x)
  <2>1. /\ Len(x.tokens) = Len(x.mask) + 1 /\ x.logprobs = Len(x.mask)
        /\ 1..Len(x.mask) = 1..(n + m)
    BY <1>1, <1>2, <1>4
  <2> QED
    BY <1>4, <1>5, <2>1 DEF Exact
<1>7. Last(x) = new[m]
  <2>1. n + 1 + m = Len(x.tokens) /\ m \in 1..m
    BY <1>1, <1>4
  <2> QED
    BY <1>4, <2>1 DEF Last
<1> QED
  BY <1>1, <1>4, <1>6, <1>7 DEF x

LEMMA TotalIs ==
  ASSUME setup \in Setups
  PROVE  setup.total \in Nat /\ setup.reply \in Nat
BY EpisodeAssumption DEF EpisodeAssumption, SetupType

\* An answer to a turn that fits, after the turn was closed.
LEMMA InjectedFits ==
  ASSUME setup \in Setups, NEW s, Fits(s), Last(s) \in Closing,
         NEW n \in 1..2, n <= setup.total - Len(s.tokens)
  PROVE  Fits(Extended(s, [k \in 1..n |-> "injected"], 0))
<1> DEFINE new == [k \in 1..n |-> "injected"]
           x == Extended(s, new, 0)
<1>1. /\ new \in Seq(Kinds) /\ Len(new) = n
      /\ \A k \in 1..Len(new) : new[k] = "injected"
  BY DEF Kinds
<1> HIDE DEF new
<1>2. \A k \in 1..Len(new) : 0 = 1 <=> new[k] \in Sampled
  BY <1>1 DEF Sampled
<1>3. Exact(x) /\ Len(x.tokens) = Len(s.tokens) + Len(new)
  BY <1>1, <1>2, ExtendedExact DEF Fits
<1> HIDE DEF x
<1>4. Len(s.tokens) \in Nat
  BY DEF Fits, Exact
<1>5. Fits(x)
  BY <1>1, <1>3, <1>4, TotalIs DEF Fits
<1> QED
  BY <1>5 DEF x, new

\* A reply of so many tokens, and the token that closes it.
LEMMA ReplyFits ==
  ASSUME setup \in Setups, NEW s, Fits(s), NEW limit \in Nat,
         limit < setup.total - Len(s.tokens), NEW r \in Replies(limit)
  PROVE  LET c == ClosedTurn(Extended(s, r.tokens, 1))
         IN Fits(c) /\ Last(c) \in Closing
<1> DEFINE y == Extended(s, r.tokens, 1)
           new == <<"closing">>
           z == Extended(y, new, 0)
<1>1. PICK n \in 1..limit, ends \in BOOLEAN :
        r.tokens = [k \in 1..n |-> IF ends /\ k = n THEN "end" ELSE "text"]
  <2>1. r \in Said(limit)
    BY DEF Replies
  <2>2. PICK n \in 1..limit, ends \in BOOLEAN, cut \in BOOLEAN :
          r = [tokens |-> [k \in 1..n |-> IF ends /\ k = n THEN "end" ELSE "text"],
               cut |-> cut]
    BY <2>1 DEF Said
  <2>3. r.tokens = [k \in 1..n |-> IF ends /\ k = n THEN "end" ELSE "text"]
    BY <2>2
  <2> QED
    BY <2>3
<1>2. /\ r.tokens \in Seq(Kinds) /\ Len(r.tokens) = n
      /\ \A k \in 1..n : r.tokens[k] \in Sampled /\ r.tokens[k] # "injected"
  BY <1>1 DEF Kinds, Sampled
<1>3. Exact(s) /\ Len(s.tokens) \in Nat /\ n \in Nat /\ n > 0 /\ n <= limit
  BY DEF Fits, Exact
<1>4. Exact(y) /\ Len(y.tokens) = Len(s.tokens) + n
  BY <1>2, <1>3, ExtendedExact
<1> HIDE DEF y
<1>5. Len(y.tokens) + 1 <= setup.total /\ Len(y.tokens) \in Nat
  BY <1>3, <1>4, TotalIs
<1>6. new \in Seq(Kinds) /\ Len(new) = 1 /\ new[1] = "closing"
  BY DEF Kinds
<1> HIDE DEF new
<1>7. /\ Exact(z) /\ Len(z.tokens) = Len(y.tokens) + 1
      /\ Last(z) = "closing"
  <2>1. /\ \A k \in 1..Len(new) : 0 = 1 <=> new[k] \in Sampled
        /\ \A k \in 1..Len(new) : new[k] = "injected"
             => /\ Last(y) \in Closing
                /\ \A j \in 1..Len(new) : new[j] = "injected"
        /\ new \in Seq(Kinds) /\ Len(new) > 0
    BY <1>6 DEF Sampled
  <2>2. Exact(z) /\ Len(z.tokens) = Len(y.tokens) + Len(new) /\ Last(z) = new[Len(new)]
    BY <1>4, <2>1, ExtendedExact
  <2> QED
    BY <1>6, <2>2
<1> HIDE DEF z
<1>8. Fits(z) /\ Last(z) \in Closing
  BY <1>5, <1>7 DEF Fits, Closing
<1>9. Last(y) = "end" => Fits(y) /\ Last(y) \in Closing
  BY <1>4, <1>5, TotalIs DEF Fits, Closing
<1>10. ClosedTurn(y) = IF Last(y) = "end" THEN y ELSE z
  BY DEF ClosedTurn, Last, z, new
<1> QED
  BY <1>8, <1>9, <1>10 DEF y

\* The checks at the end of the loop hold, and the stream goes on to _grade.
LEMMA StoppedStreams ==
  ASSUME setup \in Setups, NEW t, NEW e, Shape(e), Fits(e.stream),
         e.failure # "invariant", NEW status, Set(t, Stopped(e, status))
  PROVE  Streams(t)
<1> DEFINE x == In([e EXCEPT !.status = status], "tests", GRADE_UPLOAD_TIMEOUT)
<1>1. Validated(e)
  BY TotalIs DEF Validated, Fits, Exact, Prompt
<1>2. Stopped(e, status) = x
  BY <1>1 DEF Stopped
<1>3. x.pc = "tests" /\ x.stream = e.stream /\ x.failure = e.failure
  BY DEF In, Shape
<1> HIDE DEF x
<1>4. StreamAt(x)
  BY <1>3 DEF StreamAt, Generation
<1> QED
  BY <1>2, <1>4 DEF Streams

LEMMA LoopTopStreams ==
  ASSUME setup \in Setups, NEW t, NEW e, Shape(e), Fits(e.stream),
         e.failure # "invariant", LoopTop(t, e)
  PROVE  Streams(t)
<1> DEFINE y == [e EXCEPT !.turn = @ + 1]
           x == [e EXCEPT !.turn = @ + 1, !.pc = "model"]
<1>1. Shape(y) /\ y.stream = e.stream /\ y.failure = e.failure
  BY DEF Shape
<1>2. x.stream = e.stream /\ x.failure = e.failure /\ x.pc = "model"
  BY DEF Shape
<1>3. \/ Set(t, Stopped(e, "truncated")) \/ Set(t, Stopped(y, "truncated"))
      \/ Set(t, x) /\ Remaining(e) > 1
  BY DEF LoopTop
<1> HIDE DEF x, y
<1>4. CASE Set(t, x) /\ Remaining(e) > 1
  <2>1. Remaining(x) = Remaining(e)
    BY <1>2 DEF Remaining
  <2>2. StreamAt(x)
    BY <1>2, <1>4, <2>1 DEF StreamAt, Generation, Grading
  <2> QED
    BY <1>4, <2>2 DEF Streams
<1> QED
  BY <1>1, <1>3, <1>4, StoppedStreams

LEMMA FollowUpStreams ==
  ASSUME setup \in Setups, NEW t, NEW e, Shape(e), Fits(e.stream),
         Last(e.stream) \in Closing, e.failure # "invariant", FollowUp(t, e)
  PROVE  Streams(t)
<1>1. PICK n \in 1..2 :
        \/ Set(t, Stopped(e, "truncated"))
        \/ /\ n <= Remaining(e)
           /\ LoopTop(t, [e EXCEPT !.stream =
                            Extended(@, [k \in 1..n |-> "injected"], 0)])
  BY DEF FollowUp
<1> DEFINE s == Extended(e.stream, [k \in 1..n |-> "injected"], 0)
           x == [e EXCEPT !.stream = s]
<1>2. n <= Remaining(e) => Fits(s)
  BY InjectedFits DEF Remaining
<1> HIDE DEF s
<1>3. Shape(x) /\ x.stream = s /\ x.failure = e.failure
  BY DEF Shape
<1>4. Set(t, Stopped(e, "truncated")) \/ (n <= Remaining(e) /\ LoopTop(t, x))
  BY <1>1 DEF s
<1> HIDE DEF x
<1> QED
  BY <1>2, <1>3, <1>4, StoppedStreams, LoopTopStreams

LEMMA NextCallStreams ==
  ASSUME setup \in Setups, NEW t, NEW e, Shape(e), Fits(e.stream),
         Last(e.stream) \in Closing, e.failure # "invariant", NextCall(t, e)
  PROVE  Streams(t)
<1> DEFINE x == [e EXCEPT !.pc = "tool", !.calls = @ - 1]
<1>1. x.stream = e.stream /\ x.failure = e.failure /\ x.pc = "tool"
  BY DEF Shape
<1>2. FollowUp(t, e) \/ Set(t, Stopped(e, "truncated")) \/ Set(t, x)
  BY DEF NextCall
<1> HIDE DEF x
<1>3. StreamAt(x)
  BY <1>1 DEF StreamAt, Generation
<1> QED
  BY <1>2, <1>3, FollowUpStreams, StoppedStreams DEF Streams

LEMMA FailStreams ==
  ASSUME NEW t, NEW e, NEW why, why \notin {"none", "invariant"},
         Set(t, Fail(e, why))
  PROVE  Streams(t)
<1> DEFINE x == Fail(e, why)
<1>1. x.pc = "close" /\ x.failure = why
  BY DEF Fail, Nobody
<1> HIDE DEF x
<1>2. StreamAt(x)
  BY <1>1 DEF StreamAt, Generation, Grading
<1> QED
  BY <1>2 DEF Streams, x

\* A step that leaves the await, the stream and the failure as they are.
LEMMA SameStreams ==
  ASSUME NEW t, StreamAt(ep[t]), NEW x, Set(t, x), x.pc = ep[t].pc,
         x.stream = ep[t].stream, x.failure = ep[t].failure
  PROVE  Streams(t)
BY DEF Streams, StreamAt, Remaining

LEMMA BeforeTurnsStreams ==
  ASSUME NEW t, EpisodeOK(ep[t]), StreamAt(ep[t]),
         \/ BadTask(t) \/ Begin(t) \/ GetPermit(t) \/ CreateFails(t) \/ Created(t)
         \/ TaskUploaded(t) /\ setup \in Setups /\ setup.total > 0
  PROVE  Streams(t)
<1> DEFINE e == ep[t]
<1>1. Shape(e)
  BY Known
<1>2. ASSUME NEW pc \in {"permit", "create"}, Set(t, [e EXCEPT !.pc = pc])
      PROVE  Streams(t)
  <2> DEFINE x == [e EXCEPT !.pc = pc]
  <2>1. x.pc = pc /\ x.failure = e.failure
    BY <1>1 DEF Shape
  <2>2. Set(t, x)
    BY <1>2
  <2> HIDE DEF x
  <2>3. StreamAt(x)
    BY <2>1 DEF StreamAt, Generation, Grading
  <2> QED
    BY <2>2, <2>3 DEF Streams
<1>3. ASSUME Set(t, Marked([e EXCEPT !.pc = "done", !.failure = "error"]))
      PROVE  Streams(t)
  <2> DEFINE y == [e EXCEPT !.pc = "done", !.failure = "error"]
             x == [y EXCEPT !.stream = Unstarted, !.status = "failed", !.reward = 0]
  <2>1. Shape(y) /\ y.pc = "done" /\ y.failure = "error"
    BY <1>1 DEF Shape
  <2>2. Marked(y) = x
    BY <2>1 DEF Marked
  <2>3. Set(t, Marked(y))
    BY <1>3
  <2> HIDE DEF y
  <2>4. x.pc = "done" /\ x.failure = "error"
    BY <2>1 DEF Shape
  <2> HIDE DEF x
  <2>5. StreamAt(x)
    BY <2>4 DEF StreamAt, Generation, Grading
  <2> QED
    BY <2>2, <2>3, <2>5 DEF Streams
<1>4. CASE Created(t)
  <2> DEFINE x == In([e EXCEPT !.box = "live"], "upload", GenerationTimeout)
  <2>1. e.stream = Unstarted /\ e.failure = "none"
    BY <1>4, Known DEF Created, Unborn, Nobody
  <2>2. x.pc = "upload" /\ x.stream = e.stream /\ x.failure = e.failure
    BY <1>1 DEF Shape, In
  <2>3. Set(t, x)
    BY <1>4 DEF Created
  <2> HIDE DEF x
  <2>4. StreamAt(x)
    BY <2>1, <2>2 DEF StreamAt, Generation, Grading
  <2> QED
    BY <2>3, <2>4 DEF Streams
<1>5. CASE TaskUploaded(t) /\ setup \in Setups /\ setup.total > 0
  <2> DEFINE s == [e.stream EXCEPT !.tokens = Prompt]
             x == [e EXCEPT !.pc = "surface", !.stream = s]
  <2>1. e.pc = "upload" /\ e.stream = Unstarted /\ Set(t, x)
    BY <1>5 DEF TaskUploaded, StreamAt
  <2>2. s.tokens = Prompt /\ s.mask = <<>> /\ s.logprobs = 0
    BY <2>1 DEF Unstarted
  <2> HIDE DEF s
  <2>3. /\ Prompt \in Seq(Kinds) /\ Len(Prompt) = 1
        /\ <<>> \in Seq({0, 1}) /\ Len(<<>>) = 0
    BY DEF Prompt, Kinds
  <2>4. Fits(s)
    BY <1>5, <2>2, <2>3, TotalIs DEF Fits, Exact
  <2>5. x.pc = "surface" /\ x.stream = s /\ x.failure = e.failure
    BY <1>1 DEF Shape
  <2> HIDE DEF x
  <2>6. StreamAt(x)
    BY <2>4, <2>5 DEF StreamAt, Grading
  <2> QED
    BY <2>1, <2>6 DEF Streams
<1> QED
  BY <1>2, <1>3, <1>4, <1>5 DEF BadTask, Begin, GetPermit, CreateFails

LEMMA TurnsStreams ==
  ASSUME NEW t, setup \in Setups, EpisodeOK(ep[t]), StreamAt(ep[t]),
         SurfaceReady(t) \/ Replied(t) \/ Probed(t) \/ ToolReturns(t)
  PROVE  Streams(t)
<1> DEFINE e == ep[t]
<1>1. /\ Shape(e) /\ Fits(e.stream) /\ e.failure # "invariant"
      /\ e.pc \in {"tool", "probe"} => Last(e.stream) \in Closing
  BY Known DEF SurfaceReady, Replied, Probed, ToolReturns, StreamAt, Generation
<1>2. CASE SurfaceReady(t)
  BY <1>1, <1>2, LoopTopStreams DEF SurfaceReady
<1>3. CASE Probed(t)
  BY <1>1, <1>3, NextCallStreams, StoppedStreams DEF Probed
<1>4. CASE ToolReturns(t)
  <2>1. CASE NextCall(t, e)
    BY <1>1, <1>4, <2>1, NextCallStreams DEF ToolReturns
  <2>2. ASSUME NEW file, NEW late,
               LET written == [e EXCEPT !.file = file, !.late = late]
               IN \/ Set(t, [written EXCEPT !.pc = "probe", !.probed = @ \cup {file}])
                  \/ NextCall(t, written)
        PROVE  Streams(t)
    <3> DEFINE w == [e EXCEPT !.file = file, !.late = late]
               x == [w EXCEPT !.pc = "probe", !.probed = @ \cup {file}]
    <3>1. Shape(w) /\ w.stream = e.stream /\ w.failure = e.failure
      BY <1>1 DEF Shape
    <3>2. Set(t, x) \/ NextCall(t, w)
      BY <2>2
    <3>3. Last(e.stream) \in Closing
      BY <1>1, <1>4 DEF ToolReturns
    <3> HIDE DEF w
    <3>4. x.stream = e.stream /\ x.failure = e.failure /\ x.pc = "probe"
      BY <3>1 DEF Shape
    <3> HIDE DEF x
    <3>5. StreamAt(x)
      BY <1>1, <3>3, <3>4 DEF StreamAt, Generation, Grading
    <3> QED
      BY <1>1, <3>1, <3>2, <3>3, <3>5, NextCallStreams DEF Streams
  <2>3. \/ NextCall(t, e)
        \/ \E file \in Files, late \in {e.late, setup.faulty} :
             LET written == [e EXCEPT !.file = file, !.late = late]
             IN \/ Set(t, [written EXCEPT !.pc = "probe", !.probed = @ \cup {file}])
                \/ NextCall(t, written)
    BY <1>4 DEF ToolReturns
  <2> QED
    BY <2>1, <2>2, <2>3
<1>5. CASE Replied(t)
  <2>1. PICK r \in Replies(MaxNewTokens(e)), says \in {"calls", "errors", "nothing"} :
          LET heard == [e EXCEPT !.stream = ClosedTurn(Extended(@, r.tokens, 1))]
          IN \/ FollowUp(t, heard)
             \/ FollowUp(t, [heard EXCEPT !.nudges = @ + 1])
             \/ Set(t, Stopped(heard, "truncated"))
             \/ Set(t, Stopped(heard, "completed"))
             \/ \E n \in 1..setup.calls :
                  NextCall(t, [heard EXCEPT !.nudges = 0, !.calls = n])
    BY <1>5 DEF Replied
  <2>2. Remaining(e) > 1
    BY <1>5 DEF Replied, StreamAt
  <2>3. MaxNewTokens(e) \in Nat /\ MaxNewTokens(e) < setup.total - Len(e.stream.tokens)
    <3>1. Len(e.stream.tokens) \in Nat
      BY <1>1 DEF Fits, Exact
    <3> DEFINE n == Len(e.stream.tokens)
               m == setup.total
               k == setup.reply
    <3>2. n \in Nat /\ m \in Nat /\ k \in Nat /\ m - n > 1
      BY <2>2, <3>1, TotalIs DEF Remaining
    <3>3. MaxNewTokens(e) = IF m - n - 1 < k THEN m - n - 1 ELSE k
      BY DEF MaxNewTokens, Remaining
    <3> HIDE DEF n, m, k
    <3>4. MaxNewTokens(e) \in Nat /\ MaxNewTokens(e) < m - n
      BY <3>2, <3>3
    <3> QED
      BY <3>4 DEF n, m
  <2> DEFINE c == ClosedTurn(Extended(e.stream, r.tokens, 1))
             heard == [e EXCEPT !.stream = c]
  <2>4. Fits(c) /\ Last(c) \in Closing
    BY <1>1, <2>3, ReplyFits
  <2>5. \/ FollowUp(t, heard)
        \/ FollowUp(t, [heard EXCEPT !.nudges = heard.nudges + 1])
        \/ Set(t, Stopped(heard, "truncated"))
        \/ Set(t, Stopped(heard, "completed"))
        \/ \E n \in 1..setup.calls :
             NextCall(t, [heard EXCEPT !.nudges = 0, !.calls = n])
    BY <2>1
  <2> HIDE DEF c
  <2>6. Shape(heard) /\ heard.stream = c /\ heard.failure = e.failure
    BY <1>1 DEF Shape
  <2> HIDE DEF heard
  <2>7. ASSUME NEW n
        PROVE  LET x == [heard EXCEPT !.nudges = n]
               IN Shape(x) /\ x.stream = c /\ x.failure = e.failure
    BY <2>6 DEF Shape
  <2>8. ASSUME NEW n
        PROVE  LET x == [heard EXCEPT !.nudges = 0, !.calls = n]
               IN Shape(x) /\ x.stream = c /\ x.failure = e.failure
    BY <2>6 DEF Shape
  <2>9. CASE \/ FollowUp(t, heard) \/ Set(t, Stopped(heard, "truncated"))
             \/ Set(t, Stopped(heard, "completed"))
    BY <1>1, <2>4, <2>6, <2>9, FollowUpStreams, StoppedStreams
  <2>10. CASE FollowUp(t, [heard EXCEPT !.nudges = heard.nudges + 1])
    BY <1>1, <2>4, <2>7, <2>10, FollowUpStreams
  <2>11. CASE \E n \in 1..setup.calls :
                NextCall(t, [heard EXCEPT !.nudges = 0, !.calls = n])
    BY <1>1, <2>4, <2>8, <2>11, NextCallStreams
  <2> QED
    BY <2>5, <2>9, <2>10, <2>11
<1> QED
  BY <1>2, <1>3, <1>4, <1>5

\* _grade and the end of generate hand the stream on.
LEMMA GradingStreams ==
  ASSUME NEW t, EpisodeOK(ep[t]), StreamAt(ep[t]),
         \/ TestsUploaded(t) \/ VerifierEnds(t) \/ RewardRead(t)
         \/ Closed(t) \/ ClosedCancelled(t)
  PROVE  Streams(t)
<1> DEFINE e == ep[t]
<1>1. Shape(e)
  BY Known
<1>2. CASE TestsUploaded(t)
  <2> DEFINE x == In([e EXCEPT !.runs = @ + 1, !.verdict = NoCheck],
                     "verify", GRADE_TIMEOUT)
  <2>1. x.pc = "verify" /\ x.stream = e.stream /\ x.failure = e.failure
    BY <1>1 DEF Shape, In
  <2>2. Set(t, x)
    BY <1>2 DEF TestsUploaded
  <2> HIDE DEF x
  <2> QED
    BY <1>2, <2>1, <2>2 DEF TestsUploaded, Streams, StreamAt, Generation, Grading
<1>3. CASE VerifierEnds(t)
  <2> DEFINE x == In(e, "read", GRADE_REWARD_TIMEOUT)
  <2>1. x.pc = "read" /\ x.stream = e.stream /\ x.failure = e.failure
    BY <1>1 DEF Shape, In
  <2>2. Set(t, x)
    BY <1>3 DEF VerifierEnds
  <2> HIDE DEF x
  <2> QED
    BY <1>3, <2>1, <2>2 DEF VerifierEnds, Streams, StreamAt, Generation, Grading
<1>4. CASE RewardRead(t)
  <2> DEFINE x == [Nobody EXCEPT !.pc = "close", !.stream = e.stream, !.box = e.box,
                     !.status = e.status, !.runs = e.runs, !.judged = e.judged,
                     !.verdict = e.verdict, !.reward = e.verdict["reward"]]
  <2>1. x.pc = "close" /\ x.stream = e.stream /\ x.failure = "none"
    BY DEF Nobody
  <2>2. Set(t, x)
    BY <1>4 DEF RewardRead
  <2> HIDE DEF x
  <2> QED
    BY <1>4, <2>1, <2>2 DEF RewardRead, Streams, StreamAt, Generation, Grading
<1>5. CASE Closed(t)
  <2>1. PICK box : Set(t, Marked([e EXCEPT !.pc = "done", !.box = box]))
    BY <1>5 DEF Closed
  <2> DEFINE y == [e EXCEPT !.pc = "done", !.box = box]
             x == [y EXCEPT !.stream = Unstarted, !.status = "failed", !.reward = 0]
  <2>2. Shape(y) /\ y.pc = "done" /\ y.stream = e.stream /\ y.failure = e.failure
    BY <1>1 DEF Shape
  <2>3. Set(t, Marked(y)) /\ e.pc = "close"
    BY <1>5, <2>1 DEF Closed
  <2>4. x.pc = y.pc /\ x.failure = y.failure
    BY <2>2 DEF Shape
  <2>5. Marked(y) = IF e.failure = "none" THEN y ELSE x
    BY <2>2 DEF Marked
  <2> HIDE DEF x, y
  <2>6. StreamAt(Marked(y))
    BY <2>2, <2>3, <2>4, <2>5 DEF StreamAt, Generation, Grading
  <2> QED
    BY <2>3, <2>6 DEF Streams
<1>6. CASE ClosedCancelled(t)
  <2> DEFINE x == [e EXCEPT !.pc = "gone", !.box = "killed"]
  <2>1. x.pc = "gone" /\ x.failure = e.failure
    BY <1>1 DEF Shape
  <2>2. Set(t, x)
    BY <1>6 DEF ClosedCancelled
  <2> HIDE DEF x
  <2> QED
    BY <2>1, <2>2 DEF Streams, StreamAt, Generation, Grading
<1> QED
  BY <1>2, <1>3, <1>4, <1>5, <1>6

\* Steps that leave the stream alone.
LEMMA AsideStreams ==
  ASSUME NEW t, EpisodeOK(ep[t]), StreamAt(ep[t]),
         \/ UploadRetried(t) \/ ReadRetried(t) \/ VerifierPublishes(t)
         \/ Environment(t)
  PROVE  Streams(t)
<1> DEFINE e == ep[t]
<1>1. Shape(e)
  BY Known
<1>2. CASE UploadRetried(t) \/ ReadRetried(t)
  <2> DEFINE x == [e EXCEPT !.tries = @ + 1]
  <2>1. x.pc = e.pc /\ x.stream = e.stream /\ x.failure = e.failure
    BY <1>1 DEF Shape
  <2>2. Set(t, x)
    BY <1>2 DEF UploadRetried, ReadRetried
  <2> HIDE DEF x
  <2> QED
    BY <2>1, <2>2, SameStreams
<1>3. CASE VerifierPublishes(t)
  <2>1. PICK v, j : Set(t, [e EXCEPT !.verdict = v, !.judged = j])
    BY <1>3 DEF VerifierPublishes
  <2> DEFINE x == [e EXCEPT !.verdict = v, !.judged = j]
  <2>2. x.pc = e.pc /\ x.stream = e.stream /\ x.failure = e.failure
    BY <1>1 DEF Shape
  <2>3. Set(t, x)
    BY <2>1
  <2> HIDE DEF x
  <2> QED
    BY <2>2, <2>3, SameStreams
<1>4. CASE Tick(t)
  <2> DEFINE x == [e EXCEPT !.clock = @ + 1]
             y == [e EXCEPT !.clock = @ + 1, !.slack = @ + 1]
  <2>1. /\ x.pc = e.pc /\ x.stream = e.stream /\ x.failure = e.failure
        /\ y.pc = e.pc /\ y.stream = e.stream /\ y.failure = e.failure
    BY <1>1 DEF Shape
  <2>2. Set(t, x) \/ Set(t, y)
    BY <1>4 DEF Tick
  <2> HIDE DEF x, y
  <2> QED
    BY <2>1, <2>2, SameStreams
<1>5. CASE LateWrite(t)
  <2>1. PICK file \in Files : Set(t, [e EXCEPT !.file = file, !.late = FALSE])
    BY <1>5 DEF LateWrite
  <2> DEFINE x == [e EXCEPT !.file = file, !.late = FALSE]
  <2>2. x.pc = e.pc /\ x.stream = e.stream /\ x.failure = e.failure
    BY <1>1 DEF Shape
  <2>3. Set(t, x)
    BY <2>1
  <2> HIDE DEF x
  <2> QED
    BY <2>2, <2>3, SameStreams
<1>6. CASE SandboxLost(t)
  <2> DEFINE x == [e EXCEPT !.box = "lost"]
  <2>1. x.pc = e.pc /\ x.stream = e.stream /\ x.failure = e.failure
    BY <1>1 DEF Shape
  <2>2. Set(t, x)
    BY <1>6 DEF SandboxLost
  <2> HIDE DEF x
  <2> QED
    BY <2>1, <2>2, SameStreams
<1> QED
  BY <1>2, <1>3, <1>4, <1>5, <1>6 DEF Environment

LEMMA FailuresStreams ==
  ASSUME NEW t,
         \/ UploadFails(t) \/ SurfaceFails(t) \/ RouterFails(t) \/ ToolRaises(t)
         \/ VerifierFails(t) \/ ReadFails(t) \/ DeadlineFires(t)
         \/ EpisodeDeadlineFires(t)
  PROVE  Streams(t)
BY FailStreams DEF UploadFails, SurfaceFails, RouterFails, ToolRaises, VerifierFails,
                   ReadFails, DeadlineFires, EpisodeDeadlineFires

LEMMA CancelledStream ==
  ASSUME NEW e, EpisodeOK(e), StreamAt(e), NEW allocated
  PROVE  StreamAt(CancelledAt(e, allocated))
<1>1. ASSUME NEW x, x.pc = "gone", x.failure = e.failure
      PROVE  StreamAt(x)
  BY <1>1 DEF StreamAt, Generation, Grading
<1>2. ASSUME NEW y PROVE StreamAt(Fail(y, "cancelled"))
  <2> DEFINE x == Fail(y, "cancelled")
  <2>1. x.pc = "close" /\ x.failure = "cancelled"
    BY DEF Fail, Nobody
  <2> HIDE DEF x
  <2>2. StreamAt(x)
    BY <2>1 DEF StreamAt, Generation, Grading
  <2> QED
    BY <2>2 DEF x
<1>3. CASE e.pc \in {"queued", "permit", "create"}
  <2> DEFINE x == [e EXCEPT !.pc = "gone"]
  <2>1. x.pc = "gone" /\ x.failure = e.failure
    BY Known DEF Shape
  <2>2. \/ CancelledAt(e, allocated) = x
        \/ CancelledAt(e, allocated) = Fail([e EXCEPT !.box = "live"], "cancelled")
    BY <1>3 DEF CancelledAt, Generation, Grading
  <2> HIDE DEF x
  <2> QED
    BY <1>1, <1>2, <2>1, <2>2
<1>4. CASE e.pc \in Generation \cup Grading
  <2>1. CancelledAt(e, allocated) = Fail(e, "cancelled")
    BY <1>4 DEF CancelledAt, Generation, Grading
  <2> QED
    BY <1>2, <2>1
<1>5. CASE e.pc = "close"
  <2> DEFINE x == [e EXCEPT !.pc = "gone", !.box = "abandoned"]
  <2>1. x.pc = "gone" /\ x.failure = e.failure
    BY Known DEF Shape
  <2>2. CancelledAt(e, allocated) = x
    BY <1>5 DEF CancelledAt, Generation, Grading
  <2> HIDE DEF x
  <2> QED
    BY <1>1, <2>1, <2>2
<1>6. CASE e.pc \in {"done", "gone"}
  <2>1. CancelledAt(e, allocated) = e
    BY <1>6 DEF CancelledAt, Generation, Grading
  <2> QED
    BY <2>1
<1> QED
  BY <1>3, <1>4, <1>5, <1>6 DEF EpisodeOK

StreamsOK == \A t \in Trials : StreamAt(ep[t])

\* The budget has room for the prompt.
PromptFits == \A s \in Setups : s.total > 0

LEMMA StreamsStep ==
  ASSUME PromptFits, Order, StreamsOK, [Next]_vars
  PROVE  StreamsOK'
<1>1. setup \in Setups /\ setup.total > 0 /\ ep = [t \in Trials |-> ep[t]]
  BY DEF Order, EpisodesOK, PromptFits
<1>2. setup' = setup
  <2>1. CASE UNCHANGED vars
    BY <2>1 DEF vars, episodeVars
  <2>2. CASE Main \/ Interrupt
    BY <2>2 DEF Main, Interrupt, Evaluate, Abort, AbortInterrupted, Cleaned, Gathered,
                CancelAll, episodeVars
  <2>3. ASSUME NEW t \in Trials, Trial(t) PROVE setup' = setup
    <3>1. CASE Advance(t)
      BY <3>1 DEF Advance, GetPermit, Created, TaskUploaded, UploadRetried,
           UploadFails, SurfaceReady, SurfaceFails, Replied, RouterFails,
           ToolReturns, ToolRaises, Probed, TestsUploaded, VerifierPublishes,
           VerifierEnds, VerifierFails, ReadRetried, ReadFails, RewardRead,
           DeadlineFires, EpisodeDeadlineFires
    <3> QED
      BY <2>3, <3>1 DEF Trial, Admit, Finish, FinishCancelled, Begin, BadTask,
                        CreateFails, Closed, ClosedCancelled
  <2>4. ASSUME NEW t \in Trials, Environment(t) PROVE setup' = setup
    BY <2>4 DEF Environment, Tick, LateWrite, SandboxLost
  <2> QED
    BY <2>1, <2>2, <2>3, <2>4 DEF Next
<1>3. ASSUME \A t \in Trials : StreamAt(ep'[t])
      PROVE  StreamsOK'
  BY <1>2, <1>3 DEF StreamsOK, StreamAt, Fits, Remaining
<1>4. ASSUME NEW t \in Trials, Streams(t)
      PROVE  StreamsOK'
  <2>1. PICK x : StreamAt(x) /\ Set(t, x)
    BY <1>4 DEF Streams
  <2>2. \A u \in Trials : ep'[u] = IF u = t THEN x ELSE ep[u]
    BY <1>1, <2>1 DEF Set
  <2> QED
    BY <1>3, <2>1, <2>2 DEF StreamsOK
<1>5. CASE UNCHANGED episodeVars
  BY <1>3, <1>5 DEF StreamsOK, episodeVars
<1>6. CASE CancelAll
  <2>1. PICK allocated :
          ep' = [t \in Trials |-> IF t \in DOMAIN setup.plan
                                  THEN CancelledAt(ep[t], t \in allocated) ELSE ep[t]]
    BY <1>6 DEF CancelAll
  <2>2. ASSUME NEW t \in Trials PROVE StreamAt(ep'[t])
    <3>1. EpisodeOK(ep[t]) /\ StreamAt(ep[t])
      BY DEF Order, EpisodesOK, StreamsOK
    <3>2. ep'[t] = CancelledAt(ep[t], t \in allocated) \/ ep'[t] = ep[t]
      BY <2>1
    <3> QED
      BY <3>1, <3>2, CancelledStream
  <2> QED
    BY <1>3, <2>2
<1>7. ASSUME NEW t \in Trials, Trial(t) \/ Environment(t)
      PROVE  StreamsOK'
  <2>1. EpisodeOK(ep[t]) /\ StreamAt(ep[t])
    BY DEF Order, EpisodesOK, StreamsOK
  <2>2. CASE Advance(t)
    BY <1>1, <1>4, <2>1, <2>2, BeforeTurnsStreams, TurnsStreams, GradingStreams,
       AsideStreams, FailuresStreams DEF Advance
  <2> QED
    BY <1>4, <1>7, <2>1, <2>2, BeforeTurnsStreams, GradingStreams, AsideStreams
       DEF Trial, Admit, Finish, FinishCancelled
<1> QED
  BY <1>5, <1>6, <1>7 DEF Next, Main, Interrupt, Evaluate, Abort, AbortInterrupted,
                          Cleaned, Gathered, vars, episodeVars

\* What is trained is what was sampled, and no check inside run_episode ever
\* fails, for any replies, tools, budgets and limits in which the prompt has room.
THEOREM StreamKept == PromptFits => (Spec => []StreamExact)
<1> SUFFICES ASSUME PromptFits PROVE Spec => []StreamExact
  OBVIOUS
<1>1. Init => StreamsOK
  <2>1. StreamAt(Nobody)
    BY DEF StreamAt, Nobody, Generation, Grading
  <2> QED
    BY <2>1 DEF Init, StreamsOK
<1>2. Order /\ StreamsOK /\ [Next]_vars => StreamsOK'
  BY StreamsStep
<1>3. Order /\ StreamsOK => StreamExact
  <2> SUFFICES ASSUME Order, StreamsOK, NEW t \in Trials
               PROVE  LET e == ep[t]
                          s == e.stream
                          tokens == s.tokens
                      IN /\ e.failure # "invariant"
                         /\ (\/ e.pc \in {"model", "tool", "probe"} \cup Grading
                             \/ (e.pc = "done" /\ e.failure = "none"))
                              => /\ Validated(e)
                                 /\ \A k \in 1..Len(s.mask) :
                                      s.mask[k] = 1 <=> tokens[k + 1] \in Sampled
                                 /\ \A k \in 1..(Len(tokens) - 1) :
                                      tokens[k + 1] = "injected"
                                        => tokens[k] \in {"injected", "end", "closing"}
    BY DEF StreamExact
  <2> DEFINE e == ep[t]
             s == e.stream
  <2>1. e.failure # "invariant"
    BY DEF StreamsOK, StreamAt
  <2>2. \/ e.pc \in {"model", "tool", "probe"} \cup Grading
        \/ (e.pc = "done" /\ e.failure = "none")
        => Fits(s)
    BY DEF StreamsOK, StreamAt, Generation, Grading
  <2>3. ASSUME Fits(s)
        PROVE  /\ Validated(e)
               /\ \A k \in 1..Len(s.mask) :
                    s.mask[k] = 1 <=> s.tokens[k + 1] \in Sampled
               /\ \A k \in 1..(Len(s.tokens) - 1) :
                    s.tokens[k + 1] = "injected"
                      => s.tokens[k] \in {"injected", "end", "closing"}
    <3>1. Validated(e)
      BY <2>3, TotalIs DEF Validated, Fits, Exact, Prompt, Order
    <3>2. Len(s.tokens) - 1 = Len(s.mask)
      BY <2>3 DEF Fits, Exact
    <3> QED
      BY <2>3, <3>1, <3>2 DEF Fits, Exact, Closing
  <2> QED
    BY <2>1, <2>2, <2>3
<1> QED
  BY <1>1, <1>2, <1>3, EpisodesInOrder, PTL DEF Spec
-----------------------------------------------------------------------------
(***************************************************************************)
(* Types, permits and slots.                                               *)
(***************************************************************************)
Typed(e) ==
  /\ e.turn \in 0..setup.turns /\ e.nudges \in 0..setup.nudges
  /\ e.tries \in 1..(IF setup.attempts > 3 THEN setup.attempts ELSE 3)
  /\ e.file \in Files /\ e.probed \subseteq Files
  /\ e.box \in {"none", "live", "lost", "killed", "left", "abandoned"}

\* A step of an episode that has its permit before and after it.
Busy(t) ==
  \E x : Typed(x) /\ x.pc \in Holding /\ x.failure # "cancelled" /\ Set(t, x)

LEMMA BudgetsAre ==
  ASSUME setup \in Setups
  PROVE  /\ setup.turns \in Nat \ {0} /\ setup.nudges \in Nat
         /\ setup.attempts \in Nat \ {0} /\ setup.permits \in Nat \ {0}
         /\ setup.slots \in Nat \ {0} /\ setup.faulty \in BOOLEAN
         /\ DOMAIN setup.plan \subseteq Trials
BY EpisodeAssumption DEF EpisodeAssumption, SetupType

\* The same budgets are left, and the same sandbox and file are there.
LEMMA StillTyped ==
  ASSUME NEW e, Typed(e), NEW x, x.turn = e.turn, x.nudges = e.nudges,
         x.tries = e.tries, x.file = e.file, x.probed = e.probed, x.box = e.box
  PROVE  Typed(x)
BY DEF Typed

LEMMA NobodyTyped ==
  ASSUME setup \in Setups
  PROVE  Typed(Nobody)
BY BudgetsAre DEF Typed, Nobody, Files

LEMMA FailTyped ==
  ASSUME setup \in Setups, NEW e, Typed(e), NEW why
  PROVE  LET x == Fail(e, why)
         IN Typed(x) /\ x.pc = "close" /\ x.failure = why /\ x.box = e.box
<1> DEFINE x == Fail(e, why)
<1>1. /\ x.turn = 0 /\ x.nudges = 0 /\ x.tries = 1 /\ x.file = "open"
      /\ x.probed = {} /\ x.box = e.box /\ x.pc = "close" /\ x.failure = why
  BY DEF Fail, Nobody
<1> HIDE DEF x
<1>2. Typed(x)
  BY <1>1, BudgetsAre DEF Typed, Files
<1> QED
  BY <1>1, <1>2 DEF x

LEMMA InTyped ==
  ASSUME setup \in Setups, NEW e, Shape(e), Typed(e), NEW phase, NEW limit
  PROVE  LET x == In(e, phase, limit)
         IN /\ Typed(x) /\ x.pc = phase /\ x.failure = e.failure
            /\ x.box = e.box
<1> DEFINE x == In(e, phase, limit)
<1>1. /\ x.turn = e.turn /\ x.nudges = e.nudges /\ x.tries = 1 /\ x.file = e.file
      /\ x.probed = e.probed /\ x.box = e.box /\ x.pc = phase
      /\ x.failure = e.failure
  BY DEF In, Shape
<1> HIDE DEF x
<1>2. Typed(x)
  BY <1>1, BudgetsAre DEF Typed
<1> QED
  BY <1>1, <1>2 DEF x

LEMMA StoppedBusy ==
  ASSUME setup \in Setups, NEW t, NEW e, Shape(e), Typed(e),
         e.failure # "cancelled", NEW status, Set(t, Stopped(e, status))
  PROVE  Busy(t)
<1> DEFINE y == [e EXCEPT !.status = status]
           x == In(y, "tests", GRADE_UPLOAD_TIMEOUT)
           z == Fail(e, "invariant")
<1>1. /\ Shape(y) /\ y.turn = e.turn /\ y.nudges = e.nudges /\ y.tries = e.tries
      /\ y.file = e.file /\ y.probed = e.probed /\ y.box = e.box
      /\ y.failure = e.failure
  BY DEF Shape
<1>2. Set(t, x) \/ Set(t, z)
  BY DEF Stopped
<1> HIDE DEF y
<1>3. Typed(x) /\ x.pc = "tests" /\ x.failure = e.failure
  BY <1>1, InTyped, StillTyped
<1>4. Typed(z) /\ z.pc = "close" /\ z.failure = "invariant"
  BY FailTyped
<1> HIDE DEF x, z
<1> QED
  BY <1>2, <1>3, <1>4 DEF Busy, Holding, Grading

LEMMA LoopTopBusy ==
  ASSUME setup \in Setups, NEW t, NEW e, Shape(e), Typed(e),
         e.failure # "cancelled", LoopTop(t, e)
  PROVE  Busy(t)
<1> DEFINE y == [e EXCEPT !.turn = @ + 1]
           x == [e EXCEPT !.turn = @ + 1, !.pc = "model"]
<1>1. /\ Shape(y) /\ y.turn = e.turn + 1 /\ y.nudges = e.nudges
      /\ y.tries = e.tries /\ y.file = e.file /\ y.probed = e.probed
      /\ y.box = e.box /\ y.failure = e.failure
  BY DEF Shape
<1>2. /\ x.turn = e.turn + 1 /\ x.nudges = e.nudges /\ x.tries = e.tries
      /\ x.file = e.file /\ x.probed = e.probed /\ x.box = e.box
      /\ x.failure = e.failure /\ x.pc = "model"
  BY DEF Shape
<1>3. \/ Set(t, Stopped(e, "truncated"))
      \/ e.turn < setup.turns /\ (Set(t, Stopped(y, "truncated")) \/ Set(t, x))
  BY DEF LoopTop
<1> HIDE DEF x, y
<1>4. e.turn < setup.turns => e.turn + 1 \in 0..setup.turns
  BY BudgetsAre DEF Typed
<1>5. e.turn < setup.turns => Typed(y) /\ Typed(x)
  BY <1>1, <1>2, <1>4 DEF Typed
<1> QED
  BY <1>1, <1>2, <1>3, <1>5, StoppedBusy DEF Busy, Holding, Generation

LEMMA FollowUpBusy ==
  ASSUME setup \in Setups, NEW t, NEW e, Shape(e), Typed(e),
         e.failure # "cancelled", FollowUp(t, e)
  PROVE  Busy(t)
<1>1. ASSUME NEW s, LoopTop(t, [e EXCEPT !.stream = s])
      PROVE  Busy(t)
  <2> DEFINE x == [e EXCEPT !.stream = s]
  <2>1. /\ Shape(x) /\ x.turn = e.turn /\ x.nudges = e.nudges /\ x.tries = e.tries
        /\ x.file = e.file /\ x.probed = e.probed /\ x.box = e.box
        /\ x.failure = e.failure
    BY DEF Shape
  <2>2. LoopTop(t, x)
    BY <1>1
  <2> HIDE DEF x
  <2> QED
    BY <2>1, <2>2, LoopTopBusy, StillTyped
<1> QED
  BY <1>1, StoppedBusy DEF FollowUp

LEMMA NextCallBusy ==
  ASSUME setup \in Setups, NEW t, NEW e, Shape(e), Typed(e),
         e.failure # "cancelled", NextCall(t, e)
  PROVE  Busy(t)
<1> DEFINE x == [e EXCEPT !.pc = "tool", !.calls = @ - 1]
<1>1. /\ x.turn = e.turn /\ x.nudges = e.nudges /\ x.tries = e.tries
      /\ x.file = e.file /\ x.probed = e.probed /\ x.box = e.box
      /\ x.failure = e.failure /\ x.pc = "tool"
  BY DEF Shape
<1>2. FollowUp(t, e) \/ Set(t, Stopped(e, "truncated")) \/ Set(t, x)
  BY DEF NextCall
<1> HIDE DEF x
<1>3. Typed(x)
  BY <1>1, StillTyped
<1> QED
  BY <1>1, <1>2, <1>3, FollowUpBusy, StoppedBusy DEF Busy, Holding, Generation

\* Every step between the creation of the sandbox and its end.
LEMMA HeldBusy ==
  ASSUME setup \in Setups, NEW t, EpisodeOK(ep[t]), Typed(ep[t]),
         ep[t].pc \in Holding \ {"close"}, Advance(t)
  PROVE  Busy(t)
<1> DEFINE e == ep[t]
<1>1. Shape(e) /\ e.failure # "cancelled"
  <2>1. Unborn(e) => e.failure = "none"
    BY DEF Unborn, Nobody
  <2> QED
    BY <2>1, Known DEF Working, Verifying, Holding
<1>2. ASSUME NEW why, why # "cancelled", Set(t, Fail(e, why))
      PROVE  Busy(t)
  <2> DEFINE x == Fail(e, why)
  <2>1. Typed(x) /\ x.pc = "close" /\ x.failure = why
    BY FailTyped
  <2> HIDE DEF x
  <2> QED
    BY <1>2, <2>1 DEF Busy, Holding, x
<1>3. CASE Created(t)
  <2> DEFINE y == [e EXCEPT !.box = "live"]
             x == In(y, "upload", GenerationTimeout)
  <2>1. /\ Shape(y) /\ y.turn = e.turn /\ y.nudges = e.nudges /\ y.tries = e.tries
        /\ y.file = e.file /\ y.probed = e.probed /\ y.box = "live"
        /\ y.failure = e.failure
    BY <1>1 DEF Shape
  <2>2. Set(t, x)
    BY <1>3 DEF Created
  <2> HIDE DEF y
  <2>3. Typed(x) /\ x.pc = "upload" /\ x.failure = e.failure
    BY <2>1, InTyped DEF Typed
  <2> HIDE DEF x
  <2> QED
    BY <1>1, <2>2, <2>3 DEF Busy, Holding, Generation
<1>4. CASE TaskUploaded(t)
  <2>1. PICK s : Set(t, [e EXCEPT !.pc = "surface", !.stream = s])
    BY <1>4 DEF TaskUploaded
  <2> DEFINE x == [e EXCEPT !.pc = "surface", !.stream = s]
  <2>2. /\ x.turn = e.turn /\ x.nudges = e.nudges /\ x.tries = e.tries
        /\ x.file = e.file /\ x.probed = e.probed /\ x.box = e.box
        /\ x.failure = e.failure /\ x.pc = "surface"
    BY <1>1 DEF Shape
  <2>3. Set(t, x)
    BY <2>1
  <2> HIDE DEF x
  <2> QED
    BY <1>1, <2>2, <2>3, StillTyped DEF Busy, Holding, Generation
<1>5. CASE UploadRetried(t) \/ ReadRetried(t)
  <2> DEFINE x == [e EXCEPT !.tries = @ + 1]
  <2>1. /\ x.turn = e.turn /\ x.nudges = e.nudges /\ x.tries = e.tries + 1
        /\ x.file = e.file /\ x.probed = e.probed /\ x.box = e.box
        /\ x.failure = e.failure /\ x.pc = e.pc
    BY <1>1 DEF Shape
  <2>2. Set(t, x) /\ (e.tries < setup.attempts \/ e.tries < 3)
    BY <1>5 DEF UploadRetried, ReadRetried
  <2> HIDE DEF x
  <2>3. e.tries + 1 \in 1..(IF setup.attempts > 3 THEN setup.attempts ELSE 3)
    BY <2>2, BudgetsAre DEF Typed
  <2>4. Typed(x)
    BY <2>1, <2>3 DEF Typed
  <2> QED
    BY <1>1, <2>1, <2>2, <2>4 DEF Busy
<1>6. CASE SurfaceReady(t)
  BY <1>1, <1>6, LoopTopBusy DEF SurfaceReady
<1>7. CASE Probed(t)
  BY <1>1, <1>7, NextCallBusy, StoppedBusy DEF Probed
<1>8. CASE ToolReturns(t)
  <2>1. CASE NextCall(t, e)
    BY <1>1, <2>1, NextCallBusy
  <2>2. ASSUME NEW file \in Files, NEW late,
               LET written == [e EXCEPT !.file = file, !.late = late]
               IN \/ Set(t, [written EXCEPT !.pc = "probe", !.probed = @ \cup {file}])
                  \/ NextCall(t, written)
        PROVE  Busy(t)
    <3> DEFINE w == [e EXCEPT !.file = file, !.late = late]
               x == [w EXCEPT !.pc = "probe", !.probed = @ \cup {file}]
    <3>1. /\ Shape(w) /\ w.turn = e.turn /\ w.nudges = e.nudges /\ w.tries = e.tries
          /\ w.file = file /\ w.probed = e.probed /\ w.box = e.box
          /\ w.failure = e.failure
      BY <1>1 DEF Shape
    <3>2. Set(t, x) \/ NextCall(t, w)
      BY <2>2
    <3> HIDE DEF w
    <3>3. /\ x.turn = e.turn /\ x.nudges = e.nudges /\ x.tries = e.tries
          /\ x.file = file /\ x.probed = e.probed \cup {file} /\ x.box = e.box
          /\ x.failure = e.failure /\ x.pc = "probe"
      BY <3>1 DEF Shape
    <3> HIDE DEF x
    <3>4. Typed(w) /\ Typed(x)
      BY <3>1, <3>3 DEF Typed
    <3> QED
      BY <1>1, <3>1, <3>2, <3>3, <3>4, NextCallBusy DEF Busy, Holding, Generation
  <2>3. \/ NextCall(t, e)
        \/ \E file \in Files, late \in {e.late, setup.faulty} :
             LET written == [e EXCEPT !.file = file, !.late = late]
             IN \/ Set(t, [written EXCEPT !.pc = "probe", !.probed = @ \cup {file}])
                \/ NextCall(t, written)
    BY <1>8 DEF ToolReturns
  <2> QED
    BY <2>1, <2>2, <2>3
<1>9. CASE Replied(t)
  <2>1. PICK r \in Replies(MaxNewTokens(e)), says \in {"calls", "errors", "nothing"} :
          LET heard == [e EXCEPT !.stream = ClosedTurn(Extended(@, r.tokens, 1))]
          IN \/ FollowUp(t, heard)
             \/ e.nudges < setup.nudges /\ FollowUp(t, [heard EXCEPT !.nudges = @ + 1])
             \/ Set(t, Stopped(heard, "truncated"))
             \/ Set(t, Stopped(heard, "completed"))
             \/ \E n \in 1..setup.calls :
                  NextCall(t, [heard EXCEPT !.nudges = 0, !.calls = n])
    BY <1>9 DEF Replied
  <2> DEFINE c == ClosedTurn(Extended(e.stream, r.tokens, 1))
             heard == [e EXCEPT !.stream = c]
             more == [heard EXCEPT !.nudges = heard.nudges + 1]
  <2>2. \/ FollowUp(t, heard)
        \/ e.nudges < setup.nudges /\ FollowUp(t, more)
        \/ Set(t, Stopped(heard, "truncated"))
        \/ Set(t, Stopped(heard, "completed"))
        \/ \E n \in 1..setup.calls :
             NextCall(t, [heard EXCEPT !.nudges = 0, !.calls = n])
    BY <2>1
  <2> HIDE DEF c
  <2>3. /\ Shape(heard) /\ heard.turn = e.turn /\ heard.nudges = e.nudges
        /\ heard.tries = e.tries /\ heard.file = e.file /\ heard.probed = e.probed
        /\ heard.box = e.box /\ heard.failure = e.failure
    BY <1>1 DEF Shape
  <2> HIDE DEF heard
  <2>4. /\ Shape(more) /\ more.turn = e.turn /\ more.nudges = e.nudges + 1
        /\ more.tries = e.tries /\ more.file = e.file /\ more.probed = e.probed
        /\ more.box = e.box /\ more.failure = e.failure
    BY <2>3 DEF Shape
  <2> HIDE DEF more
  <2>5. Typed(heard)
    BY <2>3, StillTyped
  <2>6. e.nudges < setup.nudges => Typed(more)
    <3>1. e.nudges < setup.nudges => e.nudges + 1 \in 0..setup.nudges
      BY BudgetsAre DEF Typed
    <3> QED
      BY <2>4, <3>1 DEF Typed
  <2>7. ASSUME NEW n, NextCall(t, [heard EXCEPT !.nudges = 0, !.calls = n])
        PROVE  Busy(t)
    <3> DEFINE x == [heard EXCEPT !.nudges = 0, !.calls = n]
    <3>1. /\ Shape(x) /\ x.turn = e.turn /\ x.nudges = 0 /\ x.tries = e.tries
          /\ x.file = e.file /\ x.probed = e.probed /\ x.box = e.box
          /\ x.failure = e.failure
      BY <2>3 DEF Shape
    <3>2. NextCall(t, x)
      BY <2>7
    <3> HIDE DEF x
    <3>3. Typed(x)
      BY <3>1, BudgetsAre DEF Typed
    <3> QED
      BY <1>1, <3>1, <3>2, <3>3, NextCallBusy
  <2> QED
    BY <1>1, <2>2, <2>3, <2>4, <2>5, <2>6, <2>7, FollowUpBusy, StoppedBusy
<1>10. CASE TestsUploaded(t)
  <2> DEFINE y == [e EXCEPT !.runs = @ + 1, !.verdict = NoCheck]
             x == In(y, "verify", GRADE_TIMEOUT)
  <2>1. /\ Shape(y) /\ y.turn = e.turn /\ y.nudges = e.nudges /\ y.tries = e.tries
        /\ y.file = e.file /\ y.probed = e.probed /\ y.box = e.box
        /\ y.failure = e.failure
    BY <1>1 DEF Shape
  <2>2. Set(t, x)
    BY <1>10 DEF TestsUploaded
  <2> HIDE DEF y
  <2>3. Typed(x) /\ x.pc = "verify" /\ x.failure = e.failure
    BY <2>1, InTyped, StillTyped
  <2> HIDE DEF x
  <2> QED
    BY <1>1, <2>2, <2>3 DEF Busy, Holding, Grading
<1>11. CASE VerifierPublishes(t)
  <2>1. PICK v, j : Set(t, [e EXCEPT !.verdict = v, !.judged = j])
    BY <1>11 DEF VerifierPublishes
  <2> DEFINE x == [e EXCEPT !.verdict = v, !.judged = j]
  <2>2. /\ x.turn = e.turn /\ x.nudges = e.nudges /\ x.tries = e.tries
        /\ x.file = e.file /\ x.probed = e.probed /\ x.box = e.box
        /\ x.failure = e.failure /\ x.pc = e.pc
    BY <1>1 DEF Shape
  <2>3. Set(t, x)
    BY <2>1
  <2> HIDE DEF x
  <2> QED
    BY <1>1, <2>2, <2>3, StillTyped DEF Busy
<1>12. CASE VerifierEnds(t)
  <2> DEFINE x == In(e, "read", GRADE_REWARD_TIMEOUT)
  <2>1. Set(t, x)
    BY <1>12 DEF VerifierEnds
  <2>2. Typed(x) /\ x.pc = "read" /\ x.failure = e.failure
    BY <1>1, InTyped
  <2> HIDE DEF x
  <2> QED
    BY <1>1, <2>1, <2>2 DEF Busy, Holding, Grading
<1>13. CASE RewardRead(t)
  <2> DEFINE x == [Nobody EXCEPT !.pc = "close", !.stream = e.stream, !.box = e.box,
                     !.status = e.status, !.runs = e.runs, !.judged = e.judged,
                     !.verdict = e.verdict, !.reward = e.verdict["reward"]]
  <2>1. Set(t, x)
    BY <1>13 DEF RewardRead
  <2>2. /\ x.turn = 0 /\ x.nudges = 0 /\ x.tries = 1 /\ x.file = "open"
        /\ x.probed = {} /\ x.box = e.box /\ x.failure = "none" /\ x.pc = "close"
    BY DEF Nobody
  <2> HIDE DEF x
  <2>3. Typed(x)
    BY <2>2, BudgetsAre DEF Typed, Files
  <2> QED
    BY <2>1, <2>2, <2>3 DEF Busy, Holding
<1> QED
  BY <1>2, <1>3, <1>4, <1>5, <1>6, <1>7, <1>8, <1>9, <1>10, <1>11, <1>12, <1>13
     DEF Advance, GetPermit, Holding, Generation, Grading, UploadFails, SurfaceFails,
         RouterFails, ToolRaises, VerifierFails, ReadFails, DeadlineFires,
         EpisodeDeadlineFires

\* The trials whose await is one of these.
At(phases) == {t \in Trials : ep[t].pc \in phases}
Admitted == {"permit"} \cup Holding

LEMMA Counts ==
  ASSUME NEW phases
  PROVE  /\ IsFiniteSet(At(phases)) /\ Cardinality(At(phases)) \in Nat
         /\ IsFiniteSet(At(phases)') /\ Cardinality(At(phases)') \in Nat
<1>1. IsFiniteSet(Trials)
  BY EpisodeAssumption DEF EpisodeAssumption
<1>2. At(phases) \in SUBSET Trials /\ At(phases)' \in SUBSET Trials
  BY DEF At
<1> QED
  BY <1>1, <1>2, FS_Subset, FS_CardinalityType

\* What a step of one trial does to the count of some awaits.
LEMMA CountAfter ==
  ASSUME NEW phases, NEW t \in Trials, NEW x, Set(t, x),
         ep = [u \in Trials |-> ep[u]]
  PROVE  LET before == Cardinality(At(phases))
             after == Cardinality(At(phases)')
         IN /\ ep[t].pc \in phases /\ x.pc \in phases => after = before
            /\ ep[t].pc \notin phases /\ x.pc \notin phases => after = before
            /\ ep[t].pc \notin phases /\ x.pc \in phases => after = before + 1
            /\ ep[t].pc \in phases /\ x.pc \notin phases => after = before - 1
<1>1. \A u \in Trials : ep'[u] = IF u = t THEN x ELSE ep[u]
  BY DEF Set
<1>2. /\ (ep[t].pc \in phases <=> x.pc \in phases) => At(phases)' = At(phases)
      /\ x.pc \in phases => At(phases)' = At(phases) \cup {t}
      /\ x.pc \notin phases => At(phases)' = At(phases) \ {t}
  BY <1>1 DEF At
<1>3. t \in At(phases) <=> ep[t].pc \in phases
  BY DEF At
<1> QED
  BY <1>2, <1>3, Counts, FS_AddElement, FS_RemoveElement

\* As long as no task has raised, the rows are those of the trials that are done.
Booked ==
  /\ \E S : rows \in Seq(S)
  /\ Len(rows) = Cardinality(At({"done"}))
  /\ \A t \in Trials : ep[t].pc = "done" =>
       \E k \in 1..Len(rows) : rows[k].trial = t /\ rows[k].reward = ep[t].reward

\* One trial: outside of the plan it is not started, and a sandbox that is not
\* closed belongs to a trial that has a permit.
TrialOK(t) ==
  /\ Typed(ep[t])
  /\ ep[t].box \in {"live", "lost"} => ep[t].pc \in Holding
  /\ t \notin DOMAIN setup.plan => ep[t].pc = "queued"

Books ==
  /\ permits \in Nat /\ permits + Cardinality(At(Holding)) = setup.permits
  /\ slots \in Nat /\ slots + Cardinality(At(Admitted)) = setup.slots
  /\ stage \in {"called", "running", "interrupted", "cleaning", "raised", "returned"}
  /\ error \in BOOLEAN
  /\ \A t \in Trials : TrialOK(t)

\* What each stage says of the trials.
Stages ==
  /\ stage = "called" => \A t \in Trials : ep[t].pc = "queued"
  /\ stage \in {"called", "running"}
       => \A t \in Trials : ep[t].pc # "gone" /\ ep[t].failure # "cancelled"
  /\ stage \in {"raised", "returned"}
       => \A t \in Trials : ep[t].pc \in {"queued"} \cup Ended
  /\ stage \in {"called", "running", "returned"} /\ ~error => Booked
  /\ stage = "returned" =>
       /\ Complete /\ ~error
       /\ \A t \in DOMAIN setup.plan : ep[t].pc = "done"

LEMMA OneTrialBooks ==
  ASSUME NEW t \in Trials, Order, Books, setup' = setup, NEW x, Set(t, x),
         TrialOK(t)', stage' = stage, error' \in BOOLEAN,
         permits' \in Nat, slots' \in Nat,
         permits' = IF ep[t].pc \in Holding
                    THEN IF x.pc \in Holding THEN permits ELSE permits + 1
                    ELSE IF x.pc \in Holding THEN permits - 1 ELSE permits,
         slots' = IF ep[t].pc \in Admitted
                  THEN IF x.pc \in Admitted THEN slots ELSE slots + 1
                  ELSE IF x.pc \in Admitted THEN slots - 1 ELSE slots
  PROVE  Books'
<1>1. ep = [u \in Trials |-> ep[u]]
  BY DEF Order, EpisodesOK
<1>2. \A u \in Trials : u # t => ep'[u] = ep[u]
  BY <1>1 DEF Set
<1>3. \A u \in Trials : TrialOK(u)'
  BY <1>2 DEF TrialOK, Typed, Books
<1> DEFINE h == Cardinality(At(Holding))
           hp == Cardinality(At(Holding)')
           a == Cardinality(At(Admitted))
           ap == Cardinality(At(Admitted)')
<1>4. h \in Nat /\ hp \in Nat /\ a \in Nat /\ ap \in Nat
  BY Counts
<1>5. /\ ep[t].pc \in Holding /\ x.pc \in Holding => hp = h
      /\ ep[t].pc \notin Holding /\ x.pc \notin Holding => hp = h
      /\ ep[t].pc \notin Holding /\ x.pc \in Holding => hp = h + 1
      /\ ep[t].pc \in Holding /\ x.pc \notin Holding => hp = h - 1
  BY <1>1, CountAfter
<1>6. /\ ep[t].pc \in Admitted /\ x.pc \in Admitted => ap = a
      /\ ep[t].pc \notin Admitted /\ x.pc \notin Admitted => ap = a
      /\ ep[t].pc \notin Admitted /\ x.pc \in Admitted => ap = a + 1
      /\ ep[t].pc \in Admitted /\ x.pc \notin Admitted => ap = a - 1
  BY <1>1, CountAfter
<1>7. /\ permits \in Nat /\ slots \in Nat
      /\ permits + h = setup.permits /\ slots + a = setup.slots
  BY DEF Books
<1> HIDE DEF h, hp, a, ap
<1>8. permits' + hp = setup.permits
  BY <1>4, <1>5, <1>7
<1>9. slots' + ap = setup.slots
  BY <1>4, <1>6, <1>7
<1>10. /\ permits' + Cardinality(At(Holding)') = setup'.permits
       /\ slots' + Cardinality(At(Admitted)') = setup'.slots
  BY <1>8, <1>9 DEF hp, ap
<1> QED
  BY <1>3, <1>10 DEF Books

LEMMA OneTrialStages ==
  ASSUME NEW t \in Trials, Order, Stages, setup' = setup, NEW x, Set(t, x),
         stage' = stage, stage \in {"running", "interrupted", "cleaning"},
         stage = "running" => x.pc # "gone" /\ x.failure # "cancelled",
         stage = "running" /\ ~error' => Booked'
  PROVE  Stages'
<1>1. \A u \in Trials : ep'[u] = IF u = t THEN x ELSE ep[u]
  BY DEF Set, Order, EpisodesOK
<1> QED
  BY <1>1 DEF Stages

\* No trial is done by this step, and none was before it.
LEMMA NoRow ==
  ASSUME NEW t \in Trials, Order, NEW x, Set(t, x), ep[t].pc # "done", x.pc # "done",
         rows' = rows, Booked
  PROVE  Booked'
<1>1. /\ ep = [u \in Trials |-> ep[u]]
      /\ \A u \in Trials : ep'[u] = IF u = t THEN x ELSE ep[u]
  BY DEF Set, Order, EpisodesOK
<1>2. Cardinality(At({"done"})') = Cardinality(At({"done"}))
  BY <1>1, CountAfter
<1> QED
  BY <1>1, <1>2 DEF Booked

LEMMA RowWritten ==
  ASSUME NEW t \in Trials, Order, Books, NEW x, Set(t, x), ep[t].pc # "done",
         x.pc = "done", WriteRow(t), ~error => Booked
  PROVE  error' \in BOOLEAN /\ (~error' => Booked')
<1>1. /\ ep = [u \in Trials |-> ep[u]]
      /\ \A u \in Trials : ep'[u] = IF u = t THEN x ELSE ep[u]
  BY DEF Set, Order, EpisodesOK
<1>2. error' \in BOOLEAN
  BY DEF WriteRow, Books, FirstAllFailed
<1>3. ASSUME ~error' PROVE Booked'
  <2> DEFINE r == [trial |-> t, status |-> ep'[t].status, reward |-> ep'[t].reward]
  <2>1. rows' = Append(rows, r) /\ ~error
    BY <1>3 DEF WriteRow, Books
  <2>2. r.trial = t /\ r.reward = x.reward
    BY <1>1
  <2> HIDE DEF r
  <2>3. PICK S : rows \in Seq(S)
    BY <2>1 DEF Booked
  <2>4. rows \in Seq(S \cup {r})
    BY <2>3
  <2>5. /\ rows' \in Seq(S \cup {r}) /\ Len(rows) \in Nat
        /\ Len(rows') = Len(rows) + 1 /\ rows'[Len(rows) + 1] = r
        /\ \A k \in 1..Len(rows) : rows'[k] = rows[k]
    BY <2>1, <2>4
  <2>6. Cardinality(At({"done"})') = Cardinality(At({"done"})) + 1
    BY <1>1, CountAfter
  <2>7. Len(rows') = Cardinality(At({"done"})')
    BY <2>1, <2>5, <2>6 DEF Booked
  <2>8. ASSUME NEW u \in Trials, ep'[u].pc = "done"
        PROVE  \E k \in 1..Len(rows') :
                  rows'[k].trial = u /\ rows'[k].reward = ep'[u].reward
    <3>1. CASE u = t
      BY <1>1, <2>2, <2>5, <3>1
    <3>2. CASE u # t
      <4>1. PICK k \in 1..Len(rows) : rows[k].trial = u /\ rows[k].reward = ep[u].reward
        BY <1>1, <2>1, <2>8, <3>2 DEF Booked
      <4>2. k \in 1..Len(rows') /\ rows'[k] = rows[k]
        BY <2>5
      <4> QED
        BY <1>1, <3>2, <4>1, <4>2
    <3> QED
      BY <3>1, <3>2
  <2> QED
    BY <2>5, <2>7, <2>8 DEF Booked
<1> QED
  BY <1>2, <1>3

LEMMA SetupKept ==
  ASSUME NEW t, Trial(t)
  PROVE  setup' = setup
<1>1. CASE Advance(t)
  BY <1>1 DEF Advance, GetPermit, Created, TaskUploaded, UploadRetried,
       UploadFails, SurfaceReady, SurfaceFails, Replied, RouterFails,
       ToolReturns, ToolRaises, Probed, TestsUploaded, VerifierPublishes,
       VerifierEnds, VerifierFails, ReadRetried, ReadFails, RewardRead,
       DeadlineFires, EpisodeDeadlineFires
<1> QED
  BY <1>1 DEF Trial, Admit, Finish, FinishCancelled, Begin, BadTask,
              CreateFails, Closed, ClosedCancelled

LEMMA TrialKept ==
  ASSUME NEW t \in Trials, Order, setup' = setup, NEW x, Set(t, x), Typed(x),
         x.box \in {"live", "lost"} => x.pc \in Holding, t \in DOMAIN setup.plan
  PROVE  TrialOK(t)'
<1>1. ep'[t] = x
  BY DEF Set, Order, EpisodesOK
<1> QED
  BY <1>1 DEF TrialOK, Typed

\* A trial that is over, or was never begun, has no sandbox any more.
LEMMA DoneTyped ==
  ASSUME NEW e, Shape(e), Typed(e), NEW y, Shape(y), y.pc = "done",
         y.turn = e.turn, y.nudges = e.nudges, y.tries = e.tries, y.file = e.file,
         y.probed = e.probed, y.box \in {"none", "killed", "left"}
  PROVE  LET x == Marked(y)
         IN /\ Typed(x) /\ x.pc = "done" /\ x.failure = y.failure
            /\ x.box \notin {"live", "lost"}
<1> DEFINE z == [y EXCEPT !.stream = Unstarted, !.status = "failed", !.reward = 0]
<1>1. /\ z.turn = e.turn /\ z.nudges = e.nudges /\ z.tries = e.tries
      /\ z.file = e.file /\ z.probed = e.probed /\ z.box = y.box
      /\ z.pc = "done" /\ z.failure = y.failure
  BY DEF Shape
<1>2. Marked(y) = y \/ Marked(y) = z
  BY DEF Marked
<1> HIDE DEF z
<1>3. Typed(y) /\ Typed(z)
  BY <1>1 DEF Typed
<1> QED
  BY <1>1, <1>2, <1>3

LEMMA AdmitBooks ==
  ASSUME NEW t \in Trials, Order, Books, Stages, Admit(t)
  PROVE  Books' /\ Stages'
<1> DEFINE e == ep[t]
<1>1. /\ EpisodeOK(e) /\ Typed(e) /\ setup' = setup /\ stage = "running"
      /\ stage' = stage /\ t \in DOMAIN setup.plan /\ slots > 0 /\ permits' = permits
      /\ e.pc = "queued" /\ permits \in Nat /\ slots \in Nat
  BY DEF Admit, Begin, BadTask, Order, EpisodesOK, Books, TrialOK
<1>2. /\ Shape(e) /\ e.box = "none" /\ e.failure = "none"
      /\ e.pc \notin Holding /\ e.pc \notin Admitted
  BY <1>1, Known DEF Unborn, Nobody, Holding, Admitted, Generation, Grading
<1>3. CASE Begin(t) /\ slots' = slots - 1 /\ UNCHANGED <<stage, rows, error>>
  <2> DEFINE x == [e EXCEPT !.pc = "permit"]
  <2>1. Set(t, x)
    BY <1>3 DEF Begin
  <2>2. /\ x.turn = e.turn /\ x.nudges = e.nudges /\ x.tries = e.tries
        /\ x.file = e.file /\ x.probed = e.probed /\ x.box = e.box
        /\ x.pc = "permit" /\ x.failure = e.failure
    BY <1>2 DEF Shape
  <2> HIDE DEF x
  <2>3. TrialOK(t)'
    BY <1>1, <1>2, <2>1, <2>2, StillTyped, TrialKept
  <2>4. x.pc \in Admitted /\ x.pc \notin Holding /\ slots' \in Nat
    BY <1>1, <1>3, <2>2 DEF Admitted, Holding, Generation, Grading
  <2>5. Books'
    BY <1>1, <1>2, <1>3, <2>1, <2>3, <2>4, OneTrialBooks DEF Books
  <2>6. ~error' => Booked'
    BY <1>1, <1>3, <2>1, <2>2, NoRow DEF Stages
  <2>7. Stages'
    BY <1>1, <1>2, <2>1, <2>2, <2>6, OneTrialStages
  <2> QED
    BY <2>5, <2>7
<1>4. CASE BadTask(t) /\ WriteRow(t) /\ UNCHANGED <<stage, slots>>
  <2> DEFINE y == [e EXCEPT !.pc = "done", !.failure = "error"]
             x == Marked(y)
  <2>1. Set(t, x)
    BY <1>4 DEF BadTask
  <2>2. /\ Shape(y) /\ y.turn = e.turn /\ y.nudges = e.nudges /\ y.tries = e.tries
        /\ y.file = e.file /\ y.probed = e.probed /\ y.box = e.box
        /\ y.pc = "done" /\ y.failure = "error"
    BY <1>2 DEF Shape
  <2> HIDE DEF y
  <2>3. Typed(x) /\ x.pc = "done" /\ x.failure = "error" /\ x.box \notin {"live", "lost"}
    BY <1>1, <1>2, <2>2, DoneTyped
  <2> HIDE DEF x
  <2>4. TrialOK(t)'
    BY <1>1, <2>1, <2>3, TrialKept
  <2>5. error' \in BOOLEAN /\ (~error' => Booked')
    BY <1>1, <1>4, <2>1, <2>3, RowWritten DEF Stages
  <2>6. x.pc \notin Admitted /\ x.pc \notin Holding
    BY <2>3 DEF Admitted, Holding, Generation, Grading
  <2>7. Books'
    BY <1>1, <1>2, <1>4, <2>1, <2>4, <2>5, <2>6, OneTrialBooks
  <2>8. Stages'
    BY <1>1, <2>1, <2>3, <2>5, OneTrialStages
  <2> QED
    BY <2>7, <2>8
<1> QED
  BY <1>3, <1>4 DEF Admit

LEMMA FinishBooks ==
  ASSUME NEW t \in Trials, Order, Books, Stages, Finish(t) \/ FinishCancelled(t)
  PROVE  Books' /\ Stages'
<1> DEFINE e == ep[t]
<1>1. /\ EpisodeOK(e) /\ Typed(e) /\ e.pc \in {"create", "close"} /\ stage' = stage
      /\ slots' = slots + 1 /\ permits' = permits + 1
      /\ permits \in Nat /\ slots \in Nat
  BY DEF Finish, FinishCancelled, Closed, CreateFails, ClosedCancelled, Order,
         EpisodesOK, Books, TrialOK
<1>2. setup' = setup
  BY SetupKept DEF Trial
<1>3. Shape(e) /\ e.pc \in Holding /\ e.pc \in Admitted /\ t \in DOMAIN setup.plan
  BY <1>1, Known DEF Holding, Admitted, Books, TrialOK
<1>4. stage \in {"running", "interrupted", "cleaning"}
  BY <1>1 DEF Stages, Books, Ended
<1>5. ASSUME NEW y, Shape(y), y.pc = "done", y.turn = e.turn, y.nudges = e.nudges,
             y.tries = e.tries, y.file = e.file, y.probed = e.probed,
             y.box \in {"none", "killed", "left"}, y.failure # "cancelled",
             Set(t, Marked(y)), WriteRow(t)
      PROVE  Books' /\ Stages'
  <2> DEFINE x == Marked(y)
  <2>1. /\ Typed(x) /\ x.pc = "done" /\ x.failure # "cancelled" /\ Set(t, x)
        /\ x.box \notin {"live", "lost"}
    BY <1>1, <1>3, <1>5, DoneTyped
  <2> HIDE DEF x
  <2>2. TrialOK(t)'
    BY <1>2, <1>3, <2>1, TrialKept
  <2>3. x.pc \notin Admitted /\ x.pc \notin Holding
    BY <2>1 DEF Admitted, Holding, Generation, Grading
  <2>4. error' \in BOOLEAN
    BY <1>5 DEF WriteRow, Books, FirstAllFailed
  <2>5. stage = "running" /\ ~error' => Booked'
    BY <1>1, <1>5, <2>1, RowWritten DEF Stages
  <2>6. Books'
    BY <1>1, <1>2, <1>3, <2>1, <2>2, <2>3, <2>4, OneTrialBooks
  <2>7. Stages'
    BY <1>1, <1>2, <1>4, <2>1, <2>5, OneTrialStages
  <2> QED
    BY <2>6, <2>7
<1>6. CASE CreateFails(t) /\ WriteRow(t)
  <2> DEFINE y == [e EXCEPT !.pc = "done", !.failure = "error"]
  <2>1. /\ Shape(y) /\ y.turn = e.turn /\ y.nudges = e.nudges /\ y.tries = e.tries
        /\ y.file = e.file /\ y.probed = e.probed /\ y.box = e.box
        /\ y.pc = "done" /\ y.failure = "error"
    BY <1>3 DEF Shape
  <2>2. e.box = "none"
    BY <1>1, <1>6, Known DEF CreateFails, Unborn, Nobody
  <2>3. Set(t, Marked(y))
    BY <1>6 DEF CreateFails
  <2> HIDE DEF y
  <2> QED
    BY <1>5, <1>6, <2>1, <2>2, <2>3
<1>7. CASE Closed(t) /\ WriteRow(t)
  <2>1. PICK box \in {"killed", "left"} :
          Set(t, Marked([e EXCEPT !.pc = "done", !.box = box]))
    BY <1>7 DEF Closed
  <2> DEFINE y == [e EXCEPT !.pc = "done", !.box = box]
  <2>2. /\ Shape(y) /\ y.turn = e.turn /\ y.nudges = e.nudges /\ y.tries = e.tries
        /\ y.file = e.file /\ y.probed = e.probed /\ y.box = box
        /\ y.pc = "done" /\ y.failure = e.failure
    BY <1>3 DEF Shape
  <2>3. Set(t, Marked(y)) /\ e.failure # "cancelled"
    BY <1>7, <2>1 DEF Closed
  <2> HIDE DEF y
  <2> QED
    BY <1>5, <1>7, <2>2, <2>3
<1>8. CASE FinishCancelled(t)
  <2> DEFINE x == [e EXCEPT !.pc = "gone", !.box = "killed"]
  <2>1. Set(t, x) /\ e.failure = "cancelled" /\ error' = error
    BY <1>8 DEF FinishCancelled, ClosedCancelled
  <2>2. /\ x.turn = e.turn /\ x.nudges = e.nudges /\ x.tries = e.tries
        /\ x.file = e.file /\ x.probed = e.probed /\ x.box = "killed" /\ x.pc = "gone"
    BY <1>3 DEF Shape
  <2> HIDE DEF x
  <2>3. Typed(x)
    BY <1>1, <2>2 DEF Typed
  <2>4. TrialOK(t)'
    BY <1>2, <1>3, <2>1, <2>2, <2>3, TrialKept
  <2>5. x.pc \notin Admitted /\ x.pc \notin Holding /\ error' \in BOOLEAN
    BY <2>1, <2>2 DEF Admitted, Holding, Generation, Grading, Books
  <2>6. Books'
    BY <1>1, <1>2, <1>3, <2>1, <2>4, <2>5, OneTrialBooks
  <2>7. stage # "running"
    BY <2>1 DEF Stages
  <2>8. Stages'
    BY <1>1, <1>2, <1>4, <2>1, <2>7, OneTrialStages
  <2> QED
    BY <2>6, <2>8
<1> QED
  BY <1>6, <1>7, <1>8 DEF Finish

LEMMA AdvanceBooks ==
  ASSUME NEW t \in Trials, Order, Books, Stages, Advance(t),
         UNCHANGED <<stage, slots, rows, error>>
  PROVE  Books' /\ Stages'
<1> DEFINE e == ep[t]
<1>1. EpisodeOK(e) /\ Typed(e) /\ setup \in Setups /\ permits \in Nat /\ slots \in Nat
      /\ error' \in BOOLEAN
  BY DEF Order, EpisodesOK, Books, TrialOK
<1>2. setup' = setup
  BY SetupKept DEF Trial
<1>3. e.pc \in {"permit"} \cup (Holding \ {"close"}) /\ e.pc \in Admitted
  BY DEF Advance, GetPermit, Created, TaskUploaded, UploadRetried, UploadFails,
         SurfaceReady, SurfaceFails, Replied, RouterFails, ToolReturns, ToolRaises,
         Probed, TestsUploaded, VerifierPublishes, VerifierEnds, VerifierFails,
         ReadRetried, ReadFails, RewardRead, DeadlineFires, EpisodeDeadlineFires,
         Holding, Generation, Grading, Admitted
<1>4. Shape(e) /\ t \in DOMAIN setup.plan
  BY <1>1, <1>3, Known DEF Books, TrialOK, Holding, Generation, Grading
<1>5. stage \in {"running", "interrupted", "cleaning"}
  BY <1>3 DEF Stages, Books, Ended, Holding, Generation, Grading
<1>6. ASSUME NEW x, Set(t, x), Typed(x), x.pc \in Holding, x.failure # "cancelled",
             permits' = IF e.pc \in Holding THEN permits ELSE permits - 1,
             permits' \in Nat
      PROVE  Books' /\ Stages'
  <2>1. TrialOK(t)'
    BY <1>2, <1>4, <1>6, TrialKept
  <2>2. x.pc \in Admitted /\ x.pc \notin {"done", "gone"} /\ e.pc # "done"
    BY <1>3, <1>6 DEF Admitted, Holding, Generation, Grading
  <2>3. Books'
    BY <1>1, <1>2, <1>3, <1>6, <2>1, <2>2, OneTrialBooks
  <2>4. stage = "running" /\ ~error' => Booked'
    BY <1>6, <2>2, NoRow DEF Stages
  <2>5. Stages'
    BY <1>2, <1>5, <1>6, <2>2, <2>4, OneTrialStages
  <2> QED
    BY <2>3, <2>5
<1>7. CASE GetPermit(t)
  <2> DEFINE x == [e EXCEPT !.pc = "create"]
  <2>1. Set(t, x) /\ e.pc = "permit" /\ permits > 0 /\ permits' = permits - 1
    BY <1>7 DEF GetPermit
  <2>2. /\ x.turn = e.turn /\ x.nudges = e.nudges /\ x.tries = e.tries
        /\ x.file = e.file /\ x.probed = e.probed /\ x.box = e.box
        /\ x.pc = "create" /\ x.failure = e.failure
    BY <1>4 DEF Shape
  <2>3. e.failure = "none" /\ e.pc \notin Holding
    BY <1>1, <2>1, Known DEF Unborn, Nobody, Holding, Generation, Grading
  <2> HIDE DEF x
  <2>4. Typed(x) /\ x.pc \in Holding /\ permits' \in Nat
    BY <1>1, <2>1, <2>2, StillTyped DEF Holding
  <2> QED
    BY <1>6, <2>1, <2>2, <2>3, <2>4
<1>8. CASE ~GetPermit(t)
  <2>1. e.pc \in Holding \ {"close"} /\ permits' = permits
    BY <1>8 DEF Advance, Created, TaskUploaded, UploadRetried, UploadFails,
       SurfaceReady, SurfaceFails, Replied, RouterFails, ToolReturns, ToolRaises,
       Probed, TestsUploaded, VerifierPublishes, VerifierEnds, VerifierFails,
       ReadRetried, ReadFails, RewardRead, DeadlineFires, EpisodeDeadlineFires,
       Holding, Generation, Grading
  <2>2. Busy(t)
    BY <1>1, <2>1, HeldBusy
  <2> QED
    BY <1>1, <1>6, <2>1, <2>2 DEF Busy
<1> QED
  BY <1>7, <1>8

LEMMA EnvironmentBooks ==
  ASSUME NEW t \in Trials, Order, Books, Stages, Environment(t),
         UNCHANGED <<stage, slots, rows, error>>
  PROVE  Books' /\ Stages'
<1> DEFINE e == ep[t]
<1>1. /\ EpisodeOK(e) /\ Typed(e) /\ permits \in Nat /\ slots \in Nat
      /\ error' \in BOOLEAN /\ TrialOK(t) /\ ep = [u \in Trials |-> ep[u]]
  BY DEF Order, EpisodesOK, Books, TrialOK
<1>2. setup' = setup /\ permits' = permits /\ Shape(e)
  BY <1>1, Known DEF Environment, Tick, LateWrite, SandboxLost
<1>3. \E x : /\ Set(t, x) /\ Typed(x) /\ x.pc = e.pc /\ x.failure = e.failure
             /\ x.reward = e.reward
             /\ x.box \in {"live", "lost"} => x.pc \in Holding
  <2>1. CASE Tick(t)
    <3> DEFINE x == [e EXCEPT !.clock = @ + 1]
               y == [e EXCEPT !.clock = @ + 1, !.slack = @ + 1]
    <3>1. /\ x.turn = e.turn /\ x.nudges = e.nudges /\ x.tries = e.tries
          /\ x.file = e.file /\ x.probed = e.probed /\ x.box = e.box
          /\ x.pc = e.pc /\ x.failure = e.failure /\ x.reward = e.reward
      BY <1>2 DEF Shape
    <3>2. /\ y.turn = e.turn /\ y.nudges = e.nudges /\ y.tries = e.tries
          /\ y.file = e.file /\ y.probed = e.probed /\ y.box = e.box
          /\ y.pc = e.pc /\ y.failure = e.failure /\ y.reward = e.reward
      BY <1>2 DEF Shape
    <3>3. Set(t, x) \/ Set(t, y)
      BY <2>1 DEF Tick
    <3> HIDE DEF x, y
    <3> QED
      BY <1>1, <3>1, <3>2, <3>3, StillTyped DEF TrialOK
  <2>2. CASE LateWrite(t)
    <3>1. PICK file \in Files : Set(t, [e EXCEPT !.file = file, !.late = FALSE])
      BY <2>2 DEF LateWrite
    <3> DEFINE x == [e EXCEPT !.file = file, !.late = FALSE]
    <3>2. /\ x.turn = e.turn /\ x.nudges = e.nudges /\ x.tries = e.tries
          /\ x.file = file /\ x.probed = e.probed /\ x.box = e.box
          /\ x.pc = e.pc /\ x.failure = e.failure /\ x.reward = e.reward
      BY <1>2 DEF Shape
    <3>3. Set(t, x)
      BY <3>1
    <3> HIDE DEF x
    <3>4. Typed(x)
      BY <1>1, <3>2 DEF Typed
    <3> QED
      BY <1>1, <3>2, <3>3, <3>4 DEF TrialOK
  <2>3. CASE SandboxLost(t)
    <3> DEFINE x == [e EXCEPT !.box = "lost"]
    <3>1. /\ x.turn = e.turn /\ x.nudges = e.nudges /\ x.tries = e.tries
          /\ x.file = e.file /\ x.probed = e.probed /\ x.box = "lost"
          /\ x.pc = e.pc /\ x.failure = e.failure /\ x.reward = e.reward
      BY <1>2 DEF Shape
    <3>2. Set(t, x) /\ e.pc \in Holding
      BY <2>3 DEF SandboxLost, Holding
    <3> HIDE DEF x
    <3>3. Typed(x)
      BY <1>1, <3>1 DEF Typed
    <3> QED
      BY <3>1, <3>2, <3>3
  <2> QED
    BY <2>1, <2>2, <2>3 DEF Environment
<1>4. PICK x : /\ Set(t, x) /\ Typed(x) /\ x.pc = e.pc /\ x.failure = e.failure
               /\ x.reward = e.reward
               /\ x.box \in {"live", "lost"} => x.pc \in Holding
  BY <1>3
<1>5. \A u \in Trials : /\ ep'[u].pc = ep[u].pc /\ ep'[u].failure = ep[u].failure
                        /\ ep'[u].reward = ep[u].reward
  BY <1>1, <1>4 DEF Set
<1>6. TrialOK(t)'
  <2>1. ep'[t] = x
    BY <1>1, <1>4 DEF Set
  <2> QED
    BY <1>1, <1>2, <1>4, <2>1 DEF TrialOK, Typed
<1>7. Books'
  BY <1>1, <1>2, <1>4, <1>6, OneTrialBooks
<1>8. At({"done"})' = At({"done"}) /\ (Complete <=> Complete')
  BY <1>2, <1>5 DEF At, Complete
<1>9. Booked => Booked'
  BY <1>5, <1>8 DEF Booked
<1>10. stage' = stage /\ error' = error
  OBVIOUS
<1>11. (stage = "called" => \A u \in Trials : ep[u].pc = "queued")'
  BY <1>5, <1>10 DEF Stages
<1>12. (stage \in {"called", "running"}
         => \A u \in Trials : ep[u].pc # "gone" /\ ep[u].failure # "cancelled")'
  BY <1>5, <1>10 DEF Stages
<1>13. (stage \in {"raised", "returned"}
         => \A u \in Trials : ep[u].pc \in {"queued"} \cup Ended)'
  BY <1>5, <1>10 DEF Stages
<1>14. (stage \in {"called", "running", "returned"} /\ ~error => Booked)'
  BY <1>9, <1>10 DEF Stages
<1>15. (stage = "returned" =>
          /\ Complete /\ ~error
          /\ \A u \in DOMAIN setup.plan : ep[u].pc = "done")'
  <2>1. DOMAIN setup.plan \subseteq Trials
    BY BudgetsAre DEF Order
  <2> QED
    BY <1>2, <1>5, <1>8, <1>10, <2>1 DEF Stages
<1> QED
  BY <1>7, <1>11, <1>12, <1>13, <1>14, <1>15 DEF Stages

\* Where a cancellation leaves a trial.
LEMMA CancelledKept ==
  ASSUME setup \in Setups, NEW e, EpisodeOK(e), Typed(e),
         e.box \in {"live", "lost"} => e.pc \in Holding, NEW allocated
  PROVE  LET x == CancelledAt(e, allocated)
         IN /\ Typed(x)
            /\ x.box \in {"live", "lost"} => x.pc \in Holding
            /\ x.pc \in Holding => e.pc \in Holding
            /\ x.pc \in Admitted => e.pc \in Admitted
<1> DEFINE x == CancelledAt(e, allocated)
<1>1. CASE e.pc \in {"queued", "permit", "create", "close"} /\ x.pc = "gone"
  <2> DEFINE y == [e EXCEPT !.pc = "gone"]
             z == [e EXCEPT !.pc = "gone", !.box = "abandoned"]
  <2>1. Shape(e) /\ (e.pc # "close" => e.box = "none")
    BY <1>1, Known DEF Unborn, Nobody
  <2>2. /\ y.turn = e.turn /\ y.nudges = e.nudges /\ y.tries = e.tries
        /\ y.file = e.file /\ y.probed = e.probed /\ y.box = e.box
        /\ z.turn = e.turn /\ z.nudges = e.nudges /\ z.tries = e.tries
        /\ z.file = e.file /\ z.probed = e.probed /\ z.box = "abandoned"
    BY <2>1 DEF Shape
  <2>3. IF e.pc = "close" THEN x = z
        ELSE x = y \/ x = Fail([e EXCEPT !.box = "live"], "cancelled")
    BY <1>1 DEF CancelledAt, Generation, Grading
  <2>4. Fail([e EXCEPT !.box = "live"], "cancelled").pc = "close"
    BY DEF Fail, Nobody
  <2> HIDE DEF y, z
  <2>5. Typed(y) /\ Typed(z)
    BY <2>2 DEF Typed
  <2> HIDE DEF x
  <2>6. (x = y /\ x.box = "none") \/ (x = z /\ x.box = "abandoned")
    BY <1>1, <2>1, <2>2, <2>3, <2>4
  <2>7. Typed(x) /\ x.box \notin {"live", "lost"}
    BY <2>5, <2>6
  <2>8. x.pc \notin Holding /\ x.pc \notin Admitted
    BY <1>1 DEF Holding, Admitted, Generation, Grading
  <2> QED
    BY <2>7, <2>8 DEF x
<1>2. ASSUME NEW y, Typed(y), x = Fail(y, "cancelled"), e.pc \in Holding
      PROVE  /\ Typed(x) /\ x.pc \in Holding
             /\ e.pc \in Holding /\ e.pc \in Admitted
  BY <1>2, FailTyped DEF Holding, Admitted
<1>3. CASE e.pc \in {"done", "gone"}
  <2>1. x = e
    BY <1>3 DEF CancelledAt, Generation, Grading
  <2> QED
    BY <2>1
<1>4. CASE e.pc \in Generation \cup Grading
  <2>1. x = Fail(e, "cancelled") /\ e.pc \in Holding
    BY <1>4 DEF CancelledAt, Generation, Grading, Holding
  <2> QED
    BY <1>2, <2>1
<1>5. CASE e.pc \in {"queued", "permit", "create", "close"} /\ x.pc # "gone"
  <2> DEFINE y == [e EXCEPT !.box = "live"]
             z == [e EXCEPT !.pc = "gone"]
  <2>1. Shape(e)
    BY Known
  <2>2. /\ y.turn = e.turn /\ y.nudges = e.nudges /\ y.tries = e.tries
        /\ y.file = e.file /\ y.probed = e.probed /\ y.box = "live"
        /\ z.pc = "gone" /\ [e EXCEPT !.pc = "gone", !.box = "abandoned"].pc = "gone"
    BY <2>1 DEF Shape
  <2>3. x = Fail(y, "cancelled") /\ e.pc = "create"
    BY <1>5, <2>2 DEF CancelledAt, Generation, Grading
  <2> HIDE DEF y
  <2>4. Typed(y)
    BY <2>2 DEF Typed
  <2> QED
    BY <1>2, <2>3, <2>4 DEF Holding
<1> QED
  BY <1>1, <1>2, <1>3, <1>4, <1>5 DEF EpisodeOK

LEMMA CancelBooks ==
  ASSUME Order, Books, Stages, CancelAll, error' = error,
         stage' \in {"interrupted", "cleaning"}
  PROVE  Books' /\ Stages'
<1>1. PICK allocated :
        ep' = [t \in Trials |-> IF t \in DOMAIN setup.plan
                                THEN CancelledAt(ep[t], t \in allocated) ELSE ep[t]]
  BY DEF CancelAll
<1>2. setup' = setup /\ setup \in Setups
  BY DEF CancelAll, Order
<1>3. ASSUME NEW t \in Trials
      PROVE  /\ TrialOK(t)'
             /\ ep'[t].pc \in Holding => ep[t].pc \in Holding
             /\ ep'[t].pc \in Admitted => ep[t].pc \in Admitted
  <2>1. EpisodeOK(ep[t]) /\ TrialOK(t)
    BY DEF Order, EpisodesOK, Books
  <2>2. CASE t \in DOMAIN setup.plan
    <3>1. ep'[t] = CancelledAt(ep[t], t \in allocated)
      BY <1>1, <2>2
    <3> DEFINE x == CancelledAt(ep[t], t \in allocated)
    <3>2. /\ Typed(x) /\ (x.box \in {"live", "lost"} => x.pc \in Holding)
          /\ x.pc \in Holding => ep[t].pc \in Holding
          /\ x.pc \in Admitted => ep[t].pc \in Admitted
      BY <1>2, <2>1, CancelledKept DEF TrialOK
    <3> HIDE DEF x
    <3>3. ep'[t] = x
      BY <3>1 DEF x
    <3> QED
      BY <1>2, <2>2, <3>2, <3>3 DEF TrialOK, Typed
  <2>3. CASE t \notin DOMAIN setup.plan
    <3>1. ep'[t] = ep[t]
      BY <1>1, <2>3
    <3> QED
      BY <1>2, <2>1, <3>1 DEF TrialOK, Typed
  <2> QED
    BY <2>2, <2>3
<1> DEFINE h == Cardinality(At(Holding))
           hp == Cardinality(At(Holding)')
           a == Cardinality(At(Admitted))
           ap == Cardinality(At(Admitted)')
<1>4. h \in Nat /\ hp \in Nat /\ a \in Nat /\ ap \in Nat
  BY Counts
<1>5. hp <= h /\ ap <= a
  <2>1. At(Holding)' \in SUBSET At(Holding) /\ At(Admitted)' \in SUBSET At(Admitted)
    BY <1>3 DEF At
  <2> QED
    BY <2>1, Counts, FS_Subset
<1>6. permits' = permits + h - hp /\ slots' = slots + a - ap
  BY DEF CancelAll, At, Admitted
<1>7. /\ permits \in Nat /\ slots \in Nat
      /\ permits + h = setup.permits /\ slots + a = setup.slots
  BY DEF Books
<1> HIDE DEF h, hp, a, ap
<1>8. /\ permits' \in Nat /\ permits' + hp = setup.permits
      /\ slots' \in Nat /\ slots' + ap = setup.slots
  BY <1>4, <1>5, <1>6, <1>7
<1>9. /\ permits' + Cardinality(At(Holding)') = setup'.permits
      /\ slots' + Cardinality(At(Admitted)') = setup'.slots
  BY <1>2, <1>8 DEF hp, ap
<1>10. Books'
  BY <1>3, <1>8, <1>9 DEF Books
<1>11. Stages'
  BY DEF Stages
<1> QED
  BY <1>10, <1>11

\* What evaluate_records itself does besides cancelling.
LEMMA MainBooks ==
  ASSUME Order, Books, Stages, UNCHANGED <<episodeVars, slots, rows, error>>,
         \/ Evaluate \/ Cleaned \/ Gathered \/ stage' = stage
  PROVE  Books' /\ Stages'
<1>1. setup' = setup /\ ep' = ep /\ permits' = permits /\ slots' = slots
      /\ rows' = rows /\ error' = error
  BY DEF episodeVars
<1>2. stage' \in {"called", "running", "interrupted", "cleaning", "raised", "returned"}
  BY DEF Evaluate, Cleaned, Gathered, Books
<1>3. Books'
  BY <1>1, <1>2 DEF Books, At, TrialOK, Typed
<1>4. (Booked <=> Booked') /\ (Complete <=> Complete')
  BY <1>1 DEF Booked, Complete, At
<1>5. AllEnded => \A t \in Trials : ep[t].pc \in {"queued"} \cup Ended
  BY DEF AllEnded, Books, TrialOK
<1>6. /\ stage' = "called" => stage = "called"
      /\ stage' \in {"called", "running"} => stage \in {"called", "running"}
      /\ stage' \in {"called", "running", "returned"}
           => stage \in {"called", "running", "returned"}
  BY DEF Evaluate, Cleaned, Gathered
<1>7. stage' \in {"raised", "returned"}
        => \A t \in Trials : ep[t].pc \in {"queued"} \cup Ended
  BY <1>5 DEF Evaluate, Cleaned, Gathered, Stages
<1>8. stage' = "returned" => /\ Complete /\ ~error
                             /\ \A t \in DOMAIN setup.plan : ep[t].pc = "done"
  <2>1. ASSUME Gathered, stage' = "returned"
        PROVE  /\ Complete /\ ~error
               /\ \A t \in DOMAIN setup.plan : ep[t].pc = "done"
    <3>1. stage = "running" /\ AllEnded /\ ~error /\ Complete
      BY <2>1 DEF Gathered
    <3>2. \A t \in DOMAIN setup.plan : ep[t].pc = "done"
      BY <3>1, BudgetsAre DEF AllEnded, Stages, Ended, Order
    <3> QED
      BY <3>1, <3>2
  <2> QED
    BY <2>1 DEF Evaluate, Cleaned, Stages
<1>9. (stage = "called" => \A t \in Trials : ep[t].pc = "queued")'
  BY <1>1, <1>6 DEF Stages
<1>10. (stage \in {"called", "running"}
         => \A t \in Trials : ep[t].pc # "gone" /\ ep[t].failure # "cancelled")'
  BY <1>1, <1>6 DEF Stages
<1>11. (stage \in {"raised", "returned"}
         => \A t \in Trials : ep[t].pc \in {"queued"} \cup Ended)'
  BY <1>1, <1>7
<1>12. (stage \in {"called", "running", "returned"} /\ ~error => Booked)'
  BY <1>1, <1>4, <1>6 DEF Stages
<1>13. (stage = "returned" =>
          /\ Complete /\ ~error
          /\ \A t \in DOMAIN setup.plan : ep[t].pc = "done")'
  BY <1>1, <1>4, <1>8
<1> QED
  BY <1>3, <1>9, <1>10, <1>11, <1>12, <1>13 DEF Stages

LEMMA BooksBegin ==
  ASSUME Init
  PROVE  Books /\ Stages
<1>1. /\ setup \in Setups /\ \A t \in Trials : ep[t] = Nobody
      /\ permits = setup.permits /\ slots = setup.slots
      /\ stage = "called" /\ rows = <<>> /\ error = FALSE
  BY DEF Init
<1>2. Nobody.pc = "queued" /\ Nobody.box = "none" /\ Nobody.failure = "none"
  BY DEF Nobody
<1>3. At(Holding) = {} /\ At(Admitted) = {} /\ At({"done"}) = {}
  BY <1>1, <1>2 DEF At, Holding, Admitted, Generation, Grading
<1>4. Cardinality({}) = 0
  BY FS_EmptySet
<1>5. Books
  <2>1. \A t \in Trials : TrialOK(t)
    BY <1>1, <1>2, NobodyTyped DEF TrialOK
  <2>2. /\ permits \in Nat /\ permits + Cardinality(At(Holding)) = setup.permits
        /\ slots \in Nat /\ slots + Cardinality(At(Admitted)) = setup.slots
    BY <1>1, <1>3, <1>4, BudgetsAre
  <2> QED
    BY <1>1, <2>1, <2>2 DEF Books
<1>6. Booked
  <2>1. rows \in Seq({}) /\ Len(rows) = 0
    BY <1>1
  <2> QED
    BY <1>1, <1>2, <1>3, <1>4, <2>1 DEF Booked
<1> QED
  BY <1>1, <1>2, <1>5, <1>6 DEF Stages

\* Permits, slots and rows are those of the trials that are there, with failed
\* writes, early stops and cancellations in every phase.
THEOREM BooksKept == Spec => [](Books /\ Stages)
<1>1. Order /\ Books /\ Stages /\ [Next]_vars => Books' /\ Stages'
  <2> SUFFICES ASSUME Order, Books, Stages, [Next]_vars
               PROVE  Books' /\ Stages'
    OBVIOUS
  <2>1. CASE Main
    <3>1. CASE Abort \/ AbortInterrupted
      BY <3>1, CancelBooks DEF Abort, AbortInterrupted
    <3>2. CASE Evaluate \/ Cleaned \/ Gathered
      BY <3>2, MainBooks DEF Evaluate, Cleaned, Gathered
    <3> QED
      BY <2>1, <3>1, <3>2 DEF Main
  <2>2. CASE Interrupt
    BY <2>2, CancelBooks DEF Interrupt
  <2>3. ASSUME NEW t \in Trials, Trial(t)
        PROVE  Books' /\ Stages'
    BY <2>3, AdmitBooks, FinishBooks, AdvanceBooks DEF Trial
  <2>4. ASSUME NEW t \in Trials, Environment(t), UNCHANGED <<stage, slots, rows, error>>
        PROVE  Books' /\ Stages'
    BY <2>4, EnvironmentBooks
  <2>5. CASE UNCHANGED vars
    BY <2>5, MainBooks DEF vars
  <2> QED
    BY <2>1, <2>2, <2>3, <2>4, <2>5 DEF Next
<1>2. Init => Books /\ Stages
  BY BooksBegin
<1> QED
  BY <1>1, <1>2, EpisodesInOrder, PTL DEF Spec

\* Every variable of the evaluation keeps its type: turns, nudges and attempts
\* stay within their budgets, permits and slots within their number, and a
\* sandbox that was not closed belongs to a trial with a permit.
THEOREM EvaluationTypes == Spec => []TypeOK
<1>1. Order /\ Books => TypeOK
  <2> SUFFICES ASSUME Order, Books PROVE TypeOK
    OBVIOUS
  <2>1. permits \in 0..setup.permits /\ slots \in 0..setup.slots
    <3>1. Cardinality(At(Holding)) \in Nat /\ Cardinality(At(Admitted)) \in Nat
      BY Counts
    <3> QED
      BY <3>1, BudgetsAre DEF Books, Order
  <2>2. ASSUME NEW t \in Trials
        PROVE  LET e == ep[t]
               IN /\ e.pc \in {"queued", "permit"} \cup Holding \cup Ended
                  /\ e.turn \in 0..setup.turns /\ e.nudges \in 0..setup.nudges
                  /\ e.tries \in 1..(IF setup.attempts > 3 THEN setup.attempts ELSE 3)
                  /\ e.file \in Files /\ e.probed \subseteq Files
                  /\ e.box \in {"none", "live", "lost", "killed", "left", "abandoned"}
                  /\ (e.box \in {"live", "lost"}) => e.pc \in Holding
    <3>1. EpisodeOK(ep[t]) /\ TrialOK(t)
      BY DEF Order, EpisodesOK, Books
    <3>2. ep[t].pc \in {"queued", "permit"} \cup Holding \cup Ended
      BY <3>1 DEF EpisodeOK, Holding, Ended
    <3> QED
      BY <3>1, <3>2 DEF TrialOK, Typed
  <2> QED
    BY <2>1, <2>2 DEF TypeOK, Order, Books
<1> QED
  BY <1>1, EpisodesInOrder, BooksKept, PTL

\* When evaluate_records is over no trial runs, every permit and slot is back,
\* and a summary is over a complete set of rows, one for each trial.
THEOREM CleanEnd == Spec => []EvaluationClean
<1>1. Order /\ Books /\ Stages => EvaluationClean
  <2> SUFFICES ASSUME Order, Books, Stages, stage \in {"raised", "returned"}
               PROVE  /\ \A t \in Trials : ep[t].pc \in {"queued"} \cup Ended
                      /\ permits = setup.permits /\ slots = setup.slots
                      /\ stage = "returned" =>
                           /\ Complete
                           /\ \A t \in DOMAIN setup.plan :
                                \E k \in 1..Len(rows) :
                                  /\ rows[k].trial = t
                                  /\ rows[k].reward = ep[t].reward
                           /\ Len(rows) = Cardinality(DOMAIN setup.plan)
    BY DEF EvaluationClean
  <2>1. \A t \in Trials : ep[t].pc \in {"queued"} \cup Ended
    BY DEF Stages
  <2>2. permits = setup.permits /\ slots = setup.slots
    <3>1. At(Holding) = {} /\ At(Admitted) = {}
      BY <2>1 DEF At, Holding, Admitted, Generation, Grading, Ended
    <3>2. Cardinality({}) = 0
      BY FS_EmptySet
    <3> QED
      BY <3>1, <3>2, BudgetsAre DEF Books, Order
  <2>3. ASSUME stage = "returned"
        PROVE  /\ Complete
               /\ \A t \in DOMAIN setup.plan :
                    \E k \in 1..Len(rows) :
                      /\ rows[k].trial = t
                      /\ rows[k].reward = ep[t].reward
               /\ Len(rows) = Cardinality(DOMAIN setup.plan)
    <3>1. Complete /\ Booked /\ \A t \in DOMAIN setup.plan : ep[t].pc = "done"
      BY <2>3 DEF Stages
    <3>2. DOMAIN setup.plan \subseteq Trials
      BY BudgetsAre DEF Order
    <3>3. At({"done"}) = DOMAIN setup.plan
      BY <3>1, <3>2 DEF At, Books, TrialOK
    <3> QED
      BY <3>1, <3>2, <3>3 DEF Booked
  <2> QED
    BY <2>1, <2>2, <2>3
<1> QED
  BY <1>1, EpisodesInOrder, BooksKept, PTL
=============================================================================
