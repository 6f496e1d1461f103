------------------------------ MODULE Episode ------------------------------
(***************************************************************************)
(* The prover episodes of rl/generate_with_prover.py: generate, with the   *)
(* turn loop of run_episode over the token stream of rl/token_stream.py,   *)
(* the phases of _grade, and the file transfer of rl/sandbox.py.           *)
(*                                                                         *)
(* Episodes are tasks of one asyncio loop: an action is the code between   *)
(* two awaits, and pc names the await an episode is in.  The router, the   *)
(* sandbox and the verifier that runs in it answer late, wrongly or not.   *)
(* The task file is one of four contents; what the spec guard does to it   *)
(* is the subject of AgentLoop.  Time passes in setups that are timed,     *)
(* elsewhere a deadline may fire at any time.                              *)
(***************************************************************************)
EXTENDS Verifier, Sequences, FiniteSets

CONSTANTS
  Trials, Tasks,
  Setups,                     \* one of them is chosen: see SetupType
  \* The limits of the timed setups, in steps of the clock.
  WallTimeBudget, RouterTimeout, EpisodeTimeoutSetting,
  GRADE_UPLOAD_TIMEOUT, GRADE_TIMEOUT, GRADE_REWARD_TIMEOUT, SCHEDULING_MARGIN

\* plan: the trials that take part, each with its task and sample index;
\* samples: per task; permits, slots: of the sandbox semaphore and of that of
\* the evaluation; trouble: how many results its early stop looks at;
\* existing: the output is there already; interrupts: the evaluation may be
\* cancelled from outside.
\* turns, total, nudges, calls, reply: max_turns, max_total_tokens,
\* max_truncation_nudges, and bounds on tool calls and tokens of a reply.
\* attempts: of a safe operation.  faulty: the environment may fail.
\* timed: time passes.
SetupType(s) ==
  /\ DOMAIN s.plan \subseteq Trials
  /\ \A t \in DOMAIN s.plan : s.plan[t] \in Tasks \X (0..Cardinality(Trials))
  /\ {s.samples, s.permits, s.slots, s.trouble, s.turns, s.attempts} \subseteq Nat \ {0}
  /\ {s.total, s.nudges, s.calls, s.reply} \subseteq Nat
  /\ {s.existing, s.interrupts, s.faulty, s.timed} \subseteq BOOLEAN

ASSUME EpisodeAssumption ==
  /\ IsFiniteSet(Trials) /\ \A s \in Setups : SetupType(s)
  /\ {WallTimeBudget, RouterTimeout, EpisodeTimeoutSetting, GRADE_UPLOAD_TIMEOUT,
      GRADE_TIMEOUT, GRADE_REWARD_TIMEOUT, SCHEDULING_MARGIN} \subseteq Nat \ {0}

VARIABLES
  setup,
  ep,       \* the state of each trial's task
  permits   \* _sandbox_semaphore

episodeVars == <<setup, ep, permits>>

\* The task file: with its sorry, without but not compiling, compiling but
\* nothing the verifier accepts, and a proof.
Files == {"open", "broken", "loose", "proof"}
Eligible(file) == file # "open"
Compiles(file) == file # "broken"

Submission(file, crash) ==
  [grader |-> "file", readable |-> TRUE, sorries |-> file = "open",
   intact |-> TRUE, forbidden |-> FALSE,
   lean |-> IF Compiles(file) THEN "accepts" ELSE "rejects",
   axioms |-> IF file = "proof" THEN "standard" ELSE "extra", crash |-> crash]

\* Tokens by where they come from; "end" is a sampled <|im_end|>, "closing"
\* the synthetic one.
Sampled == {"text", "end"}
Prompt == <<"prompt">>
Unstarted == [tokens |-> <<>>, mask |-> <<>>, logprobs |-> 0]

Generation == {"upload", "surface", "model", "tool", "probe"}
Grading == {"tests", "verify", "read"}
Holding == {"create", "close"} \cup Generation \cup Grading

Nobody == [pc |-> "queued", turn |-> 0, stream |-> Unstarted, nudges |-> 0,
           calls |-> 0, file |-> "open", late |-> FALSE, probed |-> {},
           status |-> "none", tries |-> 1, runs |-> 0, judged |-> "none",
           verdict |-> NoCheck, reward |-> 0, failure |-> "none",
           box |-> "none", clock |-> 0, until |-> 0, slack |-> 0]

Set(t, e) == ep' = [ep EXCEPT ![t] = e]
-----------------------------------------------------------------------------
(***************************************************************************)
(* Deadlines.  until is the end of the phase's own timeout, slack what the *)
(* event loop was late with it so far.                                     *)
(***************************************************************************)
GenerationTimeout == WallTimeBudget + RouterTimeout

\* Mutant: the reserve forgets the reading of the reward.
EpisodeTimeoutShort ==
  LET minimum == GenerationTimeout + GRADE_UPLOAD_TIMEOUT + GRADE_TIMEOUT
  IN IF EpisodeTimeoutSetting > minimum THEN EpisodeTimeoutSetting ELSE minimum

EffectiveEpisodeTimeout ==
  LET minimum == GenerationTimeout + GRADE_UPLOAD_TIMEOUT + GRADE_TIMEOUT
                 + GRADE_REWARD_TIMEOUT + SCHEDULING_MARGIN
  IN IF EpisodeTimeoutSetting > minimum THEN EpisodeTimeoutSetting ELSE minimum

In(e, phase, limit) == [e EXCEPT !.pc = phase, !.until = e.clock + limit, !.tries = 1]

\* External: a step of the clock while the episode waits.
Tick(t) ==
  LET e == ep[t]
  IN /\ setup.timed /\ e.pc \in Generation \cup Grading
     /\ \/ /\ e.clock < e.until
           /\ Set(t, [e EXCEPT !.clock = @ + 1])
        \/ /\ e.clock >= e.until /\ e.slack + 1 < SCHEDULING_MARGIN
           /\ Set(t, [e EXCEPT !.clock = @ + 1, !.slack = @ + 1])
     /\ UNCHANGED <<setup, permits>>

\* The wall time is looked at before a turn and before a tool call.
WallTimeSpent(e) == IF setup.timed THEN {e.clock >= WallTimeBudget} ELSE BOOLEAN

\* _mark_failed empties the sample; a cancelled one is nobody's.
Marked(e) ==
  IF e.failure = "none" THEN e
  ELSE [e EXCEPT !.stream = Unstarted, !.status = "failed", !.reward = 0]

\* An exception of the episode: its locals are gone, the sample will be marked.
Fail(e, why) == [Nobody EXCEPT !.pc = "close", !.failure = why, !.box = e.box]

DeadlineFires(t) ==
  LET e == ep[t]
  IN /\ e.pc \in Generation \cup Grading
     /\ setup.timed => e.clock >= e.until
     /\ setup.faulty
     /\ Set(t, Fail(e, "error"))
     /\ UNCHANGED <<setup, permits>>

EpisodeDeadlineFires(t) ==
  LET e == ep[t]
  IN /\ e.pc \in Generation \cup Grading
     /\ setup.timed /\ e.clock >= EffectiveEpisodeTimeout
     /\ Set(t, Fail(e, "EpisodeTimeout"))
     /\ UNCHANGED <<setup, permits>>
-----------------------------------------------------------------------------
(***************************************************************************)
(* The token stream.                                                       *)
(***************************************************************************)
Remaining(e) == setup.total - Len(e.stream.tokens)

Extended(s, tokens, mask) ==
  [tokens |-> s.tokens \o tokens,
   mask |-> s.mask \o [k \in 1..Len(tokens) |-> mask],
   logprobs |-> s.logprobs + Len(tokens)]

\* A turn that was cut off is closed by a token nobody trains on.
ClosedTurn(s) ==
  IF s.tokens[Len(s.tokens)] = "end" THEN s ELSE Extended(s, <<"closing">>, 0)

\* Everything the model may say with so many tokens at most, and whether it
\* was cut off by that limit.
Said(limit) ==
  {[tokens |-> [k \in 1..n |-> IF ends /\ k = n THEN "end" ELSE "text"],
    cut |-> cut] : n \in 1..limit, ends \in BOOLEAN, cut \in BOOLEAN}

Replies(limit) ==
  {r \in Said(limit) : r.cut => /\ Len(r.tokens) = limit
                               /\ r.tokens[limit] = "text"}

\* Mutant: the whole rest of the budget is asked for.
MaxNewTokensAll(e) == IF Remaining(e) < setup.reply THEN Remaining(e) ELSE setup.reply

\* One token stays in reserve for closing the turn.
MaxNewTokens(e) ==
  IF Remaining(e) - 1 < setup.reply THEN Remaining(e) - 1 ELSE setup.reply
-----------------------------------------------------------------------------
(***************************************************************************)
(* Between the awaits of run_episode.                                      *)
(***************************************************************************)
Validated(e) ==
  LET s == e.stream
  IN /\ Len(s.tokens) <= setup.total
     /\ Len(s.mask) = Len(s.tokens) - Len(Prompt)
     /\ s.logprobs = Len(s.mask)

\* The loop is left: the stream is checked, then the test files are sent.
Stopped(e, status) ==
  IF Validated(e) THEN In([e EXCEPT !.status = status], "tests", GRADE_UPLOAD_TIMEOUT)
  ELSE Fail(e, "invariant")

\* The top of the loop: another request, or one of three ends.
LoopTop(t, e) ==
  \/ /\ e.turn = setup.turns
     /\ Set(t, Stopped(e, "truncated"))
  \/ /\ e.turn < setup.turns /\ TRUE \in WallTimeSpent(e)
     /\ Set(t, Stopped(e, "truncated"))
  \/ /\ e.turn < setup.turns /\ FALSE \in WallTimeSpent(e) /\ Remaining(e) <= 1
     /\ Set(t, Stopped([e EXCEPT !.turn = @ + 1], "truncated"))
  \/ /\ e.turn < setup.turns /\ FALSE \in WallTimeSpent(e) /\ Remaining(e) > 1
     /\ Set(t, [e EXCEPT !.turn = @ + 1, !.pc = "model"])

\* The answers to a turn go in completely or not at all.
FollowUp(t, e) ==
  \E n \in 1..2 :
    \/ /\ n > Remaining(e)
       /\ Set(t, Stopped(e, "truncated"))
    \/ /\ n <= Remaining(e)
       /\ LoopTop(t, [e EXCEPT !.stream =
                        Extended(@, [k \in 1..n |-> "injected"], 0)])

\* The next tool call of the reply, or the next turn after the last.
NextCall(t, e) ==
  \/ e.calls = 0 /\ FollowUp(t, e)
  \/ /\ e.calls > 0 /\ TRUE \in WallTimeSpent(e)
     /\ Set(t, Stopped(e, "truncated"))
  \/ /\ e.calls > 0 /\ FALSE \in WallTimeSpent(e)
     /\ Set(t, [e EXCEPT !.pc = "tool", !.calls = @ - 1])
-----------------------------------------------------------------------------
(***************************************************************************)
(* generate, up to the first turn.                                         *)
(***************************************************************************)
BadTask(t) ==
  /\ ep[t].pc = "queued" /\ setup.faulty
  /\ Set(t, Marked([ep[t] EXCEPT !.pc = "done", !.failure = "error"]))
  /\ UNCHANGED <<setup, permits>>

Begin(t) ==
  /\ ep[t].pc = "queued"
  /\ Set(t, [ep[t] EXCEPT !.pc = "permit"])
  /\ UNCHANGED <<setup, permits>>

GetPermit(t) ==
  /\ ep[t].pc = "permit" /\ permits > 0
  /\ permits' = permits - 1
  /\ Set(t, [ep[t] EXCEPT !.pc = "create"])
  /\ UNCHANGED setup

CreateFails(t) ==
  /\ ep[t].pc = "create" /\ setup.faulty
  /\ permits' = permits + 1
  /\ Set(t, Marked([ep[t] EXCEPT !.pc = "done", !.failure = "error"]))
  /\ UNCHANGED setup

Created(t) ==
  /\ ep[t].pc = "create"
  /\ Set(t, In([ep[t] EXCEPT !.box = "live"], "upload", GenerationTimeout))
  /\ UNCHANGED <<setup, permits>>

\* _retry_safe_operation around the files of the task, or of the verifier: a
\* transient error is tried again on a new connection, with the same bytes.
UploadRetried(t) ==
  LET e == ep[t]
  IN /\ e.pc \in {"upload", "tests"} /\ setup.faulty
     /\ e.box = "live" /\ e.tries < setup.attempts
     /\ Set(t, [e EXCEPT !.tries = @ + 1])
     /\ UNCHANGED <<setup, permits>>

\* Also what is not transient, or the end of the attempts, or of the connection.
UploadFails(t) ==
  LET e == ep[t]
  IN /\ e.pc \in {"upload", "tests"} /\ (setup.faulty \/ e.box = "lost")
     /\ Set(t, Fail(e, "error"))
     /\ UNCHANGED <<setup, permits>>

TaskUploaded(t) ==
  /\ ep[t].pc = "upload" /\ ep[t].box = "live"
  /\ Set(t, [ep[t] EXCEPT !.pc = "surface",
                          !.stream = [@ EXCEPT !.tokens = Prompt]])
  /\ UNCHANGED <<setup, permits>>

SurfaceReady(t) ==
  /\ ep[t].pc = "surface" /\ ep[t].box = "live"
  /\ LoopTop(t, ep[t])
  /\ UNCHANGED <<setup, permits>>

SurfaceFails(t) ==
  /\ ep[t].pc = "surface" /\ (setup.faulty \/ ep[t].box = "lost")
  /\ Set(t, Fail(ep[t], "error"))
  /\ UNCHANGED <<setup, permits>>
-----------------------------------------------------------------------------
(***************************************************************************)
(* A turn.                                                                 *)
(***************************************************************************)

\* The reply is stored and closed, then what it says is decoded.
Replied(t) ==
  LET e == ep[t]
  IN /\ e.pc = "model"
     /\ \E r \in Replies(MaxNewTokens(e)), says \in {"calls", "errors", "nothing"} :
          LET heard == [e EXCEPT !.stream = ClosedTurn(Extended(@, r.tokens, 1))]
          IN \/ says = "errors" /\ FollowUp(t, heard)
             \/ /\ says = "nothing" /\ r.cut /\ e.nudges < setup.nudges
                /\ FollowUp(t, [heard EXCEPT !.nudges = @ + 1])
             \/ /\ says = "nothing" /\ r.cut /\ e.nudges >= setup.nudges
                /\ Set(t, Stopped(heard, "truncated"))
             \/ /\ says = "nothing" /\ ~r.cut
                /\ Set(t, Stopped(heard, "completed"))
             \/ /\ says = "calls"
                /\ \E n \in 1..setup.calls :
                     NextCall(t, [heard EXCEPT !.nudges = 0, !.calls = n])
     /\ UNCHANGED <<setup, permits>>

\* A timeout, an error of the router, or an answer that is not what was asked
\* for: too many tokens, or not as many logprobs.
RouterFails(t) ==
  /\ ep[t].pc = "model" /\ setup.faulty
  /\ Set(t, Fail(ep[t], "error"))
  /\ UNCHANGED <<setup, permits>>

\* One tool call with its guard.  Errors of the sandbox become its result; a
\* request that gave up may leave its command running.  After a tool that may
\* write the file is read, and if it looks done and is new it is compiled.
ToolReturns(t) ==
  LET e == ep[t]
  IN /\ e.pc = "tool"
     /\ \/ NextCall(t, e)
        \/ /\ e.box = "live"
           /\ \E file \in Files, late \in {e.late, setup.faulty} :
                LET written == [e EXCEPT !.file = file, !.late = late]
                IN \/ /\ Eligible(file) /\ file \notin e.probed
                      /\ Set(t, [written EXCEPT !.pc = "probe",
                                                !.probed = @ \cup {file}])
                   \/ (~Eligible(file) \/ file \in e.probed) /\ NextCall(t, written)
                   \/ setup.faulty /\ NextCall(t, written)      \* not readable
     /\ UNCHANGED <<setup, permits>>

\* Arguments no command can be made of.
ToolRaises(t) ==
  /\ ep[t].pc = "tool"
  /\ Set(t, Fail(ep[t], "error"))
  /\ UNCHANGED <<setup, permits>>

\* A probe that passes ends the generation, any other outcome does not.
Probed(t) ==
  LET e == ep[t]
  IN /\ e.pc = "probe"
     /\ \/ e.box = "live" /\ Compiles(e.file) /\ Set(t, Stopped(e, "completed"))
        \/ (setup.faulty \/ ~Compiles(e.file)) /\ NextCall(t, e)
     /\ UNCHANGED <<setup, permits>>

\* External: a command that is still running writes the file.
LateWrite(t) ==
  /\ ep[t].late /\ ep[t].box = "live"
  /\ \E file \in Files : Set(t, [ep[t] EXCEPT !.file = file, !.late = FALSE])
  /\ UNCHANGED <<setup, permits>>

\* External: the provider loses the instance.
SandboxLost(t) ==
  /\ ep[t].box = "live" /\ setup.faulty
  /\ ep[t].pc \in Generation \cup Grading
  /\ Set(t, [ep[t] EXCEPT !.box = "lost"])
  /\ UNCHANGED <<setup, permits>>
-----------------------------------------------------------------------------
(***************************************************************************)
(* _grade.                                                                 *)
(***************************************************************************)
TestsUploaded(t) ==
  /\ ep[t].pc = "tests" /\ ep[t].box = "live"
  /\ Set(t, In([ep[t] EXCEPT !.runs = @ + 1, !.verdict = NoCheck],
               "verify", GRADE_TIMEOUT))
  /\ UNCHANGED <<setup, permits>>

\* External: the verifier reads the task file, once, and publishes.
VerifierPublishes(t) ==
  LET e == ep[t]
  IN /\ e.pc = "verify" /\ e.box = "live" /\ e.verdict = NoCheck
     /\ \E crash \in {FALSE, setup.faulty} :
          Set(t, [e EXCEPT !.verdict = Grade(Submission(e.file, crash)),
                           !.judged = e.file])
     /\ UNCHANGED <<setup, permits>>

VerifierEnds(t) ==
  /\ ep[t].pc = "verify" /\ ep[t].box = "live" /\ ep[t].verdict # NoCheck
  /\ Set(t, In(ep[t], "read", GRADE_REWARD_TIMEOUT))
  /\ UNCHANGED <<setup, permits>>

\* A request whose answer is lost looks like a command that failed.
VerifierFails(t) ==
  /\ ep[t].pc = "verify" /\ (setup.faulty \/ ep[t].box = "lost")
  /\ Set(t, Fail(ep[t], "error"))
  /\ UNCHANGED <<setup, permits>>

\* Mutant: after a failed reading the verifier is started again.
ReadRetriedFromStart(t) ==
  LET e == ep[t]
  IN /\ e.pc = "read" /\ e.tries < 3 /\ (setup.faulty \/ e.box = "lost")
     /\ Set(t, In([e EXCEPT !.runs = @ + 1, !.verdict = NoCheck],
                  "verify", GRADE_TIMEOUT))
     /\ UNCHANGED <<setup, permits>>

\* Mutant: one attempt too many.
ReadRetriedOnceMore(t) ==
  LET e == ep[t]
  IN /\ e.pc = "read" /\ e.tries <= 3 /\ (setup.faulty \/ e.box = "lost")
     /\ Set(t, [e EXCEPT !.tries = @ + 1])
     /\ UNCHANGED <<setup, permits>>

ReadRetried(t) ==
  LET e == ep[t]
  IN /\ e.pc = "read" /\ e.tries < 3 /\ (setup.faulty \/ e.box = "lost")
     /\ Set(t, [e EXCEPT !.tries = @ + 1])
     /\ UNCHANGED <<setup, permits>>

ReadFails(t) ==
  LET e == ep[t]
  IN /\ e.pc = "read" /\ e.tries = 3 /\ (setup.faulty \/ e.box = "lost")
     /\ Set(t, Fail(e, "error"))
     /\ UNCHANGED <<setup, permits>>

RewardRead(t) ==
  LET e == ep[t]
  IN /\ e.pc = "read" /\ e.box = "live"
     /\ Set(t, [Nobody EXCEPT !.pc = "close", !.stream = e.stream, !.box = e.box,
                    !.status = e.status, !.runs = e.runs, !.judged = e.judged,
                    !.verdict = e.verdict, !.reward = e.verdict["reward"]])
     /\ UNCHANGED <<setup, permits>>
-----------------------------------------------------------------------------
(***************************************************************************)
(* The end of generate.                                                    *)
(***************************************************************************)

\* close tries three times to kill the instance, then leaves it to its lifetime.
Closed(t) ==
  LET e == ep[t]
  IN /\ e.pc = "close" /\ e.failure # "cancelled"
     /\ \E box \in {"killed", "left"} :
          /\ box = "left" => setup.faulty
          /\ Set(t, Marked([e EXCEPT !.pc = "done", !.box = box]))
     /\ permits' = permits + 1
     /\ UNCHANGED setup

\* A CancelledError at the await an episode is in.  create waits for the
\* instance it has asked for, if it gets one, and closes it.
CancelledAt(e, allocated) ==
  CASE e.pc \in {"queued", "permit"} -> [e EXCEPT !.pc = "gone"]
    [] e.pc = "create" -> IF allocated THEN Fail([e EXCEPT !.box = "live"], "cancelled")
                          ELSE [e EXCEPT !.pc = "gone"]
    [] e.pc \in Generation \cup Grading -> Fail(e, "cancelled")
    [] e.pc = "close" -> [e EXCEPT !.pc = "gone", !.box = "abandoned"]
    [] OTHER -> e

ClosedCancelled(t) ==
  LET e == ep[t]
  IN /\ e.pc = "close" /\ e.failure = "cancelled"
     /\ Set(t, [e EXCEPT !.pc = "gone", !.box = "killed"])
     /\ permits' = permits + 1
     /\ UNCHANGED setup

Advance(t) ==
  \/ GetPermit(t) \/ Created(t) \/ TaskUploaded(t) \/ UploadRetried(t)
  \/ UploadFails(t) \/ SurfaceReady(t) \/ SurfaceFails(t)
  \/ Replied(t) \/ RouterFails(t) \/ ToolReturns(t) \/ ToolRaises(t) \/ Probed(t)
  \/ TestsUploaded(t) \/ VerifierPublishes(t) \/ VerifierEnds(t) \/ VerifierFails(t)
  \/ ReadRetried(t) \/ ReadFails(t) \/ RewardRead(t)
  \/ DeadlineFires(t) \/ EpisodeDeadlineFires(t)

Environment(t) == Tick(t) \/ LateWrite(t) \/ SandboxLost(t)
=============================================================================
