------------------------------ MODULE AgentLoop ------------------------------
(***************************************************************************)
(* The qwen-native agent of agents/qwen_native_agent.py: the loop of model *)
(* requests and tool calls of run, with its budgets, nudges and context    *)
(* compactions, and the guard that looks at the task file after every tool *)
(* call that may have changed it.                                          *)
(*                                                                         *)
(* An action ends at an await: the request, the tool, the guard's reading  *)
(* and the guard's writing of the file are different steps, and a command  *)
(* that an earlier tool call left running may write between any two.       *)
(***************************************************************************)
EXTENDS SpecGuard

CONSTANTS
  Specs,                  \* what the task file may be at the start
  Edits,                  \* what a command may leave in its place
  Absent,                 \* no file there, or no content known
  Agents,                 \* configurations: stopOnLength, nativeTools, compaction
  MaxCalls,               \* max_api_calls
  MaxCompactions,         \* max_compactions
  MAX_TRUNCATION_NUDGES,
  Attempts,               \* of _post_with_retry (16)
  MaxToolCalls            \* bound: tool calls in one reply

ASSUME AgentAssumption ==
  /\ Specs \cup Edits \subseteq Seq(Lines) /\ Absent \notin Specs \cup Edits
  /\ Agents \subseteq
       [stopOnLength : BOOLEAN, nativeTools : BOOLEAN, compaction : BOOLEAN]
  /\ MaxCalls \in Nat \ {0} /\ MaxCompactions \in Nat
  /\ MAX_TRUNCATION_NUDGES \in Nat
  /\ Attempts \in Nat \ {0} /\ MaxToolCalls \in Nat \ {0}

VARIABLES
  agent,      \* the configuration of this run
  spec,       \* the task as the verifier knows it
  file,       \* the task file in the sandbox
  late,       \* a command that timed out is still running there
  original,   \* _guard_original
  lastGood,   \* _guard_last_good
  disturbed,  \* the file was written, or kept from being restored, since
              \* the guard last saw or put the right thing
  phase,      \* the await run is suspended in
  attempt,    \* of _post_with_retry
  calls,      \* call_idx
  full,       \* last_prompt_tokens + max_tokens >= context_soft_limit
  compactions, truncations, postCompaction,
              \* n_compactions, n_truncation_nudges, post_compaction_nudge
  todo,       \* tool calls of the reply still to be dispatched
  talk,       \* messages: the last role, the announced calls without a
              \* result, and whether a result answers no announced call
  reason      \* stop_reason, once run has returned

guardVars == <<original, lastGood, disturbed>>
loopVars == <<attempt, calls, full, compactions, truncations, postCompaction,
              todo, talk, reason>>
vars == <<agent, spec, file, late, guardVars, phase, loopVars>>

Files == Specs \cup Edits \cup {Absent}

Reasons == {"none", "final_answer", "context_soft_limit", "truncated",
            "request_transport_error", "request_rejected_400",
            "truncated_without_tool_call"}

Phases == {"begin", "top", "request", "tool", "read", "restore",
           "returned", "raised"}

TypeOK ==
  /\ agent \in Agents /\ spec \in Specs /\ file \in Files
  /\ late \in BOOLEAN /\ disturbed \in BOOLEAN
  /\ original \in {spec, Absent} /\ lastGood \in Files
  /\ original = Absent <=> lastGood = Absent
  /\ phase \in Phases
  /\ attempt \in 0..(Attempts - 1) /\ calls \in 0..MaxCalls
  /\ full \in BOOLEAN /\ postCompaction \in BOOLEAN
  /\ compactions \in 0..MaxCompactions
  /\ truncations \in 0..MAX_TRUNCATION_NUDGES
  /\ todo \in 0..MaxToolCalls
  /\ talk \in [last : {"user", "assistant", "tool"}, open : 0..MaxToolCalls,
               orphan : BOOLEAN]
  /\ reason \in Reasons
  /\ phase = "returned" <=> reason # "none"

Init ==
  /\ agent \in Agents /\ spec \in Specs /\ file = spec
  /\ late = FALSE /\ disturbed = FALSE
  /\ original = Absent /\ lastGood = Absent
  /\ phase = "begin"
  /\ attempt = 0 /\ calls = 0
  /\ full \in BOOLEAN       \* max_tokens alone may reach the limit
  /\ compactions = 0 /\ truncations = 0 /\ postCompaction = FALSE
  /\ todo = 0
  /\ talk = [last |-> "user", open |-> 0, orphan |-> FALSE]
  /\ reason = "none"
-----------------------------------------------------------------------------
(***************************************************************************)
(* The loop around the requests.                                           *)
(***************************************************************************)
Return(why) == phase' = "returned" /\ reason' = why

\* The beginning of run: the guard takes the file it can read as the
\* original.  A task without a path or a failed reading leaves it off.
Begin ==
  /\ phase = "begin"
  /\ original' \in {file, Absent} /\ lastGood' = original'
  /\ phase' = "top"
  /\ UNCHANGED <<agent, spec, file, late, disturbed, loopVars>>

\* for call_idx in range(max_api_calls) is exhausted; stop_reason still has
\* the value it was given before the loop.
CallsExhausted ==
  /\ phase = "top" /\ calls = MaxCalls
  /\ Return("final_answer")
  /\ UNCHANGED <<agent, spec, file, late, guardVars, attempt, calls, full,
                 compactions, truncations, postCompaction, todo, talk>>

ContextExhausted ==
  /\ phase = "top" /\ calls < MaxCalls /\ full
  /\ ~agent.compaction \/ compactions >= MaxCompactions
  /\ Return("context_soft_limit")
  /\ UNCHANGED <<agent, spec, file, late, guardVars, attempt, calls, full,
                 compactions, truncations, postCompaction, todo, talk>>

\* _compact_context: whatever the summary request answers, the messages
\* become one user turn.
Compact ==
  /\ phase = "top" /\ calls < MaxCalls /\ full
  /\ agent.compaction /\ compactions < MaxCompactions
  /\ compactions' = compactions + 1
  /\ talk' = [last |-> "user", open |-> 0, orphan |-> FALSE]
  /\ full' = FALSE /\ postCompaction' = TRUE
  /\ phase' = "request"
  /\ UNCHANGED <<agent, spec, file, late, guardVars, attempt, calls,
                 truncations, todo, reason>>

\* Mutant: the request goes out before the budget of calls is looked at.
SendRequestUncounted ==
  /\ phase = "top" /\ ~full
  /\ phase' = "request"
  /\ UNCHANGED <<agent, spec, file, late, guardVars, loopVars>>

SendRequest ==
  /\ phase = "top" /\ calls < MaxCalls /\ ~full
  /\ phase' = "request"
  /\ UNCHANGED <<agent, spec, file, late, guardVars, loopVars>>

\* Mutant: the attempts are counted from the last kind of failure.
RetryForEver ==
  /\ phase = "request"
  /\ attempt' = (attempt + 1) % Attempts
  /\ UNCHANGED <<agent, spec, file, late, guardVars, phase, calls, full,
       compactions, truncations, postCompaction, todo, talk, reason>>

\* _post_with_retry: a transport error, a 429, a 5xx or a garbled 2xx.
Retry ==
  /\ phase = "request"
  /\ IF attempt + 1 < Attempts
       THEN attempt' = attempt + 1 /\ UNCHANGED <<phase, reason>>
       ELSE attempt' = 0 /\ Return("request_transport_error")
  /\ UNCHANGED <<agent, spec, file, late, guardVars, calls, full, compactions,
                 truncations, postCompaction, todo, talk>>

Rejected ==
  /\ phase = "request"
  /\ attempt' = 0 /\ Return("request_rejected_400")
  /\ UNCHANGED <<agent, spec, file, late, guardVars, calls, full, compactions,
                 truncations, postCompaction, todo, talk>>

\* Any other status, or JSON without a choice: raise_for_status, KeyError.
UnusableResponse ==
  /\ phase = "request"
  /\ attempt' = 0 /\ phase' = "raised"
  /\ UNCHANGED <<agent, spec, file, late, guardVars, calls, full, compactions,
                 truncations, postCompaction, todo, talk, reason>>
-----------------------------------------------------------------------------
(***************************************************************************)
(* A reply: its number of tool calls n, whether it was cut off by the token*)
(* limit, whether the codec reported protocol errors.                      *)
(***************************************************************************)
Said(n) == [talk EXCEPT !.last = "assistant", !.open = n]

\* usage may be missing: last_prompt_tokens keeps its value then.
Heard == phase = "request" /\ attempt' = 0 /\ full' \in BOOLEAN

NextCall == phase' = "top" /\ calls' = calls + 1

ReplyCutOff(n) ==
  /\ Heard /\ agent.stopOnLength
  /\ talk' = Said(n)
  /\ Return("truncated")
  /\ UNCHANGED <<agent, spec, file, late, guardVars, calls, compactions,
                 truncations, postCompaction, todo>>

\* Mutant: protocol errors are reported the same way on every wire.
ReplyMalformedAnyWire(cut) ==
  /\ Heard /\ ~(cut /\ agent.stopOnLength)
  /\ talk' = [Said(0) EXCEPT !.last = "tool", !.orphan = TRUE]
  /\ NextCall
  /\ UNCHANGED <<agent, spec, file, late, guardVars, compactions, truncations,
                 postCompaction, todo, reason>>

\* The native wire gets the errors as a user turn, the textual one as
\* results of calls that were never announced.
ReplyMalformed(cut) ==
  /\ Heard /\ ~(cut /\ agent.stopOnLength)
  /\ talk' = IF agent.nativeTools THEN [Said(0) EXCEPT !.last = "user"]
             ELSE [Said(0) EXCEPT !.last = "tool", !.orphan = TRUE]
  /\ NextCall
  /\ UNCHANGED <<agent, spec, file, late, guardVars, compactions, truncations,
                 postCompaction, todo, reason>>

TruncationNudge ==
  /\ Heard /\ ~agent.stopOnLength
  /\ truncations < MAX_TRUNCATION_NUDGES
  /\ truncations' = truncations + 1
  /\ talk' = [Said(0) EXCEPT !.last = "user"]
  /\ NextCall
  /\ UNCHANGED <<agent, spec, file, late, guardVars, compactions,
                 postCompaction, todo, reason>>

TruncatedForGood ==
  /\ Heard /\ ~agent.stopOnLength
  /\ truncations >= MAX_TRUNCATION_NUDGES
  /\ talk' = Said(0)
  /\ Return("truncated_without_tool_call")
  /\ UNCHANGED <<agent, spec, file, late, guardVars, calls, compactions,
                 truncations, postCompaction, todo>>

PostCompactionNudge ==
  /\ Heard /\ postCompaction
  /\ postCompaction' = FALSE
  /\ talk' = [Said(0) EXCEPT !.last = "user"]
  /\ NextCall
  /\ UNCHANGED <<agent, spec, file, late, guardVars, compactions, truncations,
                 todo, reason>>

FinalAnswer ==
  /\ Heard /\ ~postCompaction
  /\ talk' = Said(0)
  /\ Return("final_answer")
  /\ UNCHANGED <<agent, spec, file, late, guardVars, calls, compactions,
                 truncations, postCompaction, todo>>

ReplyWithCalls(n, cut) ==
  /\ Heard /\ ~(cut /\ agent.stopOnLength)
  /\ talk' = Said(n) /\ todo' = n
  /\ truncations' = 0 /\ postCompaction' = FALSE
  /\ phase' = "tool"
  /\ UNCHANGED <<agent, spec, file, late, guardVars, calls, compactions,
                 reason>>

-----------------------------------------------------------------------------
(***************************************************************************)
(* The tool calls of a reply, one after the other, each with its guard.    *)
(***************************************************************************)

\* The result is appended, and after the last one the loop goes on.
Answered ==
  /\ talk' = [talk EXCEPT !.last = "tool", !.open = @ - 1]
  /\ todo' = todo - 1
  /\ IF todo = 1 THEN NextCall ELSE phase' = "tool" /\ UNCHANGED calls
  /\ UNCHANGED <<attempt, full, compactions, truncations, postCompaction,
                 reason>>

\* A tool of _READONLY_TOOLS.
ToolReads ==
  /\ phase = "tool"
  /\ Answered
  /\ UNCHANGED <<agent, spec, file, late, guardVars>>

\* Any other tool does what it likes to the file, or nothing, as when the path
\* policy refuses it or it fails; one that times out may go on running.
ToolRuns(edit, runsOn) ==
  /\ phase = "tool"
  /\ file' = edit /\ late' = (late \/ runsOn)
  /\ IF original = Absent THEN Answered
     ELSE phase' = "read" /\ UNCHANGED loopVars
  /\ UNCHANGED <<agent, spec, guardVars>>

\* An argument _dispatch cannot convert.
ToolRaises ==
  /\ phase = "tool"
  /\ phase' = "raised"
  /\ UNCHANGED <<agent, spec, file, late, guardVars, loopVars>>

\* The guard read what it saw last, or a file whose read-only text is intact.
GuardAcceptsFile ==
  /\ phase = "read" /\ file # Absent
  /\ file = lastGood \/ GuardAccepts(original, file)
  /\ lastGood' = file /\ disturbed' = FALSE
  /\ Answered
  /\ UNCHANGED <<agent, spec, file, late, original>>

\* Mutant: the content is remembered before it is judged.
GuardRefusesRemembered ==
  /\ phase = "read" /\ file # Absent
  /\ file # lastGood /\ ~GuardAccepts(original, file)
  /\ lastGood' = file /\ phase' = "restore"
  /\ UNCHANGED <<agent, spec, file, late, original, disturbed, loopVars>>

GuardRefusesFile ==
  /\ phase = "read" /\ file # Absent
  /\ file # lastGood /\ ~GuardAccepts(original, file)
  /\ phase' = "restore"
  /\ UNCHANGED <<agent, spec, file, late, guardVars, loopVars>>

\* Mutant: nothing to read is nothing to object to.
GuardReadsNothingWrong ==
  /\ phase = "read"
  /\ Answered
  /\ UNCHANGED <<agent, spec, file, late, guardVars>>

\* _read_task_file answers None when there is no file and when exec fails.
GuardReadsNothing ==
  /\ phase = "read"
  /\ phase' = "restore"
  /\ UNCHANGED <<agent, spec, file, late, guardVars, loopVars>>

GuardRestores ==
  /\ phase = "restore"
  /\ file' = lastGood /\ disturbed' = FALSE
  /\ Answered
  /\ UNCHANGED <<agent, spec, late, original, lastGood>>

\* exec raised, or the command failed and nobody looked at its exit code.
RestoreFails ==
  /\ phase = "restore"
  /\ disturbed' = TRUE
  /\ Answered
  /\ UNCHANGED <<agent, spec, file, late, original, lastGood>>
-----------------------------------------------------------------------------
\* A command left behind by a tool call writes the file.
LateWrite(edit) ==
  /\ late
  /\ file' = edit /\ late' = FALSE /\ disturbed' = TRUE
  /\ UNCHANGED <<agent, spec, original, lastGood, phase, loopVars>>

\* The trial's own deadline cancels run at whatever await it is in.
Killed ==
  /\ phase \notin {"returned", "raised"}
  /\ phase' = "raised"
  /\ UNCHANGED <<agent, spec, file, late, guardVars, loopVars>>

Request == SendRequest \/ Retry \/ Rejected \/ UnusableResponse

Reply ==
  \/ TruncationNudge \/ TruncatedForGood \/ PostCompactionNudge \/ FinalAnswer
  \/ \E n \in 0..MaxToolCalls : ReplyCutOff(n)
  \/ \E cut \in BOOLEAN :
       \/ ReplyMalformed(cut)
       \/ \E n \in 1..MaxToolCalls : ReplyWithCalls(n, cut)

Tool ==
  \/ ToolReads \/ ToolRaises
  \/ \E edit \in Edits \cup {file, Absent}, runsOn \in BOOLEAN :
       ToolRuns(edit, runsOn)

Guard ==
  \/ GuardReadsNothing \/ GuardAcceptsFile \/ GuardRefusesFile
  \/ GuardRestores \/ RestoreFails

Run ==
  \/ Begin \/ CallsExhausted \/ ContextExhausted \/ Compact
  \/ Request \/ Reply \/ Tool \/ Guard

Next ==
  \/ Run \/ Killed
  \/ \E edit \in Edits \cup {Absent} : LateWrite(edit)

Spec == Init /\ [][Next]_vars /\ WF_vars(Run)
-----------------------------------------------------------------------------
(***************************************************************************)
(* Properties.                                                             *)
(***************************************************************************)
Guarded == original # Absent

\* An original the verifier can compare with: no marker of it is misplaced.
\* GuardIsExact says that every protectable one is.
Comparable == HasMarkers(spec) => ~Malformed(spec)

\* On an original whose markers are in pairs, the automaton of the guard and
\* that of the verifier both accept exactly the files that differ in white
\* space and in the bodies of editable sections only (spec_guard.py:69,
\* grade.py:139): one that is stricter throws work away, one that is laxer
\* lets a changed specification through.
GuardIsExact ==
  phase = "read" /\ file # Absent /\ Protectable(spec) =>
    /\ Comparable
    /\ GuardAccepts(spec, file) <=> OnlyBodiesDiffer(spec, file)
    /\ VerifierAccepts(spec, file) <=> OnlyBodiesDiffer(spec, file)

\* What the guard would put back is always something the verifier accepts,
\* however many edits, restorations and late writes went before
\* (qwen_native_agent.py:336).
LastGoodIntact ==
  Guarded /\ Comparable => VerifierAccepts(spec, lastGood)

\* Between tool calls, and when run returns, a guarded task file is there and
\* its specification is intact, unless the sandbox refused the restoration or
\* a left-over command wrote behind the guard's back.
GuardedFileIntact ==
  /\ Guarded /\ Comparable /\ ~disturbed
  /\ phase \in {"top", "request", "tool", "returned"}
  => file # Absent /\ VerifierAccepts(spec, file)

\* Every request carries a history an endpoint accepts: it ends with a turn
\* for the model to answer, every announced call has its result, and on the
\* native wire no result stands alone (qwen_native_agent.py:676).
TranscriptAnswerable ==
  phase = "request" =>
    /\ talk.last # "assistant" /\ talk.open = 0
    /\ agent.nativeTools => ~talk.orphan

\* run ends: the budgets of calls, attempts, nudges and compactions are all
\* finite, and each is charged on every way round its loop.
RunEnds == <>(phase \in {"returned", "raised"})

\* The guard takes back a change of read-only text: it never replaces a file
\* whose read-only text is intact, which would lose accepted work.  A failed
\* reading of the file breaks this.
IntactEditKept ==
  [][GuardRestores /\ file # Absent /\ file' # file
       => ~GuardAccepts(original, file)]_vars
=============================================================================
