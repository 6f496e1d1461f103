--------------------------- MODULE AgentLoopProofs ---------------------------
(***************************************************************************)
(* Proofs that the guard of the qwen-native agent keeps the specification  *)
(* of the task file, and that its requests carry a history an endpoint     *)
(* accepts, for any files, edits, budgets and configurations.              *)
(*                                                                         *)
(* Two arguments that do not meet until the end.  In the first, the order  *)
(* in which the guard reads, remembers, judges and restores, what          *)
(* ReadonlyProjection computes stays opaque: it holds for any comparison   *)
(* that accepts the original.  The second is about the comparison alone:   *)
(* line by line, the two loops decide what OnlyBodiesDiffer says.          *)
(***************************************************************************)
EXTENDS AgentLoop, TLAPS, NaturalsInduction, WellFoundedInduction, SequenceTheorems

\* The guard remembers the original, or a file it has accepted.
LastGoodAccepted ==
  Guarded => /\ original = spec
             /\ lastGood = spec \/ GuardAccepts(spec, lastGood)

\* Between tool calls the file is the one the guard saw or put last.
FileIsLastGood ==
  Guarded /\ ~disturbed /\ phase \in {"top", "request", "tool", "returned"}
    => file = lastGood

GuardInv ==
  /\ LastGoodAccepted /\ FileIsLastGood
  /\ phase = "begin" => file = spec /\ ~late /\ ~disturbed
  /\ phase \in {"read", "restore"} => Guarded

\* Of every reply, the calls without a result are those still to dispatch.
TalkInv ==
  /\ phase \in {"begin", "top", "request"} =>
       talk.open = 0 /\ talk.last \in {"user", "tool"}
  /\ phase \in {"tool", "read", "restore"} => talk.open = todo /\ todo # 0
  /\ agent.nativeTools => ~talk.orphan

\* A request that was sent is within the budget of calls.
CallInv == phase \in {"request", "tool", "read", "restore"} => calls < MaxCalls

\* The inductive invariant.
AgentInv == TypeOK /\ GuardInv /\ TalkInv /\ CallInv
-----------------------------------------------------------------------------
(***************************************************************************)
(* Types.                                                                  *)
(***************************************************************************)
Talk == [last : {"user", "assistant", "tool"}, open : 0..MaxToolCalls,
         orphan : BOOLEAN]

FileTypes ==
  /\ agent \in Agents /\ spec \in Specs /\ file \in Files
  /\ late \in BOOLEAN /\ disturbed \in BOOLEAN
  /\ original \in {spec, Absent} /\ lastGood \in Files
  /\ original = Absent <=> lastGood = Absent

CountTypes ==
  /\ attempt \in 0..(Attempts - 1) /\ calls \in 0..MaxCalls
  /\ full \in BOOLEAN /\ postCompaction \in BOOLEAN
  /\ compactions \in 0..MaxCompactions
  /\ truncations \in 0..MAX_TRUNCATION_NUDGES
  /\ todo \in 0..MaxToolCalls

EndTypes ==
  /\ phase \in Phases /\ reason \in Reasons
  /\ phase = "returned" <=> reason # "none"

\* The budgets are numbers, and no file is Absent.
LEMMA Budgets ==
  /\ MaxCalls \in Nat \ {0} /\ MaxCompactions \in Nat
  /\ MAX_TRUNCATION_NUDGES \in Nat
  /\ Attempts \in Nat \ {0} /\ MaxToolCalls \in Nat \ {0}
  /\ Absent \notin Specs \cup Edits
BY AgentAssumption DEF AgentAssumption

LEMMA FilesAreLines == Specs \cup Edits \subseteq Seq(Lines)
BY AgentAssumption DEF AgentAssumption

LEMMA TypeParts == TypeOK <=> FileTypes /\ CountTypes /\ talk \in Talk /\ EndTypes
  BY DEF TypeOK, FileTypes, CountTypes, Talk, EndTypes

LEMMA TypeInit == Init => TypeOK
<1> SUFFICES ASSUME Init PROVE TypeOK
  OBVIOUS
<1>1. FileTypes
  BY Budgets DEF Init, FileTypes, Files
<1>2. CountTypes
  <2>1. /\ 0 \in 0..(Attempts - 1) /\ 0 \in 0..MaxCalls
        /\ 0 \in 0..MaxCompactions /\ 0 \in 0..MAX_TRUNCATION_NUDGES
        /\ 0 \in 0..MaxToolCalls
    BY Budgets
  <2> QED
    BY <2>1 DEF Init, CountTypes
<1>3. talk \in Talk
  BY Budgets DEF Init, Talk
<1>4. EndTypes
  BY DEF Init, EndTypes, Phases, Reasons
<1> QED
  BY <1>1, <1>2, <1>3, <1>4, TypeParts

\* A reply's turn is a turn of the talk, and so is the result of a call.
LEMMA TalkUpdates ==
  ASSUME talk \in Talk
  PROVE  /\ \A n \in 0..MaxToolCalls :
              /\ Said(n) \in Talk /\ Said(n).last = "assistant"
              /\ Said(n).open = n /\ Said(n).orphan = talk.orphan
         /\ LET turn == [Said(0) EXCEPT !.last = "user"]
            IN /\ turn \in Talk /\ turn.last = "user"
               /\ turn.open = 0 /\ turn.orphan = talk.orphan
         /\ LET turn == [Said(0) EXCEPT !.last = "tool", !.orphan = TRUE]
            IN turn \in Talk /\ turn.last = "tool" /\ turn.open = 0
<1>1. ASSUME NEW n \in 0..MaxToolCalls
      PROVE  /\ Said(n) \in Talk /\ Said(n).last = "assistant"
             /\ Said(n).open = n /\ Said(n).orphan = talk.orphan
  BY DEF Said, Talk
<1>2. 0 \in 0..MaxToolCalls
  BY Budgets
<1>3. /\ Said(0) \in Talk /\ Said(0).open = 0 /\ Said(0).orphan = talk.orphan
  BY <1>1, <1>2
<1> HIDE DEF Said
<1>4. LET turn == [Said(0) EXCEPT !.last = "user"]
      IN /\ turn \in Talk /\ turn.last = "user"
         /\ turn.open = 0 /\ turn.orphan = talk.orphan
  BY <1>3 DEF Talk
<1>5. LET turn == [Said(0) EXCEPT !.last = "tool", !.orphan = TRUE]
      IN turn \in Talk /\ turn.last = "tool" /\ turn.open = 0
  BY <1>3 DEF Talk
<1> QED
  BY <1>1, <1>4, <1>5

\* Only the guard and the tools touch the file and what is known of it.
LEMMA FileTypeStep ==
  ASSUME TypeOK, GuardInv, [Next]_vars
  PROVE  FileTypes'
<1> USE TypeParts DEF FileTypes
<1>1. CASE UNCHANGED <<agent, spec, file, late, guardVars>>
  BY <1>1 DEF guardVars
<1>2. CASE Begin
  BY <1>2, Budgets DEF Begin, GuardInv, Files
<1>3. ASSUME Request \/ Reply PROVE FileTypes'
  BY <1>1, <1>3
     DEF Request, Reply, SendRequest, Retry, Rejected, UnusableResponse,
         ReplyCutOff, ReplyMalformed, TruncationNudge, TruncatedForGood,
         PostCompactionNudge, FinalAnswer, ReplyWithCalls
<1>4. ASSUME CallsExhausted \/ ContextExhausted \/ Compact PROVE FileTypes'
  BY <1>1, <1>4 DEF CallsExhausted, ContextExhausted, Compact
<1>5. ASSUME Tool PROVE FileTypes'
  <2>1. CASE ToolReads \/ ToolRaises
    BY <1>1, <2>1 DEF ToolReads, ToolRaises
  <2>2. ASSUME NEW edit \in Edits \cup {file, Absent}, NEW runsOn \in BOOLEAN,
               ToolRuns(edit, runsOn)
        PROVE  FileTypes'
    BY <2>2 DEF ToolRuns, guardVars, Files
  <2> QED
    BY <1>5, <2>1, <2>2 DEF Tool
<1>6. ASSUME Guard PROVE FileTypes'
  <2>1. CASE GuardReadsNothing \/ GuardRefusesFile
    BY <1>1, <2>1 DEF GuardReadsNothing, GuardRefusesFile
  <2>2. CASE GuardAcceptsFile
    BY <2>2 DEF GuardAcceptsFile, GuardInv, Guarded
  <2>3. CASE GuardRestores
    BY <2>3 DEF GuardRestores
  <2>4. CASE RestoreFails
    BY <2>4 DEF RestoreFails
  <2> QED
    BY <1>6, <2>1, <2>2, <2>3, <2>4 DEF Guard
<1>7. ASSUME Killed \/ UNCHANGED vars PROVE FileTypes'
  BY <1>1, <1>7 DEF Killed, vars
<1>8. ASSUME NEW edit \in Edits \cup {Absent}, LateWrite(edit)
      PROVE  FileTypes'
  BY <1>8 DEF LateWrite, Files
<1> QED
  BY <1>2, <1>3, <1>4, <1>5, <1>6, <1>7, <1>8 DEF Next, Run


\* The result of a tool call takes one of the open calls away.
LEMMA AnsweredTypes ==
  ASSUME TypeOK, TalkInv, CallInv, phase \in {"tool", "read", "restore"}, Answered
  PROVE  CountTypes' /\ talk' \in Talk /\ EndTypes'
<1>1. todo \in 1..MaxToolCalls /\ talk.open = todo /\ talk \in Talk
  BY Budgets, TypeParts DEF TalkInv, CountTypes
<1>2. talk' \in Talk
  <2>1. talk.open - 1 \in 0..MaxToolCalls
    BY <1>1, Budgets
  <2>2. talk' = [talk EXCEPT !.last = "tool", !.open = talk.open - 1]
    BY DEF Answered
  <2> QED
    BY <1>1, <2>1, <2>2 DEF Talk
<1>3. CountTypes'
  BY <1>1, Budgets, TypeParts DEF Answered, NextCall, CountTypes, CallInv
<1>4. EndTypes'
  BY TypeParts DEF Answered, NextCall, EndTypes, Phases
<1> QED
  BY <1>2, <1>3, <1>4

\* The counters stay within their budgets: each is compared before it is
\* increased.
LEMMA LoopTypeStep ==
  ASSUME TypeOK, TalkInv, CallInv, [Next]_vars
  PROVE  CountTypes' /\ talk' \in Talk /\ EndTypes'
<1> DEFINE Goal == CountTypes' /\ talk' \in Talk /\ EndTypes'
<1> USE TypeParts, Budgets
<1>1. CASE UNCHANGED vars
  BY <1>1 DEF vars, loopVars, CountTypes, EndTypes
<1>2. ASSUME UNCHANGED loopVars, phase' \in Phases \ {"returned"},
             phase # "returned"
      PROVE  Goal
  BY <1>2 DEF loopVars, CountTypes, EndTypes
<1>3. CASE Begin \/ SendRequest \/ ToolRaises \/ Killed
  BY <1>2, <1>3 DEF Begin, SendRequest, ToolRaises, Killed, Phases
<1>4. CASE GuardReadsNothing \/ GuardRefusesFile
  BY <1>2, <1>4 DEF GuardReadsNothing, GuardRefusesFile, Phases
<1>5. ASSUME NEW edit \in Edits \cup {Absent}, LateWrite(edit)
      PROVE  Goal
  BY <1>5 DEF LateWrite, loopVars, CountTypes, EndTypes
<1>6. CASE CallsExhausted \/ ContextExhausted
  BY <1>6 DEF CallsExhausted, ContextExhausted, Return, CountTypes, EndTypes,
              Phases, Reasons
<1>7. CASE Compact
  <2>1. talk' \in Talk
    BY <1>7 DEF Compact, Talk
  <2>2. compactions' \in 0..MaxCompactions
    BY <1>7 DEF Compact, CountTypes
  <2>3. CountTypes'
    BY <1>7, <2>2 DEF Compact, CountTypes
  <2>4. EndTypes'
    BY <1>7 DEF Compact, EndTypes, Phases
  <2> QED
    BY <2>1, <2>3, <2>4
<1>8. CASE Retry
  BY <1>8 DEF Retry, Return, CountTypes, EndTypes, Phases, Reasons
<1>9. CASE Rejected \/ UnusableResponse
  BY <1>9 DEF Rejected, UnusableResponse, Return, CountTypes, EndTypes, Phases,
              Reasons
<1>10. CASE Reply
  <2> USE DEF Heard, NextCall, Return, EndTypes, CountTypes, Phases, Reasons
  <2>1. calls + 1 \in 0..MaxCalls /\ 0 \in 0..(Attempts - 1) /\ 0 \in 0..MaxToolCalls
    BY <1>10 DEF Reply, CallInv, TruncationNudge, TruncatedForGood,
       PostCompactionNudge, FinalAnswer, ReplyCutOff, ReplyMalformed,
       ReplyWithCalls
  <2>2. \A n \in 0..MaxToolCalls : ReplyCutOff(n) => Goal
    BY <2>1, TalkUpdates DEF ReplyCutOff
  <2>3. \A cut \in BOOLEAN : ReplyMalformed(cut) => Goal
    BY <2>1, TalkUpdates DEF ReplyMalformed
  <2>4. TruncationNudge => Goal
    BY <2>1, TalkUpdates DEF TruncationNudge
  <2>5. TruncatedForGood => Goal
    BY <2>1, TalkUpdates DEF TruncatedForGood
  <2>6. PostCompactionNudge => Goal
    BY <2>1, TalkUpdates DEF PostCompactionNudge
  <2>7. FinalAnswer => Goal
    BY <2>1, TalkUpdates DEF FinalAnswer
  <2>8. \A n \in 1..MaxToolCalls, cut \in BOOLEAN : ReplyWithCalls(n, cut) => Goal
    <3>1. 1..MaxToolCalls \subseteq 0..MaxToolCalls /\ 0 \in 0..MAX_TRUNCATION_NUDGES
      OBVIOUS
    <3> QED
      BY <2>1, <3>1, TalkUpdates DEF ReplyWithCalls
  <2> QED
    BY <1>10, <2>2, <2>3, <2>4, <2>5, <2>6, <2>7, <2>8 DEF Reply
<1>11. CASE ToolReads \/ GuardAcceptsFile \/ GuardRestores \/ RestoreFails
  BY <1>11, AnsweredTypes DEF ToolReads, GuardAcceptsFile, GuardRestores,
                              RestoreFails
<1>12. ASSUME NEW edit \in Edits \cup {file, Absent}, NEW runsOn \in BOOLEAN,
              ToolRuns(edit, runsOn)
       PROVE  Goal
  <2>1. CASE Answered
    BY <1>12, <2>1, AnsweredTypes DEF ToolRuns
  <2>2. CASE phase' = "read" /\ UNCHANGED loopVars
    BY <1>2, <1>12, <2>2 DEF ToolRuns, Phases
  <2> QED
    BY <1>12, <2>1, <2>2 DEF ToolRuns
<1> QED
  BY <1>1, <1>3, <1>4, <1>5, <1>6, <1>7, <1>8, <1>9, <1>10, <1>11, <1>12
     DEF Next, Run, Request, Tool, Guard
-----------------------------------------------------------------------------
(***************************************************************************)
(* The guard.                                                              *)
(***************************************************************************)

\* What it remembers changes when run begins and when it accepts a file.
LEMMA LastGoodStep ==
  ASSUME AgentInv, [Next]_vars
  PROVE  LastGoodAccepted'
<1> USE DEF AgentInv, GuardInv, LastGoodAccepted, Guarded
<1>1. CASE Begin
  BY <1>1 DEF Begin
<1>2. CASE GuardAcceptsFile
  BY <1>2 DEF GuardAcceptsFile
<1>3. ASSUME UNCHANGED <<spec, original, lastGood>> PROVE LastGoodAccepted'
  BY <1>3
<1>4. ASSUME Request \/ Reply PROVE LastGoodAccepted'
  BY <1>3, <1>4
     DEF guardVars, Request, Reply, SendRequest, Retry, Rejected,
         UnusableResponse, ReplyCutOff, ReplyMalformed, TruncationNudge,
         TruncatedForGood, PostCompactionNudge, FinalAnswer, ReplyWithCalls
<1>5. ASSUME CallsExhausted \/ ContextExhausted \/ Compact \/ Tool
      PROVE  LastGoodAccepted'
  BY <1>3, <1>5 DEF guardVars, CallsExhausted, ContextExhausted, Compact, Tool,
                    ToolReads, ToolRaises, ToolRuns
<1>6. ASSUME GuardReadsNothing \/ GuardRefusesFile \/ GuardRestores \/ RestoreFails
      PROVE  LastGoodAccepted'
  BY <1>3, <1>6 DEF guardVars, GuardReadsNothing, GuardRefusesFile,
                    GuardRestores, RestoreFails
<1>7. ASSUME \/ Killed \/ UNCHANGED vars
             \/ \E edit \in Edits \cup {Absent} : LateWrite(edit)
      PROVE  LastGoodAccepted'
  BY <1>3, <1>7 DEF guardVars, Killed, vars, LateWrite
<1> QED
  BY <1>1, <1>2, <1>4, <1>5, <1>6, <1>7 DEF Next, Run, Guard

\* Only a tool call, the guard and a left-over command write the file; after
\* the first the guard looks at it, and the last is noted.
LEMMA FileStep ==
  ASSUME AgentInv, [Next]_vars
  PROVE  /\ FileIsLastGood'
         /\ (phase = "begin" => file = spec /\ ~late /\ ~disturbed)'
         /\ (phase \in {"read", "restore"} => Guarded)'
<1> DEFINE Goal == /\ FileIsLastGood'
                   /\ (phase = "begin" => file = spec /\ ~late /\ ~disturbed)'
                   /\ (phase \in {"read", "restore"} => Guarded)'
<1> USE DEF AgentInv, GuardInv, FileIsLastGood, Guarded
<1>1. CASE Begin
  BY <1>1 DEF Begin
<1>2. ASSUME UNCHANGED <<spec, file, late, guardVars>>,
             phase \in {"top", "request", "tool"},
             phase' \in {"top", "request", "tool", "returned", "raised"}
      PROVE  Goal
  BY <1>2 DEF guardVars
<1>3. CASE Request
  BY <1>2, <1>3 DEF Request, SendRequest, Retry, Rejected, UnusableResponse, Return
<1>4. CASE Reply
  BY <1>2, <1>4
     DEF Reply, Heard, NextCall, Return, ReplyCutOff, ReplyMalformed,
         TruncationNudge, TruncatedForGood, PostCompactionNudge, FinalAnswer,
         ReplyWithCalls
<1>5. CASE CallsExhausted \/ ContextExhausted \/ Compact
  BY <1>2, <1>5 DEF CallsExhausted, ContextExhausted, Compact, Return
<1>6. CASE ToolReads \/ ToolRaises
  BY <1>2, <1>6 DEF ToolReads, ToolRaises, Answered, NextCall
<1>7. ASSUME NEW edit \in Edits \cup {file, Absent}, NEW runsOn \in BOOLEAN,
             ToolRuns(edit, runsOn)
      PROVE  Goal
  BY <1>7 DEF ToolRuns, Answered, NextCall, guardVars
<1>8. CASE GuardAcceptsFile \/ GuardRestores \/ RestoreFails
  BY <1>8 DEF GuardAcceptsFile, GuardRestores, RestoreFails, Answered, NextCall
<1>9. CASE GuardReadsNothing \/ GuardRefusesFile
  BY <1>9 DEF GuardReadsNothing, GuardRefusesFile, guardVars
<1>10. CASE Killed
  BY <1>10 DEF Killed, guardVars
<1>11. ASSUME NEW edit \in Edits \cup {Absent}, LateWrite(edit) PROVE Goal
  BY <1>11 DEF LateWrite
<1>12. CASE UNCHANGED vars
  BY <1>12 DEF vars, guardVars
<1> QED
  BY <1>1, <1>3, <1>4, <1>5, <1>6, <1>7, <1>8, <1>9, <1>10, <1>11, <1>12
     DEF Next, Run, Tool, Guard
-----------------------------------------------------------------------------
(***************************************************************************)
(* The transcript.                                                         *)
(***************************************************************************)

\* The result of a tool call: after the last one no call is open.
LEMMA AnsweredTalk ==
  ASSUME AgentInv, phase \in {"tool", "read", "restore"}, Answered, agent' = agent
  PROVE  TalkInv' /\ CallInv'
<1>1. todo \in 1..MaxToolCalls /\ talk.open = todo /\ talk \in Talk
  BY Budgets, TypeParts DEF AgentInv, TalkInv, CountTypes
<1>2. /\ talk'.last = "tool" /\ talk'.open = todo - 1
      /\ talk'.orphan = talk.orphan
  BY <1>1 DEF Answered, Talk
<1>3. TalkInv'
  BY <1>1, <1>2 DEF Answered, NextCall, AgentInv, TalkInv
<1>4. CallInv'
  BY DEF Answered, NextCall, AgentInv, CallInv
<1> QED
  BY <1>3, <1>4

\* Every other step of the loop sends a history that ends with a turn for the
\* model, or announces the calls it will dispatch.
LEMMA TalkStep ==
  ASSUME AgentInv, [Next]_vars
  PROVE  TalkInv' /\ CallInv'
<1> DEFINE Goal == TalkInv' /\ CallInv'
<1> USE DEF AgentInv, TalkInv, CallInv
<1>1. talk \in Talk /\ calls \in 0..MaxCalls
  BY TypeParts DEF CountTypes
<1>2. 0 \in 0..MaxToolCalls
  BY Budgets
<1>3. CASE UNCHANGED vars
  BY <1>3 DEF vars, loopVars
<1>4. CASE Begin \/ SendRequest \/ ToolRaises \/ Killed
  BY <1>4 DEF Begin, SendRequest, ToolRaises, Killed, loopVars
<1>5. CASE GuardReadsNothing \/ GuardRefusesFile
  BY <1>5 DEF GuardReadsNothing, GuardRefusesFile, loopVars
<1>6. ASSUME NEW edit \in Edits \cup {Absent}, LateWrite(edit) PROVE Goal
  BY <1>6 DEF LateWrite, loopVars
<1>7. CASE CallsExhausted \/ ContextExhausted
  BY <1>7 DEF CallsExhausted, ContextExhausted, Return
<1>8. CASE Compact
  <2>1. talk' = [last |-> "user", open |-> 0, orphan |-> FALSE]
        /\ phase' = "request" /\ calls' = calls /\ calls < MaxCalls
    BY <1>8 DEF Compact
  <2> QED
    BY <2>1
<1>9. CASE Retry \/ Rejected \/ UnusableResponse
  BY <1>9 DEF Retry, Rejected, UnusableResponse, Return
<1>10. CASE Reply
  <2> USE DEF Heard, NextCall, Return
  <2>1. \A n \in 0..MaxToolCalls : ReplyCutOff(n) => Goal
    BY <1>1, TalkUpdates DEF ReplyCutOff
  <2>2. \A cut \in BOOLEAN : ReplyMalformed(cut) => Goal
    BY <1>1, <1>2, TalkUpdates DEF ReplyMalformed
  <2>3. TruncationNudge => Goal
    BY <1>1, <1>2, TalkUpdates DEF TruncationNudge
  <2>4. TruncatedForGood => Goal
    BY <1>1, <1>2, TalkUpdates DEF TruncatedForGood
  <2>5. PostCompactionNudge => Goal
    BY <1>1, <1>2, TalkUpdates DEF PostCompactionNudge
  <2>6. FinalAnswer => Goal
    BY <1>1, <1>2, TalkUpdates DEF FinalAnswer
  <2>7. ASSUME NEW n \in 1..MaxToolCalls, NEW cut \in BOOLEAN, ReplyWithCalls(n, cut)
        PROVE  Goal
    <3>1. n \in 0..MaxToolCalls /\ n # 0
      OBVIOUS
    <3> QED
      BY <1>1, <2>7, <3>1, TalkUpdates DEF ReplyWithCalls
  <2> QED
    BY <1>10, <2>1, <2>2, <2>3, <2>4, <2>5, <2>6, <2>7 DEF Reply
<1>11. CASE ToolReads \/ GuardAcceptsFile \/ GuardRestores \/ RestoreFails
  BY <1>11, AnsweredTalk DEF ToolReads, GuardAcceptsFile, GuardRestores,
                            RestoreFails
<1>12. ASSUME NEW edit \in Edits \cup {file, Absent}, NEW runsOn \in BOOLEAN,
              ToolRuns(edit, runsOn)
       PROVE  Goal
  <2>1. CASE Answered
    BY <1>12, <2>1, AnsweredTalk DEF ToolRuns
  <2>2. CASE phase' = "read" /\ UNCHANGED loopVars
    BY <1>12, <2>2 DEF ToolRuns, loopVars
  <2> QED
    BY <1>12, <2>1, <2>2 DEF ToolRuns
<1> QED
  BY <1>3, <1>4, <1>5, <1>6, <1>7, <1>8, <1>9, <1>10, <1>11, <1>12
     DEF Next, Run, Request, Tool, Guard
-----------------------------------------------------------------------------
\* Together.
THEOREM AgentInvariance == Spec => []AgentInv
<1>1. Init => AgentInv
  BY TypeInit DEF Init, AgentInv, GuardInv, TalkInv, CallInv, LastGoodAccepted,
                  FileIsLastGood, Guarded
<1>2. AgentInv /\ [Next]_vars => AgentInv'
  <2> SUFFICES ASSUME AgentInv, [Next]_vars PROVE AgentInv'
    OBVIOUS
  <2>1. TypeOK'
    <3>1. FileTypes' /\ CountTypes' /\ talk' \in Talk /\ EndTypes'
      BY FileTypeStep, LoopTypeStep DEF AgentInv
    <3> QED
      BY <3>1 DEF TypeOK, FileTypes, CountTypes, Talk, EndTypes
  <2>2. GuardInv'
    BY LastGoodStep, FileStep DEF GuardInv
  <2> QED
    BY <2>1, <2>2, TalkStep DEF AgentInv
<1> QED
  BY <1>1, <1>2, PTL DEF Spec

\* The types, and with them the budgets: calls, attempts, compactions and
\* nudges never exceed what the configuration allows.
THEOREM BudgetsKept == Spec => []TypeOK
<1>1. AgentInv => TypeOK
  BY DEF AgentInv
<1> QED
  BY <1>1, AgentInvariance, PTL

\* A comparable original is one the verifier accepts, and on one its
\* comparison and the guard's are the same.
LEMMA AcceptsOriginal ==
  ASSUME Comparable
  PROVE  /\ VerifierAccepts(spec, spec)
         /\ \A f : GuardAccepts(spec, f) => VerifierAccepts(spec, f)
BY DEF Comparable, VerifierAccepts, GuardAccepts, SameReadOnlyText

\* What the guard would put back is always something the verifier accepts,
\* whatever the tools, left-over commands and failed restorations did.
THEOREM GuardRemembersGood == Spec => []LastGoodIntact
<1>1. AgentInv => LastGoodIntact
  BY AcceptsOriginal DEF AgentInv, GuardInv, LastGoodAccepted, LastGoodIntact
<1> QED
  BY <1>1, AgentInvariance, PTL

\* Between tool calls and at the end a guarded file is intact, unless the
\* sandbox refused a restoration or a left-over command wrote.
THEOREM GuardKeepsFile == Spec => []GuardedFileIntact
<1>1. AgentInv => GuardedFileIntact
  BY AcceptsOriginal
     DEF AgentInv, GuardInv, LastGoodAccepted, FileIsLastGood, TypeOK, Guarded,
         GuardedFileIntact
<1> QED
  BY <1>1, AgentInvariance, PTL

\* No request is sent with an unanswered call, a last turn of the model, or,
\* on the native wire, a result nobody asked for.
THEOREM TranscriptKept == Spec => []TranscriptAnswerable
<1>1. AgentInv => TranscriptAnswerable
  BY DEF AgentInv, TalkInv, TranscriptAnswerable
<1> QED
  BY <1>1, AgentInvariance, PTL
-----------------------------------------------------------------------------
(***************************************************************************)
(* The guard decides what it should, whatever file it looks at: the two    *)
(* loops of the comparison, line by line.                                  *)
(***************************************************************************)
\* A set of numbers has a least one, so what starts well and goes on well is
\* well to the end.
LEMMA Stepwise ==
  ASSUME NEW n \in Nat, NEW T, 0 \in T, \A i \in 1..n : i - 1 \in T => i \in T
  PROVE  \A i \in 0..n : i \in T
<1> DEFINE R == {ss \in Nat \X Nat : ss[1] < ss[2]}
<1> DEFINE Fails == {i \in 0..n : i \notin T}
<1>1. IsWellFoundedOn(R, Nat)
  BY NatLessThanWellFounded DEF OpToRel
<1>2. \A m, k \in Nat : m < k => <<m, k>> \in R
  OBVIOUS
<1>3. Fails \subseteq Nat
  OBVIOUS
<1>4. Fails = {}
  <2> SUFFICES ASSUME Fails # {} PROVE FALSE
    OBVIOUS
  <2> HIDE DEF R, Fails
  <2>1. PICK i \in Fails : \A m \in Fails : ~ (<<m, i>> \in R)
    BY <1>1, <1>3, WFMin
  <2> USE DEF Fails
  <2>2. i \in 0..n /\ i \notin T /\ i # 0
    BY <2>1
  <2>3. i \in 1..n /\ i - 1 \in 0..n /\ i - 1 \in Nat /\ i \in Nat /\ i - 1 < i
    BY <2>2
  <2>4. i - 1 \notin T
    BY <2>2, <2>3
  <2>5. i - 1 \in Fails
    BY <2>3, <2>4
  <2> QED  BY <1>2, <2>1, <2>3, <2>5
<1> QED  BY <1>4

\* A loop over n steps has a run.
LEMMA RunExists ==
  ASSUME NEW S, NEW x \in S, NEW n \in Nat, NEW step \in [1..n -> [S -> S]]
  PROVE  \E run \in [0..n -> S] :
           run[0] = x /\ \A i \in 1..n : run[i] = step[i][run[i - 1]]
<1> DEFINE Upto(run, m) == run[0] = x /\ \A i \in 1..m : run[i] = step[i][run[i - 1]]
<1> DEFINE T == {m \in 0..n : \E run \in [0..m -> S] : Upto(run, m)}
<1>1. 0 \in T
  <2>1. [i \in 0..0 |-> x] \in [0..0 -> S] /\ Upto([i \in 0..0 |-> x], 0)
    OBVIOUS
  <2>2. \E run \in [0..0 -> S] : Upto(run, 0)
    BY <2>1
  <2> HIDE DEF Upto
  <2> QED  BY <2>2
<1>2. ASSUME NEW m \in 1..n, m - 1 \in T PROVE m \in T
  <2>1. PICK run \in [0..(m - 1) -> S] : Upto(run, m - 1)
    BY <1>2
  <2>2. PICK next : next = [i \in 0..m |-> IF i = m THEN step[m][run[m - 1]] ELSE run[i]]
    OBVIOUS
  <2>3. step[m][run[m - 1]] \in S
    OBVIOUS
  <2>4. next \in [0..m -> S]
    BY <2>2, <2>3
  <2>5. next[m] = step[m][next[m - 1]]
    BY <2>2
  <2>6. \A i \in 1..(m - 1) : next[i] = step[i][next[i - 1]]
    BY <2>1, <2>2
  <2>7. \A i \in 1..m : i = m \/ i \in 1..(m - 1)
    OBVIOUS
  <2>8. Upto(next, m)
    BY <2>1, <2>2, <2>5, <2>6, <2>7
  <2> HIDE DEF Upto
  <2>9. m \in 0..n /\ \E r \in [0..m -> S] : Upto(r, m)
    BY <2>4, <2>8
  <2> QED  BY <2>9
<1> HIDE DEF Upto
<1>3. \A i \in 0..n : i \in T
  <2> HIDE DEF T
  <2> QED  BY <1>1, <1>2, Stepwise
<1>4. n \in T
  BY <1>3
<1> QED  BY <1>4 DEF Upto

\* The lines the guard compares.
KeptLines == [kind : {"start", "end", "text", "blank", "mention", "sentinel"},
              name : STRING, space : Nat]
Scans == [kept : Seq(KeptLines), section : STRING \cup {Outside}, malformed : BOOLEAN]

Sentinel(line) == [line EXCEPT !.kind = "sentinel"]
Bare(line) == [line EXCEPT !.space = 0]

\* Lines with one field changed.
LEMMA LineFields ==
  ASSUME NEW line \in KeptLines
  PROVE  /\ Sentinel(line) = [kind |-> "sentinel", name |-> line.name, space |-> line.space]
         /\ Bare(line) = [kind |-> line.kind, name |-> line.name, space |-> 0]
         /\ Sentinel(line) \in KeptLines /\ Bare(line) \in KeptLines
BY DEF KeptLines, Sentinel, Bare

LEMMA LinesKept == Lines \subseteq KeptLines
BY DEF Lines, KeptLines

\* What one turn of the loop makes of its state.
Turn(scan, line, next) ==
  /\ next \in Scans
  /\ scan.malformed => next = scan
  /\ ~scan.malformed /\ line.kind = "start" =>
       /\ next.malformed <=> scan.section # Outside
       /\ scan.section = Outside =>
            /\ next.section = line.name
            /\ next.kept = scan.kept \o IF line.name \in Editable
                                        THEN <<line, Sentinel(line)>> ELSE <<line>>
  /\ ~scan.malformed /\ line.kind = "end" =>
       /\ next.malformed <=> scan.section # line.name
       /\ scan.section = line.name =>
            next.section = Outside /\ next.kept = scan.kept \o <<line>>
  /\ ~scan.malformed /\ ~Marker(line) =>
       /\ ~next.malformed /\ next.section = scan.section
       /\ next.kept = IF scan.section \in Editable THEN scan.kept
                                                   ELSE scan.kept \o <<line>>

LEMMA ScanTurns ==
  ASSUME NEW scan \in Scans, NEW line \in Lines
  PROVE  Turn(scan, line, ScanLine(scan, line))
<1>1. PICK k, s, m :
        /\ k \in Seq(KeptLines) /\ s \in STRING \cup {Outside} /\ m \in BOOLEAN
        /\ scan = [kept |-> k, section |-> s, malformed |-> m]
  BY DEF Scans
<1>2. PICK next : next = ScanLine(scan, line)
  OBVIOUS
<1>3. PICK sentinel : sentinel = Sentinel(line) /\ sentinel \in KeptLines /\ line \in KeptLines
  BY LineFields, LinesKept
<1>4. PICK one, two : one = <<line>> /\ two = <<line, sentinel>>
  OBVIOUS
<1>5. one \in Seq(KeptLines) /\ two \in Seq(KeptLines)
  BY <1>3, <1>4
<1>6. PICK k1, k2 : k1 = k \o one /\ k2 = k \o two /\ k1 \in Seq(KeptLines) /\ k2 \in Seq(KeptLines)
  BY <1>1, <1>5, ConcatProperties
<1>7. /\ [scan EXCEPT !.malformed = TRUE] = [kept |-> k, section |-> s, malformed |-> TRUE]
      /\ [scan EXCEPT !.kept = @ \o one] = [kept |-> k1, section |-> s, malformed |-> m]
      /\ [scan EXCEPT !.kept = @ \o two] = [kept |-> k2, section |-> s, malformed |-> m]
  <2>1. \A v : [[kept |-> k, section |-> s, malformed |-> m] EXCEPT !.malformed = v]
              = [kept |-> k, section |-> s, malformed |-> v]
    OBVIOUS
  <2>2. \A l : [[kept |-> k, section |-> s, malformed |-> m] EXCEPT !.kept = l]
              = [kept |-> l, section |-> s, malformed |-> m]
    OBVIOUS
  <2>3. scan.kept = k
    BY <1>1
  <2>4. /\ [scan EXCEPT !.kept = @ \o one]
           = [[kept |-> k, section |-> s, malformed |-> m] EXCEPT !.kept = k \o one]
        /\ [scan EXCEPT !.kept = @ \o two]
           = [[kept |-> k, section |-> s, malformed |-> m] EXCEPT !.kept = k \o two]
    BY <1>1, <2>3
  <2> HIDE DEF Sentinel
  <2> QED  BY <1>1, <1>6, <2>1, <2>2, <2>4
<1>8. \A l, t : [[kept |-> l, section |-> s, malformed |-> m] EXCEPT !.section = t]
                = [kept |-> l, section |-> t, malformed |-> m]
  OBVIOUS
<1>9. line.name \in STRING
  BY <1>3 DEF KeptLines
<1>10. ASSUME scan.malformed PROVE Turn(scan, line, next)
  BY <1>10, <1>2 DEF ScanLine, Turn
<1>11. ASSUME ~scan.malformed, line.kind = "start", scan.section = Outside
      PROVE  Turn(scan, line, next)
  <2>1. next = [kept |-> IF line.name \in Editable THEN k2 ELSE k1,
                section |-> line.name, malformed |-> m]
    <3>1. next = [(IF line.name \in Editable THEN [scan EXCEPT !.kept = @ \o two]
                   ELSE [scan EXCEPT !.kept = @ \o one]) EXCEPT !.section = line.name]
      BY <1>3, <1>4, <1>11, <1>2 DEF ScanLine, Sentinel
    <3> QED  BY <1>7, <1>8, <3>1
  <2>2. next \in Scans
    BY <1>9, <1>1, <1>6, <2>1 DEF Scans
  <2>3. ~next.malformed /\ next.section = line.name
        /\ next.kept = scan.kept \o IF line.name \in Editable THEN two ELSE one
    BY <1>1, <1>6, <1>11, <2>1
  <2> QED  BY <1>3, <1>4, <1>11, <2>2, <2>3 DEF Marker, Turn
<1>12. ASSUME ~scan.malformed, line.kind = "end", scan.section = line.name
       PROVE  Turn(scan, line, next)
  <2>1. next = [kept |-> k1, section |-> Outside, malformed |-> m]
    <3>1. next = [[scan EXCEPT !.kept = @ \o one] EXCEPT !.section = Outside]
      BY <1>4, <1>12, <1>2 DEF ScanLine
    <3> QED  BY <1>7, <1>8, <3>1
  <2>2. next \in Scans
    BY <1>9, <1>1, <1>6, <2>1 DEF Scans
  <2> QED  BY <1>1, <1>4, <1>6, <1>12, <2>1, <2>2 DEF Marker, Turn
<1>13. ASSUME ~scan.malformed,
              \/ line.kind = "start" /\ scan.section # Outside
              \/ line.kind = "end" /\ scan.section # line.name
       PROVE  Turn(scan, line, next)
  <2>1. next = [kept |-> k, section |-> s, malformed |-> TRUE]
    BY <1>1, <1>7, <1>13, <1>2 DEF ScanLine, Marker
  <2>2. next \in Scans
    BY <1>1, <2>1 DEF Scans
  <2> QED  BY <1>13, <2>1, <2>2 DEF Marker, Turn
<1>14. ASSUME ~scan.malformed, ~Marker(line) PROVE Turn(scan, line, next)
  <2>1. next = [kept |-> IF s \in Editable THEN k ELSE k1, section |-> s, malformed |-> m]
    BY <1>1, <1>4, <1>7, <1>14, <1>2 DEF ScanLine, Marker
  <2>2. next \in Scans
    BY <1>1, <1>6, <2>1 DEF Scans
  <2> QED  BY <1>1, <1>4, <1>6, <1>14, <2>1, <2>2 DEF Marker, Turn
<1>15. Turn(scan, line, next)
  BY <1>10, <1>11, <1>12, <1>13, <1>14 DEF Marker
<1> QED  BY <1>2, <1>15

\* The loop of ReadonlyProjection goes on from line to line.
Begun == [kept |-> <<>>, section |-> Outside, malformed |-> FALSE]

\* The loop over n lines has a run.
LEMMA ScanRun ==
  ASSUME NEW n \in Nat, NEW lines \in [1..n -> Lines]
  PROVE  \E run \in [0..n -> Scans] :
           run[0] = Begun /\ \A i \in 1..n : run[i] = ScanLine(run[i - 1], lines[i])
<1>1. Begun \in Scans
  <2>1. <<>> \in Seq(KeptLines) /\ Outside \in STRING \cup {Outside}
    OBVIOUS
  <2> HIDE DEF Outside
  <2> QED  BY <2>1 DEF Begun, Scans
<1>2. PICK step : step = [i \in 1..n |-> [z \in Scans |-> ScanLine(z, lines[i])]]
  OBVIOUS
<1>3. step \in [1..n -> [Scans -> Scans]]
  <2>1. \A i \in 1..n : \A z \in Scans : ScanLine(z, lines[i]) \in Scans
    BY ScanTurns DEF Turn
  <2> HIDE DEF Scans
  <2> QED  BY <1>2, <2>1
<1>4. \E run \in [0..n -> Scans] :
         run[0] = Begun /\ \A i \in 1..n : run[i] = step[i][run[i - 1]]
  BY <1>1, <1>3, RunExists
<1>5. PICK run : /\ run \in [0..n -> Scans] /\ run[0] = Begun
                 /\ \A i \in 1..n : run[i] = step[i][run[i - 1]]
  BY <1>4
<1>6. \A i \in 1..n : run[i] = ScanLine(run[i - 1], lines[i])
  <2> TAKE i \in 1..n
  <2>1. i - 1 \in 0..n /\ run[i - 1] \in Scans
    BY <1>5
  <2> QED  BY <1>2, <1>5, <2>1
<1> QED  BY <1>5, <1>6

\* And ReadonlyProjection's is one.
LEMMA ScanRuns ==
  ASSUME NEW text \in Seq(Lines)
  PROVE  /\ Scan(text)[0] = Begun
         /\ \A i \in 0..Len(text) : Scan(text)[i] \in Scans
         /\ \A i \in 1..Len(text) : Turn(Scan(text)[i - 1], text[i], Scan(text)[i])
<1>1. PICK n : n = Len(text) /\ n \in Nat
  OBVIOUS
<1>2. \A i \in 1..n : text[i] \in Lines
  BY <1>1
<1>3. Begun \in Scans
  <2>1. <<>> \in Seq(KeptLines) /\ Outside \in STRING \cup {Outside}
    OBVIOUS
  <2> HIDE DEF Outside
  <2> QED  BY <2>1 DEF Begun, Scans
<1>4. PICK lines : lines = [i \in 1..n |-> text[i]]
  OBVIOUS
<1>5. lines \in [1..n -> Lines] /\ \A i \in 1..n : lines[i] = text[i]
  BY <1>2, <1>4
<1>6. \E run \in [0..n -> Scans] :
         run[0] = Begun /\ \A i \in 1..n : run[i] = ScanLine(run[i - 1], lines[i])
  BY <1>1, <1>5, ScanRun
<1>7. PICK run : /\ run \in [0..n -> Scans] /\ run[0] = Begun
                 /\ \A i \in 1..n : run[i] = ScanLine(run[i - 1], text[i])
  BY <1>5, <1>6
<1> DEFINE Loop(r) == [i \in 0..Len(text) |-> IF i = 0 THEN Begun ELSE ScanLine(r[i - 1], text[i])]
<1>8. run = Loop(run)
  <2>1. \A i \in 0..n : run[i] = IF i = 0 THEN Begun ELSE ScanLine(run[i - 1], text[i])
    BY <1>1, <1>7
  <2>2. run = [i \in 0..n |-> run[i]]
    BY <1>7
  <2> QED  BY <1>1, <2>1, <2>2
<1>9. Scan(text) = Loop(Scan(text))
  BY <1>8 DEF Scan, Begun
<1>10. PICK scan : scan = Scan(text)
  OBVIOUS
<1>11. scan = Loop(scan)
  BY <1>9, <1>10
<1>12. scan[0] = Begun /\ \A i \in 1..n : scan[i] = ScanLine(scan[i - 1], text[i])
  <2>1. \A i \in 0..n : scan[i] = IF i = 0 THEN Begun ELSE ScanLine(scan[i - 1], text[i])
    BY <1>1, <1>11
  <2>2. 0 \in 0..n /\ \A i \in 1..n : i \in 0..n /\ i # 0
    BY <1>1
  <2> QED  BY <2>1, <2>2
<1> HIDE DEF Loop
<1>13. PICK T : T = {i \in 0..n : scan[i] \in Scans}
  OBVIOUS
<1>14. 0 \in T
  BY <1>1, <1>3, <1>12, <1>13
<1>15. ASSUME NEW i \in 1..n, i - 1 \in T
       PROVE  i \in T /\ Turn(scan[i - 1], text[i], scan[i])
  <2>1. scan[i - 1] \in Scans /\ text[i] \in Lines
    BY <1>2, <1>13, <1>15
  <2>2. Turn(scan[i - 1], text[i], scan[i])
    BY <1>12, <2>1, ScanTurns
  <2>3. scan[i] \in Scans /\ i \in 0..n
    BY <1>1, <2>2 DEF Turn
  <2> QED  BY <1>13, <2>2, <2>3
<1>16. \A i \in 0..n : i \in T
  BY <1>1, <1>14, <1>15, Stepwise
<1>17. \A i \in 0..n : scan[i] \in Scans
  BY <1>13, <1>16
<1>18. \A i \in 1..n : Turn(scan[i - 1], text[i], scan[i])
  <2> TAKE i \in 1..n
  <2>1. i - 1 \in T
    BY <1>1, <1>16
  <2> QED  BY <1>15, <2>1
<1> QED  BY <1>1, <1>10, <1>12, <1>17, <1>18

\* A section whose start marker is the last marker among the first i lines.
Open(text, i, b) ==
  /\ b \in 1..i /\ text[b].kind = "start"
  /\ \A k \in (b + 1)..i : ~Marker(text[k])

\* What one more line does to it.
LEMMA OpenSteps ==
  ASSUME NEW text, NEW n \in Nat, NEW i \in 1..n
  PROVE  /\ ~Open(text, 0, i)
         /\ text[i].kind = "start" => \A b : Open(text, i, b) <=> b = i
         /\ text[i].kind = "end" => \A b : ~Open(text, i, b)
         /\ ~Marker(text[i]) => \A b : Open(text, i, b) <=> Open(text, i - 1, b)
<1>1. text[i].kind = "start" => \A b : Open(text, i, b) <=> b = i
  BY DEF Open, Marker
<1>2. text[i].kind = "end" => \A b : ~Open(text, i, b)
  BY DEF Open, Marker
<1>3. ASSUME ~Marker(text[i]), NEW b PROVE Open(text, i, b) <=> Open(text, i - 1, b)
  <2>1. CASE b = i
    BY <1>3, <2>1 DEF Open, Marker
  <2>2. CASE b \in 1..(i - 1)
    BY <1>3, <2>2 DEF Open
  <2>3. CASE b \notin 1..i
    BY <2>3 DEF Open
  <2> QED  BY <2>1, <2>2, <2>3
<1> QED  BY <1>1, <1>2, <1>3 DEF Open

\* As long as the scan goes well, its section is the one that is open.
InSection(text, i, section) ==
  /\ section # Outside => \E b : Open(text, i, b) /\ section = text[b].name
  /\ \A b : Open(text, i, b) => section = text[b].name

LEMMA SectionIsOpen ==
  ASSUME NEW text \in Seq(Lines), NEW i \in 0..Len(text), ~Scan(text)[i].malformed
  PROVE  InSection(text, i, Scan(text)[i].section)
<1>1. PICK n, scan : n = Len(text) /\ n \in Nat /\ scan = Scan(text)
  OBVIOUS
<1>2. /\ scan[0] = Begun
      /\ \A j \in 1..n : Turn(scan[j - 1], text[j], scan[j])
  BY <1>1, ScanRuns
<1> DEFINE Good(j) == ~scan[j].malformed => InSection(text, j, scan[j].section)
<1>3. PICK T : T = {j \in 0..n : Good(j)}
  OBVIOUS
<1>4. 0 \in T
  <2>1. InSection(text, 0, Outside)
    BY DEF InSection, Open
  <2> QED  BY <1>1, <1>2, <1>3, <2>1 DEF Begun
<1>5. ASSUME NEW j \in 1..n, j - 1 \in T PROVE j \in T
  <2>1. PICK was, now : was = scan[j - 1] /\ now = scan[j]
    OBVIOUS
  <2>2. Turn(was, text[j], now) /\ Good(j - 1)
    BY <1>2, <1>3, <1>5, <2>1
  <2>3. SUFFICES ASSUME ~now.malformed PROVE InSection(text, j, now.section)
    BY <1>1, <1>3, <2>1
  <2>4. ~was.malformed
    BY <2>2, <2>3 DEF Turn
  <2>5. InSection(text, j - 1, was.section)
    BY <2>1, <2>2, <2>4
  <2> HIDE DEF Good
  <2>6. /\ text[j].kind = "start" => \A b : Open(text, j, b) <=> b = j
        /\ text[j].kind = "end" => \A b : ~Open(text, j, b)
        /\ ~Marker(text[j]) => \A b : Open(text, j, b) <=> Open(text, j - 1, b)
    BY <1>1, OpenSteps
  <2>7. CASE text[j].kind = "start"
    <3>1. now.section = text[j].name
      BY <2>2, <2>3, <2>4, <2>7 DEF Turn
    <3> QED  BY <2>6, <2>7, <3>1 DEF InSection
  <2>8. CASE text[j].kind = "end"
    <3>1. now.section = Outside
      BY <2>2, <2>3, <2>4, <2>8 DEF Turn
    <3> QED  BY <2>6, <2>8, <3>1 DEF InSection
  <2>9. CASE ~Marker(text[j])
    <3>1. now.section = was.section
      BY <2>2, <2>4, <2>9 DEF Turn
    <3> QED  BY <2>5, <2>6, <2>9, <3>1 DEF InSection
  <2> QED  BY <2>7, <2>8, <2>9 DEF Marker
<1>6. \A j \in 0..n : j \in T
  BY <1>1, <1>4, <1>5, Stepwise
<1> QED  BY <1>1, <1>3, <1>6

\* A line of a file.
LEMMA LineOf ==
  ASSUME NEW text \in Seq(Lines), NEW i \in 1..Len(text)
  PROVE  text[i] \in Lines /\ text[i].name # Outside
<1>1. text[i] \in Lines
  OBVIOUS
<1>2. \A line \in Lines : line.name # Outside
  BY DEF Lines
<1> QED  BY <1>1, <1>2

\* What Malformed looks at.
LEMMA MalformedIs ==
  ASSUME NEW text
  PROVE  Malformed(text) <=> \/ Scan(text)[Len(text)].malformed
                             \/ Scan(text)[Len(text)].section # Outside
BY DEF Malformed, ReadonlyProjection

\* Markers in pairs: every line is scanned, and no section is left open.
LEMMA PairedScans ==
  ASSUME NEW text \in Seq(Lines), Paired(text)
  PROVE  ~Malformed(text) /\ \A i \in 0..Len(text) : ~Scan(text)[i].malformed
<1>1. PICK n, scan : n = Len(text) /\ n \in Nat /\ scan = Scan(text)
  OBVIOUS
<1>2. /\ scan[0] = Begun
      /\ \A j \in 1..n : Turn(scan[j - 1], text[j], scan[j])
  BY <1>1, ScanRuns
<1>3. PICK T : T = {j \in 0..n : ~scan[j].malformed}
  OBVIOUS
<1>4. 0 \in T
  BY <1>1, <1>2, <1>3 DEF Begun
<1>5. \A b, j : j \in 0..n /\ Open(text, j, b) =>
        \E e \in (j + 1)..n : Section(text, b, e)
  <2> TAKE b, j
  <2> HAVE j \in 0..n /\ Open(text, j, b)
  <2>1. b \in 1..n /\ text[b].kind = "start" /\ \A k \in (b + 1)..j : ~Marker(text[k])
    BY <1>1 DEF Open
  <2>2. PICK e \in (b + 1)..n : Section(text, b, e)
    BY <1>1, <2>1 DEF Paired
  <2>3. Marker(text[e])
    BY <2>2 DEF Section, Marker
  <2> QED  BY <1>1, <2>1, <2>2, <2>3
<1>6. ASSUME NEW j \in 1..n, j - 1 \in T PROVE j \in T
  <2>1. PICK was, now : was = scan[j - 1] /\ now = scan[j]
    OBVIOUS
  <2>2. Turn(was, text[j], now) /\ ~was.malformed
    BY <1>2, <1>3, <1>6, <2>1
  <2>3. InSection(text, j - 1, was.section)
    BY <1>1, <2>1, <2>2, SectionIsOpen
  <2>4. ~now.malformed
    <3>1. CASE text[j].kind = "start"
      <4>1. \A b : ~Open(text, j - 1, b)
        <5> SUFFICES ASSUME NEW b, Open(text, j - 1, b) PROVE FALSE
          OBVIOUS
        <5>1. PICK e \in j..n : Section(text, b, e)
          BY <1>1, <1>5
        <5>2. e # j /\ b \in 1..(j - 1)
          BY <3>1, <5>1 DEF Section, Open
        <5>3. j \in (b + 1)..(e - 1)
          BY <1>1, <5>1, <5>2
        <5> QED  BY <3>1, <5>1, <5>3 DEF Section, Marker
      <4>2. was.section = Outside
        BY <2>3, <4>1 DEF InSection
      <4> QED  BY <2>2, <3>1, <4>2 DEF Turn
    <3>2. CASE text[j].kind = "end"
      <4>1. PICK b \in 1..(j - 1) : Section(text, b, j)
        BY <1>1, <3>2 DEF Paired
      <4>2. Open(text, j - 1, b) /\ text[b].name = text[j].name
        BY <4>1 DEF Section, Open
      <4>3. was.section = text[j].name
        BY <2>3, <4>2 DEF InSection
      <4> QED  BY <2>2, <3>2, <4>3 DEF Turn
    <3>3. CASE ~Marker(text[j])
      BY <2>2, <3>3 DEF Turn
    <3> QED  BY <3>1, <3>2, <3>3 DEF Marker
  <2> QED  BY <1>1, <1>3, <2>1, <2>4
<1>7. \A j \in 0..n : j \in T
  BY <1>1, <1>4, <1>6, Stepwise
<1>8. \A j \in 0..n : ~scan[j].malformed
  BY <1>3, <1>7
<1>9. scan[n].section = Outside
  <2>1. InSection(text, n, scan[n].section)
    BY <1>1, <1>8, SectionIsOpen
  <2>2. \A b : ~Open(text, n, b)
    BY <1>1, <1>5
  <2> QED  BY <2>1, <2>2 DEF InSection
<1> QED  BY <1>1, <1>8, <1>9, MalformedIs

\* The markers among the first i lines are in pairs, but for an open start.
PairedUpto(text, i) ==
  \A j \in 1..i :
    /\ text[j].kind = "end" => \E b \in 1..(j - 1) : Section(text, b, j)
    /\ text[j].kind = "start" =>
         Open(text, i, j) \/ \E e \in (j + 1)..i : Section(text, j, e)

LEMMA ScansArePaired ==
  ASSUME NEW text \in Seq(Lines), ~Malformed(text)
  PROVE  Paired(text)
<1>1. PICK n, scan : n = Len(text) /\ n \in Nat /\ scan = Scan(text)
  OBVIOUS
<1>2. /\ scan[0] = Begun
      /\ \A j \in 1..n : Turn(scan[j - 1], text[j], scan[j])
  BY <1>1, ScanRuns
<1>3. ~scan[n].malformed /\ scan[n].section = Outside
  BY <1>1, MalformedIs
<1> DEFINE Good(j) == ~scan[j].malformed => PairedUpto(text, j)
<1>4. PICK T : T = {j \in 0..n : Good(j)}
  OBVIOUS
<1>5. 0 \in T
  BY <1>1, <1>4 DEF PairedUpto
<1>6. ASSUME NEW j \in 1..n, j - 1 \in T PROVE j \in T
  <2>1. PICK was, now : was = scan[j - 1] /\ now = scan[j]
    OBVIOUS
  <2>2. Turn(was, text[j], now) /\ Good(j - 1)
    BY <1>2, <1>4, <1>6, <2>1
  <2>3. SUFFICES ASSUME ~now.malformed PROVE PairedUpto(text, j)
    BY <1>1, <1>4, <2>1
  <2>4. ~was.malformed
    BY <2>2, <2>3 DEF Turn
  <2>5. PairedUpto(text, j - 1)
    BY <2>1, <2>2, <2>4
  <2> HIDE DEF Good
  <2>6. InSection(text, j - 1, was.section)
    BY <1>1, <2>1, <2>4, SectionIsOpen
  <2>7. /\ text[j].kind = "start" => \A b : Open(text, j, b) <=> b = j
        /\ text[j].kind = "end" => \A b : ~Open(text, j, b)
        /\ ~Marker(text[j]) => \A b : Open(text, j, b) <=> Open(text, j - 1, b)
    BY <1>1, OpenSteps
  <2>8. text[j].name # Outside
    BY <1>1, LineOf
  <2>9. CASE text[j].kind = "start"
    <3>1. was.section = Outside
      BY <2>2, <2>3, <2>4, <2>9 DEF Turn
    <3>2. \A b \in 1..(j - 1) : ~Open(text, j - 1, b)
      <4> TAKE b \in 1..(j - 1)
      <4>1. text[b].name # Outside
        BY <1>1, LineOf
      <4> QED  BY <2>6, <3>1, <4>1 DEF InSection
    <3> QED  BY <2>5, <2>7, <2>9, <3>2 DEF PairedUpto
  <2>10. CASE text[j].kind = "end"
    <3>1. was.section = text[j].name
      BY <2>2, <2>3, <2>4, <2>10 DEF Turn
    <3>2. PICK b : Open(text, j - 1, b) /\ text[b].name = text[j].name
      BY <2>6, <2>8, <3>1 DEF InSection
    <3>3. b \in 1..(j - 1) /\ Section(text, b, j)
      BY <2>10, <3>2 DEF Open, Section
    <3>4. \A c : Open(text, j - 1, c) => c = b
      BY <3>2 DEF Open, Marker
    <3> QED  BY <2>5, <2>10, <3>3, <3>4 DEF PairedUpto
  <2>11. CASE ~Marker(text[j])
    BY <2>5, <2>7, <2>11 DEF PairedUpto, Marker
  <2> QED  BY <2>9, <2>10, <2>11 DEF Marker
<1>7. \A j \in 0..n : j \in T
  BY <1>1, <1>5, <1>6, Stepwise
<1>8. PairedUpto(text, n)
  BY <1>1, <1>3, <1>4, <1>7
<1>9. \A b \in 1..n : ~Open(text, n, b)
  <2> TAKE b \in 1..n
  <2>1. InSection(text, n, Outside)
    BY <1>1, <1>3, SectionIsOpen
  <2>2. text[b].name # Outside
    BY <1>1, LineOf
  <2> QED  BY <2>1, <2>2 DEF InSection
<1>10. DOMAIN text = 1..n
  BY <1>1
<1> QED  BY <1>1, <1>8, <1>9, <1>10 DEF PairedUpto, Paired

LEMMA MalformedIsUnpaired ==
  ASSUME NEW text \in Seq(Lines)
  PROVE  Malformed(text) <=> ~Paired(text)
BY PairedScans, ScansArePaired

\* A line between the markers of an editable section is one the scan drops.
LEMMA BodyIsSkipped ==
  ASSUME NEW text \in Seq(Lines), Paired(text), NEW i \in 1..Len(text)
  PROVE  /\ Marker(text[i]) => ~InEditableBody(text, i)
         /\ ~Marker(text[i]) => (InEditableBody(text, i)
                                 <=> Scan(text)[i - 1].section \in Editable)
<1>1. PICK n, section : n = Len(text) /\ n \in Nat /\ section = Scan(text)[i - 1].section
  OBVIOUS
<1>2. InSection(text, i - 1, section)
  <2>1. i - 1 \in 0..Len(text)
    BY <1>1
  <2>2. ~Scan(text)[i - 1].malformed
    BY <2>1, PairedScans
  <2> QED  BY <1>1, <2>1, <2>2, SectionIsOpen
<1>3. Marker(text[i]) => ~InEditableBody(text, i)
  BY <1>1 DEF InEditableBody, Section
<1>4. ASSUME InEditableBody(text, i) PROVE section \in Editable
  <2>1. PICK b \in 1..(i - 1), e \in (i + 1)..n :
           Section(text, b, e) /\ text[b].name \in Editable
    BY <1>1, <1>4 DEF InEditableBody
  <2>2. Open(text, i - 1, b)
    BY <1>1, <2>1 DEF Open, Section
  <2> QED  BY <1>2, <2>1, <2>2 DEF InSection
<1>5. ASSUME ~Marker(text[i]), section \in Editable PROVE InEditableBody(text, i)
  <2>1. section # Outside
    BY <1>5 DEF Editable, Outside
  <2>2. PICK b : Open(text, i - 1, b) /\ text[b].name = section
    BY <1>2, <2>1 DEF InSection
  <2>3. b \in 1..(i - 1) /\ b \in 1..n /\ text[b].kind = "start"
    BY <1>1, <2>2 DEF Open
  <2>4. PICK e \in (b + 1)..n : Section(text, b, e)
    BY <1>1, <2>3 DEF Paired
  <2>5. e \notin (b + 1)..(i - 1) /\ e # i
    BY <1>5, <2>2, <2>4 DEF Open, Section, Marker
  <2>6. e \in (i + 1)..n
    BY <1>1, <2>3, <2>4, <2>5
  <2> QED  BY <1>1, <1>5, <2>2, <2>3, <2>4, <2>6 DEF InEditableBody
<1> QED  BY <1>1, <1>3, <1>4, <1>5

\* Every line of s replaced by what g makes of it.
Spreading(s, g) ==
  LET spread[i \in 0..Len(s)] == IF i = 0 THEN <<>> ELSE spread[i - 1] \o g[s[i]]
  IN spread

Spread(s, g) == Spreading(s, g)[Len(s)]

Spreads == [KeptLines -> Seq(KeptLines)]

\* Pieces can be put together one after the other.
LEMMA PiecesJoin ==
  ASSUME NEW n \in Nat, NEW pieces \in [1..n -> Seq(KeptLines)]
  PROVE  \E run \in [0..n -> Seq(KeptLines)] :
           run[0] = <<>> /\ \A i \in 1..n : run[i] = run[i - 1] \o pieces[i]
<1>1. PICK S : S = Seq(KeptLines)
  OBVIOUS
<1>2. <<>> \in S /\ \A s, t \in S : s \o t \in S
  BY <1>1, ConcatProperties
<1>3. PICK step : step = [i \in 1..n |-> [z \in S |-> z \o pieces[i]]]
  OBVIOUS
<1>4. step \in [1..n -> [S -> S]]
  BY <1>1, <1>2, <1>3
<1>5. \E run \in [0..n -> S] :
         run[0] = <<>> /\ \A i \in 1..n : run[i] = step[i][run[i - 1]]
  BY <1>2, <1>4, RunExists
<1>6. PICK run : /\ run \in [0..n -> S] /\ run[0] = <<>>
                 /\ \A i \in 1..n : run[i] = step[i][run[i - 1]]
  BY <1>5
<1>7. \A i \in 1..n : run[i] = run[i - 1] \o pieces[i]
  <2> TAKE i \in 1..n
  <2>1. i - 1 \in 0..n /\ run[i - 1] \in S
    BY <1>6
  <2> QED  BY <1>3, <1>6, <2>1
<1> QED  BY <1>1, <1>6, <1>7

LEMMA SpreadRuns ==
  ASSUME NEW s \in Seq(KeptLines), NEW g \in Spreads
  PROVE  /\ Spreading(s, g)[0] = <<>>
         /\ \A i \in 0..Len(s) : Spreading(s, g)[i] \in Seq(KeptLines)
         /\ \A i \in 1..Len(s) :
              Spreading(s, g)[i] = Spreading(s, g)[i - 1] \o g[s[i]]
<1>1. PICK n : n = Len(s) /\ n \in Nat
  OBVIOUS
<1>2. PICK pieces : pieces = [i \in 1..n |-> g[s[i]]]
  OBVIOUS
<1>3. pieces \in [1..n -> Seq(KeptLines)] /\ \A i \in 1..n : pieces[i] = g[s[i]]
  <2>1. \A i \in 1..n : g[s[i]] \in Seq(KeptLines)
    BY <1>1 DEF Spreads
  <2> QED  BY <1>2, <2>1
<1>4. PICK run : /\ run \in [0..n -> Seq(KeptLines)] /\ run[0] = <<>>
                 /\ \A i \in 1..n : run[i] = run[i - 1] \o pieces[i]
  <2>1. \E run \in [0..n -> Seq(KeptLines)] :
           run[0] = <<>> /\ \A i \in 1..n : run[i] = run[i - 1] \o pieces[i]
    BY <1>1, <1>3, PiecesJoin
  <2> QED  BY <2>1
<1> DEFINE Loop(r) == [i \in 0..Len(s) |-> IF i = 0 THEN <<>> ELSE r[i - 1] \o g[s[i]]]
<1>5. run = Loop(run)
  <2>1. \A i \in 0..n : run[i] = IF i = 0 THEN <<>> ELSE run[i - 1] \o g[s[i]]
    <3> TAKE i \in 0..n
    <3>1. CASE i = 0
      BY <1>4, <3>1
    <3>2. CASE i # 0
      <4>1. i \in 1..n
        BY <1>1, <3>2
      <4> QED  BY <1>3, <1>4, <3>2, <4>1
    <3> QED  BY <3>1, <3>2
  <2>2. run = [i \in 0..n |-> run[i]]
    BY <1>4
  <2> QED  BY <1>1, <2>1, <2>2
<1>6. Spreading(s, g) = Loop(Spreading(s, g))
  BY <1>5 DEF Spreading
<1>7. PICK spread : spread = Spreading(s, g)
  OBVIOUS
<1>8. \A i \in 0..n : spread[i] = IF i = 0 THEN <<>> ELSE spread[i - 1] \o g[s[i]]
  <2>1. spread = Loop(spread)
    BY <1>6, <1>7
  <2> QED  BY <1>1, <2>1
<1> HIDE DEF Loop
<1>9. spread[0] = <<>> /\ \A i \in 1..n : spread[i] = spread[i - 1] \o g[s[i]]
  <2>1. 0 \in 0..n /\ \A i \in 1..n : i \in 0..n /\ i # 0
    BY <1>1
  <2> QED  BY <1>8, <2>1
<1>10. PICK T : T = {i \in 0..n : spread[i] = run[i]}
  OBVIOUS
<1>11. 0 \in T
  BY <1>1, <1>4, <1>9, <1>10
<1>12. ASSUME NEW i \in 1..n, i - 1 \in T PROVE i \in T
  <2>1. i \in 0..n /\ spread[i - 1] = run[i - 1]
    BY <1>1, <1>10, <1>12
  <2>2. spread[i] = spread[i - 1] \o g[s[i]] /\ run[i] = run[i - 1] \o g[s[i]]
    BY <1>3, <1>4, <1>9
  <2> QED  BY <1>10, <2>1, <2>2
<1>13. \A i \in 0..n : i \in T
  BY <1>1, <1>11, <1>12, Stepwise
<1>14. \A i \in 0..n : spread[i] \in Seq(KeptLines)
  BY <1>4, <1>10, <1>13
<1> QED  BY <1>1, <1>7, <1>9, <1>14

LEMMA SpreadSteps ==
  ASSUME NEW g \in Spreads
  PROVE  /\ Spread(<<>>, g) = <<>>
         /\ \A s \in Seq(KeptLines) : Spread(s, g) \in Seq(KeptLines)
         /\ \A s \in Seq(KeptLines), x \in KeptLines :
              Spread(Append(s, x), g) = Spread(s, g) \o g[x]
<1>1. Spread(<<>>, g) = <<>>
  <2>1. PICK s : s = <<>> /\ s \in Seq(KeptLines)
    <3>1. <<>> \in Seq(KeptLines)
      OBVIOUS
    <3> QED  BY <3>1
  <2>2. Len(s) = 0
    BY <2>1
  <2> QED  BY <2>1, <2>2, SpreadRuns DEF Spread
<1>2. ASSUME NEW s \in Seq(KeptLines) PROVE Spread(s, g) \in Seq(KeptLines)
  <2>1. PICK n : n = Len(s) /\ n \in Nat
    OBVIOUS
  <2>2. n \in 0..n
    BY <2>1
  <2>3. Spreading(s, g)[n] \in Seq(KeptLines)
    BY <2>1, <2>2, SpreadRuns
  <2> QED  BY <2>1, <2>3 DEF Spread
<1>3. ASSUME NEW s \in Seq(KeptLines), NEW x \in KeptLines
      PROVE  Spread(Append(s, x), g) = Spread(s, g) \o g[x]
  <2>1. PICK t : t = Append(s, x)
    OBVIOUS
  <2>2. PICK n : n = Len(s) /\ n \in Nat /\ t = Append(s, x)
    <3>1. Len(s) \in Nat
      OBVIOUS
    <3> QED  BY <2>1, <3>1
  <2>3. /\ t \in Seq(KeptLines) /\ Len(t) = n + 1 /\ t[n + 1] = x
        /\ \A i \in 1..n : t[i] = s[i]
    BY <2>2
  <2>4. PICK a, b : a = Spreading(s, g) /\ b = Spreading(t, g)
    OBVIOUS
  <2>5. a[0] = <<>> /\ \A i \in 1..n : a[i] = a[i - 1] \o g[s[i]]
    BY <2>2, <2>4, SpreadRuns
  <2>6. b[0] = <<>> /\ \A i \in 1..(n + 1) : b[i] = b[i - 1] \o g[t[i]]
    BY <2>3, <2>4, SpreadRuns
  <2>7. PICK T : T = {i \in 0..n : a[i] = b[i]}
    OBVIOUS
  <2>8. 0 \in T
    BY <2>2, <2>5, <2>6, <2>7
  <2>9. ASSUME NEW i \in 1..n, i - 1 \in T PROVE i \in T
    <3>1. i \in 0..n /\ i \in 1..(n + 1) /\ a[i - 1] = b[i - 1]
      BY <2>2, <2>7, <2>9
    <3>2. a[i] = a[i - 1] \o g[s[i]] /\ b[i] = b[i - 1] \o g[s[i]]
      BY <2>3, <2>5, <2>6, <3>1
    <3> QED  BY <2>7, <3>1, <3>2
  <2>10. \A i \in 0..n : i \in T
    BY <2>2, <2>8, <2>9, Stepwise
  <2>11. b[n] = a[n] /\ b[n + 1] = b[n] \o g[x]
    <3>1. n \in 0..n /\ n + 1 \in 1..(n + 1) /\ (n + 1) - 1 = n
      BY <2>2
    <3> QED  BY <2>3, <2>6, <2>7, <2>10, <3>1
  <2> QED  BY <2>2, <2>3, <2>4, <2>11 DEF Spread
<1> QED  BY <1>1, <1>2, <1>3

\* The loop of Squeeze.
LEMMA SqueezeRuns ==
  ASSUME NEW s \in Seq(KeptLines), NEW staying
  PROVE  /\ Squeeze(s, staying)[0] = <<>>
         /\ \A i \in 0..Len(s) : Squeeze(s, staying)[i] \in Seq(KeptLines)
         /\ \A i \in 1..Len(s) :
              Squeeze(s, staying)[i]
                = IF i \in staying THEN Append(Squeeze(s, staying)[i - 1], Bare(s[i]))
                                   ELSE Squeeze(s, staying)[i - 1]
<1>1. PICK n : n = Len(s) /\ n \in Nat
  OBVIOUS
<1>2. \A i \in 1..n : Bare(s[i]) \in KeptLines
  BY <1>1, LineFields
<1>3. PICK pieces : pieces = [i \in 1..n |-> IF i \in staying THEN <<Bare(s[i])>> ELSE <<>>]
  OBVIOUS
<1>4. pieces \in [1..n -> Seq(KeptLines)]
  <2>1. \A i \in 1..n : <<Bare(s[i])>> \in Seq(KeptLines)
    BY <1>2
  <2>2. <<>> \in Seq(KeptLines)
    OBVIOUS
  <2> QED  BY <1>3, <2>1, <2>2
<1>5. PICK run : /\ run \in [0..n -> Seq(KeptLines)] /\ run[0] = <<>>
                 /\ \A i \in 1..n : run[i] = run[i - 1] \o pieces[i]
  <2>1. \E run \in [0..n -> Seq(KeptLines)] :
           run[0] = <<>> /\ \A i \in 1..n : run[i] = run[i - 1] \o pieces[i]
    BY <1>1, <1>4, PiecesJoin
  <2> QED  BY <2>1
<1>6. \A i \in 1..n : run[i] = IF i \in staying THEN Append(run[i - 1], Bare(s[i]))
                                               ELSE run[i - 1]
  <2> TAKE i \in 1..n
  <2>1. PICK was : was = run[i - 1] /\ was \in Seq(KeptLines) /\ run[i] = was \o pieces[i]
    <3>1. i - 1 \in 0..n
      BY <1>1
    <3>2. run[i - 1] \in Seq(KeptLines) /\ run[i] = run[i - 1] \o pieces[i]
      BY <1>5, <3>1
    <3> QED  BY <3>2
  <2>2. Append(was, Bare(s[i])) = was \o <<Bare(s[i])>> /\ was \o <<>> = was
    BY <1>2, <2>1, AppendIsConcat, ConcatEmptySeq
  <2> QED  BY <1>3, <2>1, <2>2
<1> DEFINE Loop(r) == [i \in 0..Len(s) |->
                         IF i = 0 THEN <<>>
                         ELSE IF i \in staying THEN Append(r[i - 1], [s[i] EXCEPT !.space = 0])
                              ELSE r[i - 1]]
<1>7. run = Loop(run)
  <2>1. \A i \in 0..n : run[i] = IF i = 0 THEN <<>>
                                 ELSE IF i \in staying THEN Append(run[i - 1], Bare(s[i]))
                                      ELSE run[i - 1]
    <3> TAKE i \in 0..n
    <3>1. CASE i = 0
      BY <1>5, <3>1
    <3>2. CASE i # 0
      <4>1. i \in 1..n
        BY <1>1, <3>2
      <4> QED  BY <1>6, <3>2, <4>1
    <3> QED  BY <3>1, <3>2
  <2>2. run = [i \in 0..n |-> run[i]]
    BY <1>5
  <2> QED  BY <1>1, <2>1, <2>2 DEF Bare
<1>8. Squeeze(s, staying) = Loop(Squeeze(s, staying))
  BY <1>7 DEF Squeeze
<1>9. PICK out : out = Squeeze(s, staying)
  OBVIOUS
<1>10. \A i \in 0..n : out[i] = IF i = 0 THEN <<>>
                                ELSE IF i \in staying THEN Append(out[i - 1], Bare(s[i]))
                                     ELSE out[i - 1]
  <2>1. out = Loop(out)
    BY <1>8, <1>9
  <2> QED  BY <1>1, <2>1 DEF Bare
<1> HIDE DEF Loop
<1>11. /\ out[0] = <<>>
       /\ \A i \in 1..n : out[i] = IF i \in staying THEN Append(out[i - 1], Bare(s[i]))
                                                    ELSE out[i - 1]
  <2>1. 0 \in 0..n /\ \A i \in 1..n : i \in 0..n /\ i # 0
    BY <1>1
  <2> QED  BY <1>10, <2>1
<1>12. PICK T : T = {i \in 0..n : out[i] = run[i]}
  OBVIOUS
<1>13. 0 \in T
  BY <1>1, <1>5, <1>11, <1>12
<1>14. ASSUME NEW i \in 1..n, i - 1 \in T PROVE i \in T
  <2>1. i \in 0..n /\ out[i - 1] = run[i - 1]
    BY <1>1, <1>12, <1>14
  <2> QED  BY <1>6, <1>11, <1>12, <2>1
<1>15. \A i \in 0..n : i \in T
  BY <1>1, <1>13, <1>14, Stepwise
<1>16. \A i \in 0..n : out[i] \in Seq(KeptLines)
  BY <1>5, <1>12, <1>15
<1> QED  BY <1>1, <1>9, <1>11, <1>16

\* WsNormalize goes line by line.
Tidy == [line \in KeptLines |-> IF line.kind = "blank" THEN <<>> ELSE <<Bare(line)>>]

LEMMA TidySpreads == Tidy \in Spreads
<1>1. <<>> \in Seq(KeptLines)
  OBVIOUS
<1>2. \A line \in KeptLines : <<Bare(line)>> \in Seq(KeptLines)
  BY LineFields
<1> QED  BY <1>1, <1>2 DEF Tidy, Spreads

LEMMA NormalForm ==
  ASSUME NEW s \in Seq(KeptLines)
  PROVE  WsNormalize(s) = Spread(s, Tidy)
<1>1. PICK n : n = Len(s) /\ n \in Nat
  OBVIOUS
<1>2. PICK a, b : a = Squeeze(s, Written(s)) /\ b = Spreading(s, Tidy)
  OBVIOUS
<1>3. /\ a[0] = <<>> /\ \A i \in 0..n : a[i] \in Seq(KeptLines)
      /\ \A i \in 1..n : a[i] = IF i \in Written(s) THEN Append(a[i - 1], Bare(s[i]))
                                                    ELSE a[i - 1]
  BY <1>1, <1>2, SqueezeRuns
<1>4. b[0] = <<>> /\ \A i \in 1..n : b[i] = b[i - 1] \o Tidy[s[i]]
  BY <1>1, <1>2, SpreadRuns, TidySpreads
<1>5. PICK T : T = {i \in 0..n : a[i] = b[i]}
  OBVIOUS
<1>6. 0 \in T
  BY <1>1, <1>3, <1>4, <1>5
<1>7. ASSUME NEW i \in 1..n, i - 1 \in T PROVE i \in T
  <2>1. PICK was, line : was = a[i - 1] /\ line = s[i]
    OBVIOUS
  <2>2. was \in Seq(KeptLines) /\ line \in KeptLines /\ b[i - 1] = was
    BY <1>1, <1>3, <1>5, <1>7, <2>1
  <2>3. i \in Written(s) <=> line.kind # "blank"
    BY <1>1, <2>1 DEF Written
  <2>4. Bare(line) \in KeptLines
    BY <2>2, LineFields
  <2>5. Append(was, Bare(line)) = was \o <<Bare(line)>> /\ was \o <<>> = was
    BY <2>2, <2>4, AppendIsConcat, ConcatEmptySeq
  <2>6. Tidy[line] = IF line.kind = "blank" THEN <<>> ELSE <<Bare(line)>>
    BY <2>2 DEF Tidy
  <2>7. a[i] = was \o Tidy[line]
    BY <1>3, <2>1, <2>3, <2>5, <2>6
  <2>8. b[i] = was \o Tidy[line]
    BY <1>4, <2>1, <2>2
  <2>9. i \in 0..n
    BY <1>1
  <2> QED  BY <1>5, <2>7, <2>8, <2>9
<1>8. \A i \in 0..n : i \in T
  BY <1>1, <1>6, <1>7, Stepwise
<1>9. a[n] = b[n]
  BY <1>1, <1>5, <1>8
<1> QED  BY <1>1, <1>2, <1>9 DEF WsNormalize, Spread

\* The sentinels put in after the start of editable sections, and taken out.
Begins(line) == line.kind = "start" /\ line.name \in Editable

Mark == [line \in KeptLines |-> IF Begins(line) THEN <<line, Sentinel(line)>> ELSE <<line>>]
Unmark == [line \in KeptLines |-> IF line.kind = "sentinel" THEN <<>> ELSE <<line>>]

LEMMA MarkSpreads == Mark \in Spreads /\ Unmark \in Spreads
<1>1. <<>> \in Seq(KeptLines)
  OBVIOUS
<1>2. \A line \in KeptLines : <<line>> \in Seq(KeptLines)
                              /\ <<line, Sentinel(line)>> \in Seq(KeptLines)
  BY LineFields
<1> QED  BY <1>1, <1>2 DEF Mark, Unmark, Spreads

LEMMA LineKinds ==
  ASSUME NEW line \in KeptLines
  PROVE  /\ Bare(line) \in KeptLines /\ Sentinel(line) \in KeptLines
         /\ Bare(line).kind = line.kind /\ Bare(line).name = line.name
         /\ Sentinel(line).kind = "sentinel"
         /\ Sentinel(Bare(line)) = Bare(Sentinel(line))
<1>1. PICK a, b, c : line = [kind |-> a, name |-> b, space |-> c]
  BY DEF KeptLines
<1>2. Bare(line) = [kind |-> a, name |-> b, space |-> 0] /\ Bare(line) \in KeptLines
  BY <1>1, LineFields
<1>3. Sentinel(line) = [kind |-> "sentinel", name |-> b, space |-> c]
      /\ Sentinel(line) \in KeptLines
  BY <1>1, LineFields
<1>4. Sentinel(Bare(line)) = [kind |-> "sentinel", name |-> b, space |-> 0]
  BY <1>2, LineFields
<1>5. Bare(Sentinel(line)) = [kind |-> "sentinel", name |-> b, space |-> 0]
  BY <1>3, LineFields
<1> QED  BY <1>1, <1>2, <1>3, <1>4, <1>5

LEMMA MarkSteps ==
  /\ Spread(<<>>, Mark) = <<>> /\ Spread(<<>>, Unmark) = <<>>
  /\ \A s \in Seq(KeptLines), x \in KeptLines :
       /\ Spread(Append(s, x), Mark) = Spread(s, Mark) \o Mark[x]
       /\ Spread(Append(s, x), Unmark) = Spread(s, Unmark) \o Unmark[x]
<1>1. ASSUME NEW g \in Spreads
      PROVE  /\ Spread(<<>>, g) = <<>>
             /\ \A s \in Seq(KeptLines), x \in KeptLines :
                  Spread(Append(s, x), g) = Spread(s, g) \o g[x]
  BY SpreadSteps
<1> QED  BY <1>1, MarkSpreads

LEMMA AppendTwo ==
  ASSUME NEW s \in Seq(KeptLines), NEW x \in KeptLines, NEW y \in KeptLines
  PROVE  Append(Append(s, x), y) = s \o <<x, y>>
<1>1. PICK t : t = Append(s, x)
  OBVIOUS
<1>2. PICK u : u = Append(t, y)
  OBVIOUS
<1>3. PICK n : n = Len(s) /\ n \in Nat
  OBVIOUS
<1>4. /\ t \in Seq(KeptLines) /\ Len(t) = n + 1 /\ t[n + 1] = x
      /\ \A i \in 1..n : t[i] = s[i]
  BY <1>1, <1>3, AppendProperties
<1>5. /\ u \in Seq(KeptLines) /\ Len(u) = n + 2 /\ u[n + 2] = y /\ u[n + 1] = x
      /\ \A i \in 1..n : u[i] = s[i]
  BY <1>2, <1>3, <1>4, AppendProperties
<1>6. PICK two : two = <<x, y>> /\ two \in Seq(KeptLines)
  <2>1. <<x, y>> \in Seq(KeptLines)
    OBVIOUS
  <2> QED  BY <2>1
<1>7. Len(two) = 2 /\ two[1] = x /\ two[2] = y
  BY <1>6
<1>8. PICK v : v = s \o two
  OBVIOUS
<1>9. /\ v \in Seq(KeptLines) /\ Len(v) = n + 2
      /\ \A i \in 1..(n + 2) : v[i] = IF i <= n THEN s[i] ELSE two[i - n]
  BY <1>3, <1>6, <1>7, <1>8, ConcatProperties
<1>10. \A i \in 1..(n + 2) : u[i] = v[i]
  <2>1. v[n + 1] = x /\ v[n + 2] = y
    BY <1>3, <1>7, <1>9
  <2> QED  BY <1>3, <1>5, <1>9, <2>1
<1>11. u = v
  BY <1>3, <1>5, <1>9, <1>10
<1> QED  BY <1>2, <1>1, <1>6, <1>8, <1>11

LEMMA NormalNothing == WsNormalize(<<>>) = <<>>
<1>1. <<>> \in Seq(KeptLines)
  OBVIOUS
<1>2. WsNormalize(<<>>) = Spread(<<>>, Tidy)
  BY <1>1, NormalForm
<1> QED  BY <1>2, SpreadSteps, TidySpreads

\* The lines the guard kept say what the outline says, and no more.
Agree(kept, outline) ==
  /\ kept \in Seq(KeptLines) /\ outline \in Seq(KeptLines)
  /\ WsNormalize(kept) = Spread(outline, Mark)
  /\ Spread(WsNormalize(kept), Unmark) = outline

LEMMA NormalSteps ==
  ASSUME NEW s \in Seq(KeptLines), NEW x \in KeptLines
  PROVE  /\ WsNormalize(s) \in Seq(KeptLines)
         /\ x.kind = "blank" => WsNormalize(Append(s, x)) = WsNormalize(s)
         /\ x.kind # "blank" => WsNormalize(Append(s, x)) = Append(WsNormalize(s), Bare(x))
<1>1. PICK t : t = Append(s, x) /\ t \in Seq(KeptLines)
  BY AppendProperties
<1>2. PICK w : w = WsNormalize(s)
  OBVIOUS
<1>3. w = Spread(s, Tidy) /\ w \in Seq(KeptLines)
  BY <1>2, NormalForm, SpreadSteps, TidySpreads
<1>4. WsNormalize(t) = w \o Tidy[x]
  <2>1. WsNormalize(t) = Spread(t, Tidy)
    BY <1>1, NormalForm
  <2>2. Spread(Append(s, x), Tidy) = Spread(s, Tidy) \o Tidy[x]
    BY SpreadSteps, TidySpreads
  <2> QED  BY <1>1, <1>3, <2>1, <2>2
<1>5. Tidy[x] = IF x.kind = "blank" THEN <<>> ELSE <<Bare(x)>>
  BY DEF Tidy
<1>6. w \o <<>> = w
  BY <1>3, ConcatEmptySeq
<1>7. Append(w, Bare(x)) = w \o <<Bare(x)>>
  BY <1>3, LineFields, AppendIsConcat
<1> QED  BY <1>1, <1>2, <1>3, <1>4, <1>5, <1>6, <1>7

LEMMA AgreeNothing == Agree(<<>>, <<>>)
<1>1. <<>> \in Seq(KeptLines)
  OBVIOUS
<1> QED  BY <1>1, NormalNothing, MarkSteps DEF Agree

\* A blank line is none.
LEMMA AgreeBlank ==
  ASSUME NEW k, NEW o, Agree(k, o), NEW x \in KeptLines, x.kind = "blank"
  PROVE  Agree(Append(k, x), o)
BY NormalSteps, AppendProperties DEF Agree

\* A line that both keep.
LEMMA AgreeLine ==
  ASSUME NEW k, NEW o, Agree(k, o), NEW x \in KeptLines,
         x.kind \notin {"blank", "sentinel"}, ~Begins(x)
  PROVE  Agree(Append(k, x), Append(o, Bare(x)))
<1>1. PICK w : w = WsNormalize(k)
  OBVIOUS
<1>2. /\ k \in Seq(KeptLines) /\ o \in Seq(KeptLines) /\ w \in Seq(KeptLines)
      /\ w = Spread(o, Mark) /\ Spread(w, Unmark) = o
  BY <1>1, NormalSteps DEF Agree
<1>3. PICK y : y = Bare(x) /\ y \in KeptLines /\ y.kind = x.kind /\ y.name = x.name
  BY LineKinds
<1>4. Append(k, x) \in Seq(KeptLines) /\ Append(o, y) \in Seq(KeptLines)
  BY <1>2, <1>3, AppendProperties
<1>5. WsNormalize(Append(k, x)) = Append(w, y)
  BY <1>1, <1>2, <1>3, NormalSteps
<1>6. Mark[y] = <<y>> /\ Unmark[y] = <<y>>
  BY <1>3 DEF Mark, Unmark, Begins
<1>7. Spread(Append(o, y), Mark) = w \o <<y>>
  BY <1>2, <1>3, <1>6, MarkSteps
<1>8. Spread(Append(w, y), Unmark) = o \o <<y>>
  BY <1>2, <1>3, <1>6, MarkSteps
<1>9. Append(w, y) = w \o <<y>> /\ Append(o, y) = o \o <<y>>
  BY <1>2, <1>3, AppendIsConcat
<1> QED  BY <1>3, <1>4, <1>5, <1>7, <1>8, <1>9 DEF Agree

\* The start of an editable section: the guard keeps it and a sentinel.
LEMMA AgreeStart ==
  ASSUME NEW k, NEW o, Agree(k, o), NEW x \in KeptLines, Begins(x)
  PROVE  Agree(Append(Append(k, x), Sentinel(x)), Append(o, Bare(x)))
<1>1. PICK w : w = WsNormalize(k)
  OBVIOUS
<1>2. /\ k \in Seq(KeptLines) /\ o \in Seq(KeptLines) /\ w \in Seq(KeptLines)
      /\ w = Spread(o, Mark) /\ Spread(w, Unmark) = o
  BY <1>1, NormalSteps DEF Agree
<1>3. PICK y : y = Bare(x) /\ y \in KeptLines /\ y.kind = "start" /\ Begins(y)
  BY LineKinds DEF Begins
<1>4. PICK z : z = Sentinel(x) /\ z \in KeptLines /\ z.kind = "sentinel"
  BY LineKinds
<1>5. PICK u : u = Sentinel(y) /\ u \in KeptLines /\ u.kind = "sentinel" /\ u = Bare(z)
  BY <1>3, <1>4, LineKinds
<1>6. PICK k1, k2 : k1 = Append(k, x) /\ k2 = Append(k1, z)
  OBVIOUS
<1>7. k1 \in Seq(KeptLines) /\ k2 \in Seq(KeptLines) /\ Append(o, y) \in Seq(KeptLines)
  BY <1>2, <1>3, <1>4, <1>6, AppendProperties
<1>8. WsNormalize(k1) = Append(w, y)
  BY <1>1, <1>2, <1>3, <1>6, NormalSteps DEF Begins
<1>9. PICK w1 : w1 = Append(w, y) /\ w1 \in Seq(KeptLines)
  BY <1>2, <1>3, AppendProperties
<1>10. WsNormalize(k2) = Append(w1, u)
  <2>1. \A l \in Seq(KeptLines) : WsNormalize(Append(l, z)) = Append(WsNormalize(l), Bare(z))
    BY <1>4, NormalSteps
  <2> QED  BY <1>5, <1>6, <1>7, <1>8, <1>9, <2>1
<1>11. Mark[y] = <<y, u>> /\ Unmark[y] = <<y>> /\ Unmark[u] = <<>>
  BY <1>3, <1>5 DEF Mark, Unmark
<1>12. Spread(Append(o, y), Mark) = w \o <<y, u>>
  BY <1>2, <1>3, <1>11, MarkSteps
<1>13. PICK o1 : o1 = o \o <<y>> /\ o1 \in Seq(KeptLines) /\ o1 = Append(o, y)
  BY <1>2, <1>3, <1>7, AppendIsConcat
<1>14. Spread(w1, Unmark) = o1
  BY <1>2, <1>3, <1>9, <1>11, <1>13, MarkSteps
<1>15. Spread(Append(w1, u), Unmark) = o1
  <2>1. Spread(Append(w1, u), Unmark) = o1 \o <<>>
    BY <1>5, <1>9, <1>11, <1>14, MarkSteps
  <2> QED  BY <1>13, <2>1, ConcatEmptySeq
<1>16. Append(w1, u) = w \o <<y, u>>
  BY <1>2, <1>3, <1>5, <1>9, AppendTwo
<1> QED  BY <1>3, <1>4, <1>6, <1>7, <1>10, <1>12, <1>13, <1>15, <1>16 DEF Agree

\* Line by line, the kept lines and the outline agree.
Stays(text) == {i \in Written(text) : ~InEditableBody(text, i)}

LEMMA ScanAgrees ==
  ASSUME NEW text \in Seq(Lines), Paired(text)
  PROVE  Agree(ReadonlyProjection(text).kept, Outline(text))
<1>1. PICK n : n = Len(text) /\ n \in Nat
  OBVIOUS
<1>2. PICK scan : scan = Scan(text)
  OBVIOUS
<1>3. PICK out : out = Squeeze(text, Stays(text))
  OBVIOUS
<1>4. /\ scan[0] = Begun /\ \A i \in 0..n : scan[i] \in Scans /\ ~scan[i].malformed
      /\ \A i \in 1..n : Turn(scan[i - 1], text[i], scan[i])
  BY <1>1, <1>2, ScanRuns, PairedScans
<1>5. /\ out[0] = <<>>
      /\ \A i \in 1..n : out[i] = IF i \in Stays(text) THEN Append(out[i - 1], Bare(text[i]))
                                                       ELSE out[i - 1]
  <2>1. text \in Seq(KeptLines)
    BY LinesKept
  <2> QED  BY <1>1, <1>3, <2>1, SqueezeRuns
<1>6. PICK T : T = {i \in 0..n : Agree(scan[i].kept, out[i])}
  OBVIOUS
<1>7. 0 \in T
  <2>1. scan[0].kept = <<>> /\ out[0] = <<>> /\ 0 \in 0..n
    BY <1>1, <1>4, <1>5 DEF Begun
  <2> QED  BY <1>6, <2>1, AgreeNothing
<1>8. ASSUME NEW i \in 1..n, i - 1 \in T PROVE i \in T
  <2>1. PICK line : line = text[i] /\ line \in KeptLines /\ line.kind # "sentinel"
    <3>1. text[i] \in Lines
      BY <1>1, LineOf
    <3>2. \A l \in Lines : l.kind # "sentinel"
      BY DEF Lines
    <3> QED  BY <3>1, <3>2, LinesKept
  <2>2. PICK was : was = scan[i - 1]
    OBVIOUS
  <2>3. PICK now : now = scan[i]
    OBVIOUS
  <2>4. /\ Turn(was, line, now) /\ ~was.malformed /\ ~now.malformed
        /\ Agree(was.kept, out[i - 1])
    BY <1>1, <1>4, <1>6, <1>8, <2>1, <2>2, <2>3
  <2>5. SUFFICES Agree(now.kept, out[i])
    BY <1>1, <1>6, <2>3
  <2>6. i \in Stays(text) <=> line.kind # "blank" /\ ~InEditableBody(text, i)
    BY <1>1, <2>1 DEF Stays, Written
  <2>7. /\ Marker(line) => ~InEditableBody(text, i)
        /\ ~Marker(line) => (InEditableBody(text, i) <=> was.section \in Editable)
    BY <1>1, <1>2, <2>1, <2>2, BodyIsSkipped
  <2>8. was.kept \o <<line>> = Append(was.kept, line)
    BY <2>1, <2>4, AppendIsConcat DEF Agree
  <2>9. out[i] = IF i \in Stays(text) THEN Append(out[i - 1], Bare(line)) ELSE out[i - 1]
    BY <1>5, <2>1
  <2>10. CASE line.kind = "start" /\ line.name \in Editable
    <3>1. now.kept = was.kept \o <<line, Sentinel(line)>>
      BY <2>4, <2>10 DEF Turn
    <3>2. now.kept = Append(Append(was.kept, line), Sentinel(line))
      BY <2>1, <2>4, <3>1, AppendTwo, LineKinds DEF Agree
    <3>3. out[i] = Append(out[i - 1], Bare(line))
      BY <2>6, <2>7, <2>9, <2>10 DEF Marker
    <3> QED  BY <2>1, <2>4, <2>10, <3>2, <3>3, AgreeStart DEF Begins
  <2>11. CASE /\ line.kind # "blank" /\ ~Begins(line)
              /\ Marker(line) \/ was.section \notin Editable
    <3>1. now.kept = Append(was.kept, line)
      BY <2>4, <2>8, <2>11 DEF Turn, Marker, Begins
    <3>2. out[i] = Append(out[i - 1], Bare(line))
      BY <2>6, <2>7, <2>9, <2>11
    <3> QED  BY <2>1, <2>4, <2>11, <3>1, <3>2, AgreeLine
  <2>12. CASE ~Marker(line) /\ was.section \in Editable
    <3>1. now.kept = was.kept
      BY <2>4, <2>12 DEF Turn
    <3> QED  BY <2>4, <2>6, <2>7, <2>9, <2>12, <3>1
  <2>13. CASE line.kind = "blank" /\ was.section \notin Editable
    <3>1. now.kept = Append(was.kept, line)
      BY <2>4, <2>8, <2>13 DEF Turn, Marker
    <3> QED  BY <2>1, <2>4, <2>6, <2>9, <2>13, <3>1, AgreeBlank
  <2> QED  BY <2>10, <2>11, <2>12, <2>13 DEF Marker, Begins
<1>9. \A i \in 0..n : i \in T
  BY <1>1, <1>7, <1>8, Stepwise
<1>10. Agree(scan[n].kept, out[n])
  BY <1>1, <1>6, <1>9
<1>11. ReadonlyProjection(text).kept = scan[n].kept
  BY <1>1, <1>2 DEF ReadonlyProjection
<1>12. Outline(text) = out[n]
  BY <1>1, <1>3 DEF Outline, Stays
<1> QED  BY <1>10, <1>11, <1>12

\* The two automata against what they are to decide.
LEMMA GuardDecides ==
  ASSUME NEW one \in Seq(Lines), NEW other \in Seq(Lines), Protectable(one)
  PROVE  /\ HasMarkers(one) => ~Malformed(one)
         /\ GuardAccepts(one, other) <=> OnlyBodiesDiffer(one, other)
         /\ VerifierAccepts(one, other) <=> OnlyBodiesDiffer(one, other)
<1>1. CASE ~HasMarkers(one)
  BY <1>1 DEF GuardAccepts, VerifierAccepts, OnlyBodiesDiffer
<1>2. CASE HasMarkers(one) /\ ~Paired(other)
  <2>1. ~Malformed(one) /\ Malformed(other)
    BY <1>2, MalformedIsUnpaired DEF Protectable
  <2> QED  BY <1>2, <2>1
           DEF GuardAccepts, VerifierAccepts, SameReadOnlyText, OnlyBodiesDiffer
<1>3. CASE HasMarkers(one) /\ Paired(other)
  <2>1. Paired(one) /\ ~Malformed(one) /\ ~Malformed(other)
    BY <1>3, MalformedIsUnpaired DEF Protectable
  <2>2. /\ Agree(ReadonlyProjection(one).kept, Outline(one))
        /\ Agree(ReadonlyProjection(other).kept, Outline(other))
    BY <1>3, <2>1, ScanAgrees
  <2>3. WsNormalize(ReadonlyProjection(one).kept)
          = WsNormalize(ReadonlyProjection(other).kept)
        <=> Outline(one) = Outline(other)
    BY <2>2 DEF Agree
  <2> QED  BY <1>3, <2>1, <2>3
           DEF GuardAccepts, VerifierAccepts, SameReadOnlyText, OnlyBodiesDiffer
<1> QED  BY <1>1, <1>2, <1>3

\* On an original whose markers are in pairs, the guard and the verifier accept
\* exactly the files that differ in white space and in editable bodies.
THEOREM GuardExact == Spec => []GuardIsExact
<1>1. AgentInv => GuardIsExact
  <2> SUFFICES ASSUME AgentInv, file # Absent, Protectable(spec)
               PROVE  /\ Comparable
                      /\ GuardAccepts(spec, file) <=> OnlyBodiesDiffer(spec, file)
                      /\ VerifierAccepts(spec, file) <=> OnlyBodiesDiffer(spec, file)
    BY DEF GuardIsExact
  <2>1. spec \in Seq(Lines) /\ file \in Seq(Lines)
    BY FilesAreLines DEF AgentInv, TypeOK, Files
  <2> QED
    BY <2>1, GuardDecides DEF Comparable
<1> QED
  BY <1>1, AgentInvariance, PTL

\* So the file a guarded run leaves behind is the task it was given, but for
\* white space and the bodies of editable sections (qwen_native_agent.py:304).
TaskKept ==
  /\ Guarded /\ Protectable(spec) /\ ~disturbed
  /\ phase \in {"top", "request", "tool", "returned"}
  => file # Absent /\ OnlyBodiesDiffer(spec, file)

THEOREM GuardKeepsTask == Spec => []TaskKept
<1>1. AgentInv => TaskKept
  <2> SUFFICES ASSUME AgentInv, Guarded, Protectable(spec), ~disturbed,
                      phase \in {"top", "request", "tool", "returned"}
               PROVE  file # Absent /\ OnlyBodiesDiffer(spec, file)
    BY DEF TaskKept
  <2>1. file # Absent
    BY DEF AgentInv, GuardInv, FileIsLastGood, TypeOK, Guarded
  <2>2. spec \in Seq(Lines) /\ file \in Seq(Lines)
    BY <2>1, FilesAreLines DEF AgentInv, TypeOK, Files
  <2>3. file = spec \/ GuardAccepts(spec, file)
    BY DEF AgentInv, GuardInv, LastGoodAccepted, FileIsLastGood
  <2>4. OnlyBodiesDiffer(spec, spec)
    BY DEF Protectable, OnlyBodiesDiffer
  <2> QED
    BY <2>1, <2>2, <2>3, <2>4, GuardDecides
<1> QED
  BY <1>1, AgentInvariance, PTL
=============================================================================
