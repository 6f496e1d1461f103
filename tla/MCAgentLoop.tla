---------------------------- MODULE MCAgentLoop ----------------------------
(***************************************************************************)
(* Files and configurations for the runs of AgentLoop.                     *)
(***************************************************************************)
EXTENDS AgentLoop, TLC

Line(kind, name, space) == [kind |-> kind, name |-> name, space |-> space]
Start(name) == Line("start", name, 0)
End(name) == Line("end", name, 0)
Text(name) == Line("text", name, 0)
Spaced(line) == [line EXCEPT !.space = 1]
Blank == Line("blank", "", 0)
Mention == Line("mention", "m", 0)

\* A theorem with its proof in an editable section, a text without markers,
\* and an original whose section is never closed.
Task == <<Text("thm"), Start("proof"), Text("sorry"), End("proof")>>
Plain == <<Text("thm")>>
Unclosed == <<Text("thm"), Start("proof"), Text("sorry")>>
ThreeSpecs == {Task, Plain, Unclosed}

\* Two edits that keep the specification, and six that do not: a read-only
\* line changed, text out of its section, nested, crossed and missing markers,
\* and no marker but a mention.
ManyEdits ==
  {<<Text("thm"), Start("proof"), Mention, Blank, End("proof")>>,
   <<Spaced(Text("thm")), Blank, Spaced(Start("proof")), End("proof")>>,
   <<Text("false"), Start("proof"), Text("sorry"), End("proof")>>,
   <<Text("thm"), Start("proof"), End("proof"), Text("qed")>>,
   <<Text("thm"), Start("proof"), Start("code"), End("code"), End("proof")>>,
   <<Text("thm"), Start("proof"), Text("sorry"), End("code")>>,
   Unclosed,
   <<Text("thm"), Mention>>}

\* For the losing of one edit these do.
TwoEdits ==
  {<<Text("thm"), Start("proof"), Text("qed"), End("proof")>>,
   <<Text("false"), Start("proof"), Text("qed"), End("proof")>>}
OneSpec == {Task}

\* The defaults; a native endpoint; and the Miles path, which must not
\* compact and ends a trajectory at a cut-off turn.
Default == [stopOnLength |-> FALSE, nativeTools |-> FALSE, compaction |-> TRUE]
AllAgents ==
  {Default,
   [Default EXCEPT !.nativeTools = TRUE],
   [Default EXCEPT !.stopOnLength = TRUE, !.compaction = FALSE]}
=============================================================================
