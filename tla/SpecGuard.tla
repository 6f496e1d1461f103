----------------------------- MODULE SpecGuard -----------------------------
(***************************************************************************)
(* The check that an edited Lean file still states the benchmark's task:   *)
(* agents/spec_guard.py, which the agent runs after its tool calls, and the*)
(* copy of it in verifier/grade.py, which decides about the reward.        *)
(*                                                                         *)
(* A file is a sequence of lines.  A line is the start or the end marker of*)
(* a section, a text, a blank, or a text that mentions the start marker    *)
(* without being one (the regular expressions want it at the beginning of  *)
(* the line).  The field name is a section's name or what a text says;     *)
(* space tells apart lines that only differ in inert white space.          *)
(***************************************************************************)
EXTENDS Integers, Sequences

\* EDITABLE_BENCHMARK_SECTIONS.
Editable == {"solution_aux", "code_aux", "code", "proof_aux", "proof"}

Outside == "outside"     \* current_section is None

Lines == [kind : {"start", "end", "text", "blank", "mention"},
          name : STRING \ {Outside}, space : Nat]
-----------------------------------------------------------------------------
(***************************************************************************)
(* The algorithm.                                                          *)
(***************************************************************************)

\* Mutant: bodies are skipped before the line is looked at for a marker.
ScanLineSkipFirst(scan, line) ==
  LET keep(lines) == [scan EXCEPT !.kept = @ \o lines]
  IN IF scan.malformed \/ scan.section \in Editable THEN scan
     ELSE CASE line.kind = "start" /\ scan.section = Outside ->
                 [keep(<<line>>) EXCEPT !.section = line.name]
            [] line.kind = "end" /\ scan.section = line.name ->
                 [keep(<<line>>) EXCEPT !.section = Outside]
            [] OTHER -> keep(<<line>>)

\* One turn of the loop of _readonly_projection.  Every branch with a
\* return ends the scan: malformed is then never reset.
ScanLine(scan, line) ==
  LET keep(lines) == [scan EXCEPT !.kept = @ \o lines]
      error == [scan EXCEPT !.malformed = TRUE]
      sentinel == [line EXCEPT !.kind = "sentinel"]
  IN IF scan.malformed THEN scan
     ELSE CASE line.kind = "start" /\ scan.section # Outside -> error
            [] line.kind = "start" /\ scan.section = Outside ->
                 [keep(IF line.name \in Editable THEN <<line, sentinel>>
                                                 ELSE <<line>>)
                    EXCEPT !.section = line.name]
            [] line.kind = "end" /\ scan.section # line.name -> error
            [] line.kind = "end" /\ scan.section = line.name ->
                 [keep(<<line>>) EXCEPT !.section = Outside]
            [] OTHER -> IF scan.section \in Editable THEN scan ELSE keep(<<line>>)

\* The state of the loop after i lines.
Scan(file) ==
  LET scan[i \in 0..Len(file)] ==
        IF i = 0 THEN [kept |-> <<>>, section |-> Outside, malformed |-> FALSE]
                 ELSE ScanLine(scan[i - 1], file[i])
  IN scan

\* _readonly_projection: the lines that may not change, and whether the
\* markers are nested, mismatched or dangling.
ReadonlyProjection(file) ==
  LET end == Scan(file)[Len(file)]
  IN [kept |-> end.kept, malformed |-> end.malformed \/ end.section # Outside]

\* Those of the first i lines that stay, without their inert white space.
Squeeze(lines, staying) ==
  LET squeezed[i \in 0..Len(lines)] ==
        IF i = 0 THEN <<>>
        ELSE IF i \in staying
             THEN Append(squeezed[i - 1], [lines[i] EXCEPT !.space = 0])
             ELSE squeezed[i - 1]
  IN squeezed

Written(lines) == {i \in DOMAIN lines : lines[i].kind # "blank"}

\* _ws_normalize.
WsNormalize(lines) == Squeeze(lines, Written(lines))[Len(lines)]

\* The substring test of check_spec_intact, which a mere mention satisfies.
HasMarkers(file) == \E i \in DOMAIN file : file[i].kind \in {"start", "mention"}

Malformed(file) == ReadonlyProjection(file).malformed

\* The rest of check_spec_intact, once both files have markers.  Equal bytes
\* have equal normal forms, so the second comparison decides.
SameReadOnlyText(original, final) ==
  /\ ~Malformed(final)
  /\ WsNormalize(ReadonlyProjection(original).kept)
       = WsNormalize(ReadonlyProjection(final).kept)

\* check_spec_intact of agents/spec_guard.py: a malformed original passes.
GuardAccepts(original, final) ==
  \/ ~HasMarkers(original) /\ ~HasMarkers(final)
  \/ /\ HasMarkers(original) /\ HasMarkers(final)
     /\ Malformed(original) \/ SameReadOnlyText(original, final)

\* check_spec_intact of verifier/grade.py: a malformed original fails.
VerifierAccepts(original, final) ==
  \/ ~HasMarkers(original) /\ ~HasMarkers(final)
  \/ /\ HasMarkers(original) /\ HasMarkers(final)
     /\ ~Malformed(original) /\ SameReadOnlyText(original, final)
-----------------------------------------------------------------------------
(***************************************************************************)
(* What it must decide, without an automaton: the markers come in pairs,   *)
(* and the two files are the same text but for white space and the lines   *)
(* between the markers of an editable section.                             *)
(***************************************************************************)
Marker(line) == line.kind \in {"start", "end"}

\* A section: its two markers, with no other between them.
Section(file, b, e) ==
  /\ file[b].kind = "start" /\ file[e].kind = "end" /\ file[b].name = file[e].name
  /\ \A k \in (b + 1)..(e - 1) : ~Marker(file[k])

Paired(file) ==
  \A i \in DOMAIN file :
    /\ file[i].kind = "start" => \E e \in (i + 1)..Len(file) : Section(file, i, e)
    /\ file[i].kind = "end" => \E b \in 1..(i - 1) : Section(file, b, i)

InEditableBody(file, i) ==
  \E b \in 1..(i - 1), e \in (i + 1)..Len(file) :
     Section(file, b, e) /\ file[b].name \in Editable

\* The written lines that have to stay, in order.
Outline(file) ==
  Squeeze(file, {i \in Written(file) : ~InEditableBody(file, i)})[Len(file)]

OnlyBodiesDiffer(original, final) ==
  /\ HasMarkers(original) <=> HasMarkers(final)
  /\ HasMarkers(original) => /\ Paired(final)
                             /\ Outline(original) = Outline(final)

\* An original the guard can protect: unmarked, or with its markers in pairs.
Protectable(original) == ~HasMarkers(original) \/ Paired(original)
=============================================================================
