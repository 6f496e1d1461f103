---------------------------- MODULE CampaignView ----------------------------
(***************************************************************************)
(* The campaign materialisers, tools/migrate_*_campaign.py: a frozen       *)
(* external release, checked against a committed descriptor, becomes a     *)
(* directory of Harbor tasks, the view, that is built beside its place and *)
(* renamed into it.  Several materialisers may run at once; the release,   *)
(* the canonical dataset the Vericoding view links to, and the descriptor  *)
(* may be edited while they do, and tools/dataset.py may be rewriting that *)
(* dataset in place.                                                       *)
(*                                                                         *)
(* What a file says is one of Contents.  A task has a spec and the copy of *)
(* it the grader compares with (mirror); for VeriSoft they stand for       *)
(* entry.json and attestation.json, for Vero for the digest in test.sh.    *)
(***************************************************************************)
CONSTANTS Tasks,      \* the campaign's tasks
          Overlays,   \* those whose Vericoding statement is replaced
          Builders,   \* processes that materialise the view
          Setups      \* the situations to look at

Kinds == {"putnam", "vericoding", "verisoft", "vero"}
Contents == {"frozen", "overlay", "edited", "half", "none"}
Parts == {"pinned", "entries", "labels"}     \* of a descriptor
Origins == {"none", "bad", "good"}           \* a configured source path

SetupType(s) ==
  /\ s.kind \in Kinds /\ s.force \in BOOLEAN /\ s.existing \in BOOLEAN
  /\ s.committed \in {"absent", "half", "whole"} /\ s.edited \subseteq Parts
  /\ s.builders \subseteq Builders /\ s.capture \subseteq s.builders
  /\ s.kind = "putnam" => s.capture = {}
  /\ s.explicit \in Origins /\ s.environment \in Origins /\ s.local \in Origins
  /\ s.edits \subseteq {"source", "spec", "mirror"} /\ s.refresh \in BOOLEAN
  /\ s.faulty \in BOOLEAN /\ s.crashes \in BOOLEAN

ASSUME CampaignAssumption ==
  Overlays \subseteq Tasks /\ \A s \in Setups : SetupType(s)

VARIABLES
  setup,
  descriptor,   \* [state, edited]: the committed JSON file
  source,       \* task -> what the external release says of it
  canonical,    \* task -> [spec, mirror] in the dataset Vericoding links to
  view,         \* the published directory, [exists, by, tasks, manifest]
  builder,      \* builder -> [step, read, over, temp]
  refresher     \* [step, left, at, text] of dataset.py refresh

viewVars == <<setup, descriptor, source, canonical, view, builder, refresher>>
-----------------------------------------------------------------------------
(***************************************************************************)
(* Directories.                                                            *)
(***************************************************************************)
NoEntry == [is |-> "absent", spec |-> "none", mirror |-> "none"]
Copy(text, mirror) == [is |-> "copy", spec |-> text, mirror |-> mirror]
Link == [is |-> "link", spec |-> "none", mirror |-> "none"]

NoManifest == [t \in Tasks |-> "none"]
Empty == [tasks |-> [t \in Tasks |-> NoEntry], manifest |-> NoManifest]

\* What a task directory says, a link being followed.
SpecOf(e, t) == IF e.is = "link" THEN canonical[t].spec ELSE e.spec

\* What the frozen campaign says of a task.
Described(t) ==
  IF setup.kind = "vericoding" /\ t \in Overlays THEN "overlay" ELSE "frozen"

DescribedManifest ==
  IF setup.kind = "vero" THEN NoManifest ELSE [t \in Tasks |-> Described(t)]
-----------------------------------------------------------------------------
(***************************************************************************)
(* benchmark_paths.py: the command line before the environment before the  *)
(* local file; a bad path is an error, not a reason to look further.       *)
(***************************************************************************)
ResolveSource ==
  IF setup.explicit # "none" THEN setup.explicit
  ELSE IF setup.environment # "none" THEN setup.environment
  ELSE setup.local

(***************************************************************************)
(* verify_descriptor.  Constants of the program pin the counts, the names, *)
(* the ordered identifiers and the sibling files ("pinned"); for Putnam    *)
(* and Vericoding also the digests of the tasks ("entries").  What is left *)
(* ("labels", for the others the digests too) is only checked for form.    *)
(***************************************************************************)
VerifyPutnam == descriptor.edited \subseteq {"labels"}

VerifyVericoding ==
  /\ descriptor.edited \subseteq {"labels"}
  /\ \A t \in Tasks : canonical[t] = [spec |-> "frozen", mirror |-> "frozen"]

VerifyVerisoft == descriptor.edited \subseteq {"entries", "labels"}
VerifyVero == descriptor.edited \subseteq {"entries", "labels"}

\* A descriptor that was cut off is not JSON.
Verifies ==
  /\ descriptor.state = "whole"
  /\ CASE setup.kind = "putnam" -> VerifyPutnam
       [] setup.kind = "vericoding" -> VerifyVericoding
       [] setup.kind = "verisoft" -> VerifyVerisoft
       [] setup.kind = "vero" -> VerifyVero

(***************************************************************************)
(* The audit of the release against the same constants.                    *)
(***************************************************************************)
Frozen == \A t \in Tasks : source[t] = "frozen"

\* _source_records, _validate_v2: the rewritten sources stay in memory.
AuditPutnam == Frozen

\* dataset.py manifest_issues: the manifest of the canonical dataset.
ManifestIssues == {t \in Tasks : canonical[t].spec # "frozen"}

\* _validate_v2_inputs, _preflight.
AuditVericoding ==
  /\ Frozen
  /\ ManifestIssues = {}
  /\ \A t \in Overlays : canonical[t].mirror = canonical[t].spec

AuditVerisoft == Frozen
AuditVero == Frozen

Audited == CASE setup.kind = "putnam" -> AuditPutnam
             [] setup.kind = "vericoding" -> AuditVericoding
             [] setup.kind = "verisoft" -> AuditVerisoft
             [] setup.kind = "vero" -> AuditVero

\* The descriptor that was read is the one the audited release gives:
\* _validate_records_against_descriptor, the comparison of the rows, and
\* build_descriptor(...) = descriptor.
MatchesRelease(b) == builder[b].read = {}
-----------------------------------------------------------------------------
(***************************************************************************)
(* read: the edited parts of the descriptor in memory; over: who made the  *)
(* view that --force is removing; temp: the hidden directory beside it.    *)
(***************************************************************************)
Idle(b) == [step |-> IF b \in setup.capture THEN "capture"
                     ELSE IF b \in setup.builders THEN "start" ELSE "off",
            read |-> {}, over |-> "nothing", temp |-> Empty]

Present == [tasks |-> [t \in Tasks |->
                         IF setup.kind = "vericoding" /\ t \notin Overlays
                         THEN Link ELSE Copy(Described(t), Described(t))],
            manifest |-> DescribedManifest]

Place(directory, by) ==
  [exists |-> TRUE, by |-> by,
   tasks |-> directory.tasks, manifest |-> directory.manifest]
Nowhere == [exists |-> FALSE, by |-> "nothing",
            tasks |-> Empty.tasks, manifest |-> NoManifest]

InitView ==
  /\ setup \in Setups
  /\ descriptor = [state |-> setup.committed, edited |-> setup.edited]
  /\ source = [t \in Tasks |-> "frozen"]
  /\ canonical = [t \in Tasks |-> [spec |-> "frozen", mirror |-> "frozen"]]
  /\ view = IF setup.existing THEN Place(Present, "earlier") ELSE Nowhere
  /\ builder = [b \in Builders |-> Idle(b)]
  /\ refresher = [step |-> IF setup.refresh THEN "ready" ELSE "off",
                  left |-> Tasks, at |-> {}, text |-> "none"]

At(b, step) == builder[b].step = step
Go(b, step) == builder' = [builder EXCEPT ![b].step = step]

\* An exception: finally removes the temporary directory.
Fail(b) == builder' = [builder EXCEPT ![b].step = "failed", ![b].temp = Empty]
-----------------------------------------------------------------------------
(***************************************************************************)
(* Capture: apply_migration, cmd_capture and capture audit the release,    *)
(* write the descriptor in place and verify it.  Vero's refuses to write   *)
(* over one; Putnam's is only committed.                                   *)
(***************************************************************************)
CaptureAudit(b) ==
  /\ At(b, "capture")
  /\ IF /\ ResolveSource = "good" /\ Audited
        /\ setup.kind = "vero" => descriptor.state = "absent"
       THEN Go(b, "capturing") ELSE Fail(b)
  /\ UNCHANGED <<setup, descriptor, source, canonical, view, refresher>>

CaptureOpen(b) ==
  /\ At(b, "capturing")
  /\ descriptor' = [state |-> "half", edited |-> {}]
  /\ Go(b, "describing")
  /\ UNCHANGED <<setup, source, canonical, view, refresher>>

\* Vericoding's digests are computed from files that are read again.
CaptureClose(b) ==
  /\ At(b, "describing")
  /\ descriptor' =
       [state |-> "whole",
        edited |-> IF /\ setup.kind = "vericoding"
                      /\ \E t \in Overlays : source[t] # "frozen"
                     THEN {"entries"} ELSE {}]
  /\ Go(b, "captured")
  /\ UNCHANGED <<setup, source, canonical, view, refresher>>

\* What does not pass stays where it is.
CaptureVerify(b) ==
  /\ At(b, "captured")
  /\ IF Verifies THEN Go(b, "start") ELSE Fail(b)
  /\ UNCHANGED <<setup, descriptor, source, canonical, view, refresher>>
-----------------------------------------------------------------------------
(***************************************************************************)
(* Materialisation.                                                        *)
(***************************************************************************)
VerifyDescriptor(b) ==
  /\ At(b, "start")
  /\ IF ResolveSource = "good" /\ Verifies
       THEN builder' = [builder EXCEPT ![b].step = "verified",
                                       ![b].read = descriptor.edited]
       ELSE Fail(b)
  /\ UNCHANGED <<setup, descriptor, source, canonical, view, refresher>>

Overwrites == setup.kind = "verisoft" /\ setup.force

\* Mutant: the descriptor is not compared with the audited release.
AuditUncompared(b) ==
  /\ At(b, "verified")
  /\ IF Audited /\ (~view.exists \/ Overwrites)
       THEN Go(b, "writing") ELSE Fail(b)
  /\ UNCHANGED <<setup, descriptor, source, canonical, view, refresher>>

\* The audit, the comparison, the look at the output, and mkdtemp.
Audit(b) ==
  /\ At(b, "verified")
  /\ IF Audited /\ MatchesRelease(b) /\ (~view.exists \/ Overwrites)
       THEN Go(b, "writing") ELSE Fail(b)
  /\ UNCHANGED <<setup, descriptor, source, canonical, view, refresher>>

(***************************************************************************)
(* The entry of a task.  Putnam and VeriSoft write what the audit kept in  *)
(* memory, VeriSoft and Vero what the descriptor says of the task.         *)
(***************************************************************************)
FromDescriptor(b) == IF "entries" \in builder[b].read THEN "edited" ELSE "frozen"

PutnamEntry == Copy("frozen", "frozen")
VerisoftEntry(b) == Copy("frozen", FromDescriptor(b))
VeroEntry(b) == Copy(FromDescriptor(b), FromDescriptor(b))
VericodingEntry(t) == IF t \in Overlays THEN Copy("overlay", "overlay") ELSE Link

NewEntry(b, t) == CASE setup.kind = "putnam" -> PutnamEntry
                    [] setup.kind = "vericoding" -> VericodingEntry(t)
                    [] setup.kind = "verisoft" -> VerisoftEntry(b)
                    [] setup.kind = "vero" -> VeroEntry(b)

\* Vericoding reads an overlay again and compares its digest.
OverlayChanged(t) ==
  setup.kind = "vericoding" /\ t \in Overlays /\ source[t] # "frozen"

WriteTask(b, t) ==
  /\ At(b, "writing") /\ builder[b].temp.tasks[t].is = "absent"
  /\ IF OverlayChanged(t) THEN Fail(b)
     ELSE builder' = [builder EXCEPT ![b].temp.tasks[t] = NewEntry(b, t)]
  /\ UNCHANGED <<setup, descriptor, source, canonical, view, refresher>>

\* dataset.py build_manifest: the digests of the specs on disk.  VeriSoft
\* writes those of its records, Vero has no manifest.json.
BuildManifest(b) ==
  IF setup.kind = "vero" THEN NoManifest
  ELSE [t \in Tasks |-> SpecOf(builder[b].temp.tasks[t], t)]

WriteManifest(b) ==
  /\ At(b, "writing") /\ \A t \in Tasks : builder[b].temp.tasks[t].is # "absent"
  /\ builder' = [builder EXCEPT ![b].temp.manifest = BuildManifest(b),
                                ![b].step = "listed"]
  /\ UNCHANGED <<setup, descriptor, source, canonical, view, refresher>>

\* verify_materialized_dataset, and Vericoding's digest of the whole view.
ViewChecked(b) ==
  CASE setup.kind = "putnam" ->
         \A t \in Tasks : LET e == builder[b].temp.tasks[t] IN
           e.spec = "frozen" /\ e.mirror = e.spec
    [] setup.kind = "vericoding" -> builder[b].temp.manifest = DescribedManifest
    [] OTHER -> TRUE

CheckView(b) ==
  /\ At(b, "listed")
  /\ IF ViewChecked(b)
       THEN builder' = [builder EXCEPT
              ![b].step = IF view.exists /\ Overwrites THEN "removing"
                                                       ELSE "renaming",
              ![b].over = view.by]
       ELSE Fail(b)
  /\ UNCHANGED <<setup, descriptor, source, canonical, view, refresher>>
-----------------------------------------------------------------------------
Occupied(v) == v.manifest # NoManifest \/ \E t \in Tasks : v.tasks[t].is # "absent"

(***************************************************************************)
(* shutil.rmtree(args.out) takes the entries away one at a time, then the  *)
(* directory; it fails if somebody else has removed or replaced it.        *)
(***************************************************************************)
Removable(b) ==
  /\ At(b, "removing")
  /\ view.exists /\ view.by = builder[b].over

RemoveEntry(b) ==
  /\ Removable(b) /\ Occupied(view)
  /\ \/ \E t \in Tasks : /\ view.tasks[t].is # "absent"
                         /\ view' = [view EXCEPT !.tasks[t] = NoEntry]
     \/ /\ view.manifest # NoManifest
        /\ view' = [view EXCEPT !.manifest = NoManifest]
  /\ UNCHANGED <<setup, descriptor, source, canonical, builder, refresher>>

RemoveDirectory(b) ==
  /\ Removable(b) /\ ~Occupied(view)
  /\ view' = Nowhere
  /\ Go(b, "renaming")
  /\ UNCHANGED <<setup, descriptor, source, canonical, refresher>>

RemoveFails(b) ==
  /\ At(b, "removing") /\ ~Removable(b)
  /\ Fail(b)
  /\ UNCHANGED <<setup, descriptor, source, canonical, view, refresher>>

\* A directory cannot be renamed onto one that is not empty.
Rename(b) ==
  /\ At(b, "renaming")
  /\ IF view.exists /\ Occupied(view) THEN Fail(b) /\ UNCHANGED view
     ELSE /\ view' = Place(builder[b].temp, b)
          /\ builder' = [builder EXCEPT ![b].step = "done", ![b].temp = Empty]
  /\ UNCHANGED <<setup, descriptor, source, canonical, refresher>>

Building == {"writing", "listed", "removing", "renaming"}
Active == Building \cup {"capture", "capturing", "describing", "captured",
                        "start", "verified"}

\* A full disk, a lost mount.
DiskError(b) ==
  /\ setup.faulty /\ builder[b].step \in Building
  /\ Fail(b)
  /\ UNCHANGED <<setup, descriptor, source, canonical, view, refresher>>

\* A kill: the temporary directory stays, under its hidden name.
Crash(b) ==
  /\ setup.crashes /\ builder[b].step \in Active
  /\ Go(b, "dead")
  /\ UNCHANGED <<setup, descriptor, source, canonical, view, refresher>>
-----------------------------------------------------------------------------
(***************************************************************************)
(* dataset.py refresh: a task is written again, from its own spec.         *)
(***************************************************************************)
RefreshRead(t) ==
  /\ refresher.step = "ready" /\ t \in refresher.left
  /\ refresher' = [step |-> "read", left |-> refresher.left \ {t}, at |-> {t},
                   text |-> canonical[t].spec]
  /\ UNCHANGED <<setup, descriptor, source, canonical, view, builder>>

\* Path.write_text of the spec empties the file, then fills it; then the
\* mirror is written.
RefreshWrites(t) ==
  /\ t \in refresher.at
  /\ \/ /\ refresher.step = "read"
        /\ canonical' = [canonical EXCEPT ![t].spec = "half"]
        /\ refresher' = [refresher EXCEPT !.step = "emptied"]
     \/ /\ refresher.step = "emptied"
        /\ canonical' = [canonical EXCEPT ![t].spec = refresher.text]
        /\ refresher' = [refresher EXCEPT !.step = "filled"]
     \/ /\ refresher.step = "filled"
        /\ canonical' = [canonical EXCEPT ![t].mirror = refresher.text]
        /\ refresher' = [refresher EXCEPT !.step = "ready", !.at = {},
                                          !.text = "none"]
  /\ UNCHANGED <<setup, descriptor, source, view, builder>>

RefreshDies ==
  /\ setup.crashes /\ refresher.step \in {"read", "emptied", "filled"}
  /\ refresher' = [refresher EXCEPT !.step = "dead", !.at = {}]
  /\ UNCHANGED <<setup, descriptor, source, canonical, view, builder>>

(***************************************************************************)
(* Somebody edits a file, or takes the edit back.                          *)
(***************************************************************************)
Toggled(text) == IF text = "frozen" THEN "edited" ELSE "frozen"

Edit(t) ==
  /\ \/ /\ "source" \in setup.edits
        /\ source' = [source EXCEPT ![t] = Toggled(@)]
        /\ UNCHANGED canonical
     \/ /\ "spec" \in setup.edits
        /\ canonical' = [canonical EXCEPT ![t].spec = Toggled(@)]
        /\ UNCHANGED source
     \/ /\ "mirror" \in setup.edits
        /\ canonical' = [canonical EXCEPT ![t].mirror = Toggled(@)]
        /\ UNCHANGED source
  /\ UNCHANGED <<setup, descriptor, view, builder, refresher>>

NextView ==
  \/ \E b \in Builders :
       \/ CaptureAudit(b) \/ CaptureOpen(b) \/ CaptureClose(b) \/ CaptureVerify(b)
       \/ VerifyDescriptor(b) \/ Audit(b) \/ WriteManifest(b) \/ CheckView(b)
       \/ RemoveEntry(b) \/ RemoveDirectory(b) \/ RemoveFails(b) \/ Rename(b)
       \/ DiskError(b) \/ Crash(b)
       \/ \E t \in Tasks : WriteTask(b, t)
  \/ \E t \in Tasks : RefreshRead(t) \/ RefreshWrites(t) \/ Edit(t)
  \/ RefreshDies

SpecView == InitView /\ [][NextView]_viewVars
-----------------------------------------------------------------------------
\* The entry is the frozen one, or a link to the canonical task.
WholeEntry(t) ==
  \/ view.tasks[t] = Copy(Described(t), Described(t))
  \/ setup.kind = "vericoding" /\ t \notin Overlays /\ view.tasks[t] = Link

\* Whoever finds a view finds every task as the frozen campaign has it, and
\* a manifest that says so: no half-built, edited or mixed directory gets
\* the name of the view, whatever is edited, fails, dies or runs at the same
\* time.  Only VeriSoft's --force exposes a view that is being removed, and
\* leaves one behind if it is stopped there.
PublishedWhole ==
  view.exists =>
    \/ view.manifest = DescribedManifest /\ \A t \in Tasks : WholeEntry(t)
    \/ /\ Overwrites
       /\ \E b \in Builders :
            /\ builder[b].step \in {"removing", "failed", "dead"}
            /\ builder[b].over = view.by
       /\ view.manifest \in {DescribedManifest, NoManifest}
       /\ \A t \in Tasks : WholeEntry(t) \/ view.tasks[t] = NoEntry
=============================================================================
