-------------------------- MODULE CampaignViewProofs --------------------------
(***************************************************************************)
(* A proof that the directory which gets the name of the view is whole, for*)
(* any campaign, any number of materialisers and any situation.            *)
(*                                                                         *)
(* PublishedWhole is not inductive: what a rename publishes was written    *)
(* many steps earlier.  BuiltWhole says what each step of a materialiser   *)
(* has established of the directory it is building.                        *)
(***************************************************************************)
EXTENDS CampaignView, TLAPS

Entry == [is : {"absent", "copy", "link"}, spec : Contents, mirror : Contents]

Steps == {"off", "capture", "capturing", "describing", "captured", "start",
          "verified", "writing", "listed", "removing", "renaming", "done",
          "failed", "dead"}

Directory == [tasks : [Tasks -> Entry], manifest : [Tasks -> Contents]]

Makers == Builders \cup {"nothing", "earlier"}

Local == [step : Steps, read : SUBSET Parts, over : Makers, temp : Directory]

ViewTypeOK ==
  /\ setup \in Setups
  /\ descriptor \in [state : {"absent", "half", "whole"}, edited : SUBSET Parts]
  /\ source \in [Tasks -> Contents]
  /\ canonical \in [Tasks -> [spec : Contents, mirror : Contents]]
  /\ view \in [exists : BOOLEAN, by : Makers,
               tasks : [Tasks -> Entry], manifest : [Tasks -> Contents]]
  /\ builder \in [Builders -> Local]
  /\ refresher \in [step : {"off", "ready", "read", "emptied", "filled", "dead"},
                    left : SUBSET Tasks, at : SUBSET Tasks, text : Contents]

\* An entry of a directory that is being built.
Whole(e, t) ==
  \/ e = Copy(Described(t), Described(t))
  \/ setup.kind = "vericoding" /\ t \notin Overlays /\ e = Link

\* Before an entry is written there is none; while the entries are written
\* each is missing or whole; once they are listed all are whole; once the
\* directory is checked so is the manifest.
Built(l) ==
  /\ l.step \in Active \ Building => l.temp = Empty
  /\ l.step \in Building => l.read = {}
  /\ l.step = "writing" =>
       /\ l.temp.manifest = NoManifest
       /\ \A t \in Tasks : l.temp.tasks[t] = NoEntry \/ Whole(l.temp.tasks[t], t)
  /\ l.step \in Building \ {"writing"} =>
       \A t \in Tasks : Whole(l.temp.tasks[t], t)
  /\ l.step = "listed" /\ setup.kind # "vericoding" =>
       l.temp.manifest = DescribedManifest
  /\ l.step \in {"removing", "renaming"} => l.temp.manifest = DescribedManifest
  /\ l.step = "removing" => Overwrites

BuiltWhole == \A b \in Builders : Built(builder[b])

\* The inductive invariant.
ViewInv == ViewTypeOK /\ BuiltWhole /\ PublishedWhole
-----------------------------------------------------------------------------
\* The values directories are made of.
LEMMA Values ==
  /\ NoEntry \in Entry /\ Link \in Entry
  /\ \A x, y \in Contents : Copy(x, y) \in Entry
  /\ NoManifest \in [Tasks -> Contents]
  /\ Empty \in Directory
BY DEF NoEntry, Link, Copy, Entry, Contents, NoManifest, Empty, Directory

\* What one task or the manifest becomes in a directory.
LEMMA DirectoryUpdates ==
  ASSUME NEW d \in Directory
  PROVE  /\ \A t \in Tasks, e \in Entry : [d EXCEPT !.tasks[t] = e] \in Directory
         /\ \A m \in [Tasks -> Contents] : [d EXCEPT !.manifest = m] \in Directory
BY DEF Directory

\* The changes of a materialiser's local state.
LEMMA LocalUpdates ==
  ASSUME NEW l \in Local
  PROVE  /\ \A s \in Steps : [l EXCEPT !.step = s] \in Local
         /\ \A s \in Steps, r \in SUBSET Parts :
              [l EXCEPT !.step = s, !.read = r] \in Local
         /\ \A s \in Steps, m \in Makers :
              [l EXCEPT !.step = s, !.over = m] \in Local
         /\ \A s \in Steps, d \in Directory :
              [l EXCEPT !.step = s, !.temp = d] \in Local
         /\ \A d \in Directory : [l EXCEPT !.temp = d] \in Local
BY DEF Local

\* A materialiser that goes on, or fails, keeps its type.
LEMMA LocalSteps ==
  ASSUME builder \in [Builders -> Local], NEW b \in Builders
  PROVE  /\ \A s \in Steps : Go(b, s) => builder' \in [Builders -> Local]
         /\ Fail(b) => builder' \in [Builders -> Local]
<1>1. \A s \in Steps : Go(b, s) =>
        builder' = [builder EXCEPT ![b] = [builder[b] EXCEPT !.step = s]]
  BY DEF Go
<1>2. Fail(b) => builder' = [builder EXCEPT
                   ![b] = [builder[b] EXCEPT !.step = "failed", !.temp = Empty]]
  BY DEF Fail
<1>3. [builder[b] EXCEPT !.step = "failed", !.temp = Empty] \in Local
  BY Values, LocalUpdates DEF Steps
<1>4. \A s \in Steps : [builder[b] EXCEPT !.step = s] \in Local
  BY LocalUpdates
<1> QED
  BY <1>1, <1>2, <1>3, <1>4

\* Types: every step of the materialisers, of dataset.py refresh and of those
\* who edit files keeps them.
LEMMA ViewTypeStep == ViewTypeOK /\ [NextView]_viewVars => ViewTypeOK'
<1> SUFFICES ASSUME ViewTypeOK, [NextView]_viewVars PROVE ViewTypeOK'
  OBVIOUS
<1> USE DEF ViewTypeOK
<1>1. setup.kind \in Kinds
  BY CampaignAssumption DEF SetupType
<1>2. \A b \in Builders : builder[b] \in Local /\ builder[b].temp \in Directory
  BY DEF Local
<1>3. ASSUME NEW b \in Builders,
             CaptureAudit(b) \/ CaptureOpen(b) \/ CaptureClose(b)
               \/ CaptureVerify(b) \/ VerifyDescriptor(b) \/ Audit(b)
      PROVE  ViewTypeOK'
  <2>1. CASE CaptureAudit(b)
    BY <2>1, LocalSteps DEF CaptureAudit, Steps
  <2>2. CASE CaptureOpen(b)
    BY <2>2, LocalSteps DEF CaptureOpen, Steps
  <2>3. CASE CaptureClose(b)
    BY <2>3, LocalSteps DEF CaptureClose, Steps, Parts
  <2>4. CASE CaptureVerify(b)
    BY <2>4, LocalSteps DEF CaptureVerify, Steps
  <2>5. CASE VerifyDescriptor(b)
    <3> DEFINE next == [builder[b] EXCEPT !.step = "verified",
                                          !.read = descriptor.edited]
    <3>1. next \in Local
      BY LocalUpdates DEF Steps
    <3>2. \/ builder' = [builder EXCEPT ![b] = next]
          \/ Fail(b)
      BY <2>5 DEF VerifyDescriptor
    <3> QED
      BY <2>5, <3>1, <3>2, LocalSteps DEF VerifyDescriptor
  <2>6. CASE Audit(b)
    BY <2>6, LocalSteps DEF Audit, Steps
  <2> QED
    BY <1>3, <2>1, <2>2, <2>3, <2>4, <2>5, <2>6
<1>4. ASSUME NEW b \in Builders, NEW t \in Tasks, WriteTask(b, t)
      PROVE  ViewTypeOK'
  <2>1. NewEntry(b, t) \in Entry
    BY <1>1, Values DEF NewEntry, PutnamEntry, VerisoftEntry, VeroEntry,
                        VericodingEntry, FromDescriptor, Contents, Kinds
  <2>2. CASE OverlayChanged(t)
    BY <1>4, <2>2, LocalSteps DEF WriteTask
  <2>3. CASE ~OverlayChanged(t)
    <3> DEFINE d == [builder[b].temp EXCEPT !.tasks[t] = NewEntry(b, t)]
    <3>1. builder' = [builder EXCEPT ![b] = [builder[b] EXCEPT !.temp = d]]
      BY <1>4, <2>3 DEF WriteTask
    <3>2. d \in Directory
      BY <2>1, <1>2, DirectoryUpdates
    <3> QED
      BY <1>4, <3>1, <3>2, LocalUpdates DEF WriteTask
  <2> QED
    BY <2>2, <2>3
<1>5. ASSUME NEW b \in Builders, WriteManifest(b)
      PROVE  ViewTypeOK'
  <2>1. BuildManifest(b) \in [Tasks -> Contents]
    <3>1. \A u \in Tasks : builder[b].temp.tasks[u] \in Entry
      BY DEF Local, Directory
    <3>2. \A u \in Tasks : SpecOf(builder[b].temp.tasks[u], u) \in Contents
      BY <3>1 DEF SpecOf, Entry
    <3> QED
      BY <3>2, Values DEF BuildManifest
  <2> DEFINE d == [builder[b].temp EXCEPT !.manifest = BuildManifest(b)]
  <2>2. builder' = [builder EXCEPT
                      ![b] = [builder[b] EXCEPT !.step = "listed", !.temp = d]]
    BY <1>5 DEF WriteManifest
  <2>3. d \in Directory
    BY <2>1, <1>2, DirectoryUpdates
  <2>4. [builder[b] EXCEPT !.step = "listed", !.temp = d] \in Local
    BY <2>3, LocalUpdates DEF Steps
  <2> QED
    BY <1>5, <2>2, <2>4 DEF WriteManifest
<1>6. ASSUME NEW b \in Builders,
             CheckView(b) \/ RemoveEntry(b) \/ RemoveDirectory(b)
               \/ RemoveFails(b) \/ Rename(b) \/ DiskError(b) \/ Crash(b)
      PROVE  ViewTypeOK'
  <2>1. CASE CheckView(b)
    <3>1. CASE ViewChecked(b)
      <4> DEFINE next == IF view.exists /\ Overwrites THEN "removing"
                                                     ELSE "renaming"
      <4>1. builder' = [builder EXCEPT
              ![b] = [builder[b] EXCEPT !.step = next, !.over = view.by]]
        BY <2>1, <3>1 DEF CheckView
      <4>2. [builder[b] EXCEPT !.step = next, !.over = view.by] \in Local
        BY LocalUpdates DEF Steps
      <4> QED
        BY <2>1, <4>1, <4>2 DEF CheckView
    <3>2. CASE ~ViewChecked(b)
      BY <2>1, <3>2, LocalSteps DEF CheckView
    <3> QED
      BY <3>1, <3>2
  <2>2. CASE RemoveEntry(b)
    <3>1. ASSUME NEW t \in Tasks, view' = [view EXCEPT !.tasks[t] = NoEntry]
          PROVE  ViewTypeOK'
      <4>1. [view.tasks EXCEPT ![t] = NoEntry] \in [Tasks -> Entry]
        BY Values
      <4>2. view' = [view EXCEPT !.tasks = [view.tasks EXCEPT ![t] = NoEntry]]
        BY <3>1
      <4> QED
        BY <2>2, <4>1, <4>2 DEF RemoveEntry
    <3>2. CASE view' = [view EXCEPT !.manifest = NoManifest]
      BY <2>2, <3>2, Values DEF RemoveEntry
    <3> QED
      BY <2>2, <3>1, <3>2 DEF RemoveEntry
  <2>3. CASE RemoveDirectory(b)
    BY <2>3, Values, LocalSteps
       DEF RemoveDirectory, Nowhere, Steps, Makers, Directory
  <2>4. CASE RemoveFails(b)
    BY <2>4, LocalSteps DEF RemoveFails
  <2>5. CASE Rename(b)
    <3>1. CASE view.exists /\ Occupied(view)
      BY <2>5, <3>1, LocalSteps DEF Rename
    <3>2. CASE ~(view.exists /\ Occupied(view))
      <4>1. builder' = [builder EXCEPT
              ![b] = [builder[b] EXCEPT !.step = "done", !.temp = Empty]]
        BY <2>5, <3>2 DEF Rename
      <4>2. [builder[b] EXCEPT !.step = "done", !.temp = Empty] \in Local
        BY Values, LocalUpdates DEF Steps
      <4>3. view' = Place(builder[b].temp, b) /\ builder[b].temp \in Directory
        BY <2>5, <3>2 DEF Rename, Local
      <4> QED
        BY <2>5, <4>1, <4>2, <4>3 DEF Rename, Place, Directory, Makers
    <3> QED
      BY <3>1, <3>2
  <2>6. CASE DiskError(b)
    BY <2>6, LocalSteps DEF DiskError
  <2>7. CASE Crash(b)
    BY <2>7, LocalSteps DEF Crash, Steps
  <2> QED
    BY <1>6, <2>1, <2>2, <2>3, <2>4, <2>5, <2>6, <2>7
<1>7. ASSUME NEW t \in Tasks, RefreshRead(t) \/ RefreshWrites(t) \/ Edit(t)
      PROVE  ViewTypeOK'
  <2>1. CASE RefreshRead(t)
    BY <2>1 DEF RefreshRead
  <2>2. CASE RefreshWrites(t)
    <3>1. canonical' \in [Tasks -> [spec : Contents, mirror : Contents]]
      BY <2>2 DEF RefreshWrites, Contents
    <3> QED
      BY <2>2, <3>1 DEF RefreshWrites, Contents
  <2>3. CASE Edit(t)
    BY <2>3 DEF Edit, Toggled, Contents
  <2> QED
    BY <1>7, <2>1, <2>2, <2>3
<1>8. CASE RefreshDies
  BY <1>8 DEF RefreshDies
<1>9. CASE UNCHANGED viewVars
  BY <1>9 DEF viewVars
<1> QED
  BY <1>3, <1>4, <1>5, <1>6, <1>7, <1>8, <1>9 DEF NextView
-----------------------------------------------------------------------------
\* A link, a missing entry and a written one are told apart, and what is
\* described depends on the campaign only.
LEMMA DescribedStays ==
  ASSUME setup' = setup
  PROVE  /\ DescribedManifest' = DescribedManifest
         /\ Overwrites' = Overwrites
         /\ \A t \in Tasks : /\ Described(t)' = Described(t)
                             /\ \A e : Whole(e, t)' = Whole(e, t)
BY DEF DescribedManifest, Described, Whole, Overwrites

\* A materialiser writes whole entries, from a descriptor that is the frozen
\* one: the audit has compared it with the release.
LEMMA NewEntryWhole ==
  ASSUME ViewTypeOK, NEW b \in Builders, NEW t \in Tasks, builder[b].read = {}
  PROVE  Whole(NewEntry(b, t), t)
<1>1. setup.kind \in Kinds
  BY CampaignAssumption DEF SetupType, ViewTypeOK
<1> QED
  BY <1>1 DEF Whole, NewEntry, PutnamEntry, VericodingEntry, VerisoftEntry,
              VeroEntry, FromDescriptor, Described, Kinds

\* The manifest of a directory without links lists what is described.
LEMMA ManifestWhole ==
  ASSUME NEW b \in Builders, setup.kind # "vericoding",
         \A t \in Tasks : Whole(builder[b].temp.tasks[t], t)
  PROVE  BuildManifest(b) = DescribedManifest
<1>1. ASSUME NEW t \in Tasks
      PROVE  SpecOf(builder[b].temp.tasks[t], t) = Described(t)
  <2>1. builder[b].temp.tasks[t] = Copy(Described(t), Described(t))
    BY DEF Whole
  <2> QED
    BY <2>1 DEF SpecOf, Copy
<1> QED
  BY <1>1 DEF BuildManifest, DescribedManifest
\* The step of one materialiser is about its own directory.
LEMMA BuiltByOne ==
  ASSUME ViewTypeOK, BuiltWhole, setup' = setup, NEW b \in Builders, NEW l,
         builder' = [builder EXCEPT ![b] = l], Built(l)
  PROVE  BuiltWhole'
<1>1. \A c \in Builders : Built(builder'[c])
  BY DEF BuiltWhole, ViewTypeOK
<1>2. ASSUME NEW c \in Builders PROVE Built(builder[c])'
  BY <1>1 DEF Built, Whole, Described, DescribedManifest, Overwrites
<1> QED
  BY <1>2 DEF BuiltWhole

\* What was published stays so as long as nobody touches it, and a --force
\* that was begun is not forgotten.
LEMMA PublishedStays ==
  ASSUME PublishedWhole, setup' = setup, view' = view,
         \A b \in Builders :
           builder[b].step \in {"removing", "failed", "dead"} =>
             /\ builder'[b].step \in {"removing", "failed", "dead"}
             /\ builder'[b].over = builder[b].over
  PROVE  PublishedWhole'
BY DescribedStays DEF PublishedWhole, WholeEntry
-----------------------------------------------------------------------------
\* A materialiser that fails has nothing to answer for, and keeps what it
\* remembers of the view it was removing.
LEMMA FailStep ==
  ASSUME ViewInv, NEW b \in Builders, Fail(b), UNCHANGED <<setup, view>>
  PROVE  BuiltWhole' /\ PublishedWhole'
<1> DEFINE l == [builder[b] EXCEPT !.step = "failed", !.temp = Empty]
<1>1. builder' = [builder EXCEPT ![b] = l]
  BY DEF Fail
<1>2. builder[b] \in Local
  BY DEF ViewInv, ViewTypeOK
<1>3. l \in Local
  BY <1>2, Values, LocalUpdates DEF Steps
<1>4. l.step = "failed" /\ l.over = builder[b].over
  BY <1>2 DEF Local
<1>5. Built(l)
  BY <1>4 DEF Built, Active, Building
<1>6. BuiltWhole'
  BY <1>1, <1>5, BuiltByOne DEF ViewInv
<1>7. PublishedWhole'
  BY <1>1, <1>4, PublishedStays DEF ViewInv, ViewTypeOK
<1> QED
  BY <1>6, <1>7

\* A materialiser that goes on without touching the view.
LEMMA QuietStep ==
  ASSUME ViewInv, NEW b \in Builders, NEW l \in Local, Built(l),
         builder' = [builder EXCEPT ![b] = l], UNCHANGED <<setup, view>>,
         builder[b].step \notin {"removing", "failed", "dead"}
  PROVE  BuiltWhole' /\ PublishedWhole'
<1>1. BuiltWhole'
  BY BuiltByOne DEF ViewInv
<1>2. PublishedWhole'
  BY PublishedStays DEF ViewInv, ViewTypeOK
<1> QED
  BY <1>1, <1>2

\* Until the entries are written nothing is built.
LEMMA EarlyStep ==
  ASSUME ViewInv, NEW b \in Builders, UNCHANGED <<setup, view>>,
         CaptureAudit(b) \/ CaptureOpen(b) \/ CaptureClose(b)
           \/ CaptureVerify(b) \/ VerifyDescriptor(b)
  PROVE  BuiltWhole' /\ PublishedWhole'
<1>1. CASE Fail(b)
  BY <1>1, FailStep
<1>2. ASSUME NEW s \in {"capturing", "describing", "captured", "start"}, Go(b, s),
             builder[b].step \in {"capture", "capturing", "describing", "captured"}
      PROVE  BuiltWhole' /\ PublishedWhole'
  <2> DEFINE l == [builder[b] EXCEPT !.step = s]
  <2>1. builder[b] \in Local /\ Built(builder[b])
    BY DEF ViewInv, ViewTypeOK, BuiltWhole
  <2>2. l \in Local
    BY <2>1, LocalUpdates DEF Steps
  <2>3. l.step = s /\ l.temp = builder[b].temp
    BY <2>1 DEF Local
  <2>4. Built(l)
    BY <1>2, <2>1, <2>3 DEF Built, Active, Building
  <2>5. builder' = [builder EXCEPT ![b] = l]
    BY <1>2 DEF Go
  <2> QED
    BY <1>2, <2>2, <2>4, <2>5, QuietStep
<1>3. CASE VerifyDescriptor(b) /\ ~Fail(b)
  <2> DEFINE l == [builder[b] EXCEPT !.step = "verified", !.read = descriptor.edited]
  <2>1. builder[b] \in Local /\ Built(builder[b]) /\ descriptor.edited \in SUBSET Parts
    BY DEF ViewInv, ViewTypeOK, BuiltWhole
  <2>2. builder' = [builder EXCEPT ![b] = l] /\ builder[b].step = "start"
    BY <1>3 DEF VerifyDescriptor, At
  <2>3. l \in Local
    BY <2>1, LocalUpdates DEF Steps
  <2>4. l.step = "verified" /\ l.temp = builder[b].temp
    BY <2>1 DEF Local
  <2>5. Built(l)
    BY <2>1, <2>2, <2>4 DEF Built, Active, Building
  <2> QED
    BY <2>2, <2>3, <2>5, QuietStep
<1> QED
  BY <1>1, <1>2, <1>3
     DEF CaptureAudit, CaptureOpen, CaptureClose, CaptureVerify, At
\* The audit, the entries one by one, the manifest, and the look at the whole.
LEMMA BuildStep ==
  ASSUME ViewInv, NEW b \in Builders, UNCHANGED <<setup, view>>,
         \/ Audit(b) \/ WriteManifest(b) \/ CheckView(b)
         \/ \E t \in Tasks : WriteTask(b, t)
  PROVE  BuiltWhole' /\ PublishedWhole'
<1>1. builder[b] \in Local /\ Built(builder[b]) /\ builder[b].temp \in Directory
  BY DEF ViewInv, ViewTypeOK, BuiltWhole, Local
<1>2. setup.kind \in Kinds
  BY CampaignAssumption DEF SetupType, ViewInv, ViewTypeOK
<1>3. CASE Fail(b)
  BY <1>3, FailStep
<1>4. CASE Audit(b) /\ ~Fail(b)
  <2> DEFINE l == [builder[b] EXCEPT !.step = "writing"]
  <2>1. /\ builder' = [builder EXCEPT ![b] = l]
        /\ builder[b].step = "verified" /\ builder[b].read = {}
    BY <1>4 DEF Audit, Go, At, MatchesRelease
  <2>2. l \in Local
    BY <1>1, LocalUpdates DEF Steps
  <2>3. l.step = "writing" /\ l.read = {} /\ l.temp = builder[b].temp
    BY <1>1, <2>1 DEF Local
  <2>4. l.temp = Empty
    BY <1>1, <2>1, <2>3 DEF Built, Active, Building
  <2>5. Built(l)
    BY <2>3, <2>4 DEF Built, Active, Building, Empty
  <2> QED
    BY <2>1, <2>5, <2>2, QuietStep
<1>5. ASSUME NEW t \in Tasks, WriteTask(b, t), ~Fail(b)
      PROVE  BuiltWhole' /\ PublishedWhole'
  <2> DEFINE d == [builder[b].temp EXCEPT !.tasks[t] = NewEntry(b, t)]
             l == [builder[b] EXCEPT !.temp = d]
  <2>1. /\ builder' = [builder EXCEPT ![b] = l]
        /\ builder[b].step = "writing"
    BY <1>5 DEF WriteTask, At
  <2>2. Whole(NewEntry(b, t), t) /\ builder[b].read = {}
    BY <1>1, <2>1, NewEntryWhole DEF ViewInv, Built, Building
  <2>3. NewEntry(b, t) \in Entry
    BY <2>2, Values DEF Whole, Described, Contents
  <2>4. /\ d \in Directory /\ d.manifest = builder[b].temp.manifest
        /\ \A u \in Tasks : d.tasks[u] = IF u = t THEN NewEntry(b, t)
                                         ELSE builder[b].temp.tasks[u]
    BY <1>1, <2>3 DEF Directory
  <2>5. l \in Local
    BY <1>1, <2>4, LocalUpdates
  <2>6. l.step = "writing" /\ l.read = {} /\ l.temp = d
    BY <1>1, <2>1, <2>2 DEF Local
  <2>7. Built(l)
    BY <1>1, <2>1, <2>2, <2>4, <2>6 DEF Built, Active, Building
  <2> QED
    BY <2>1, <2>7, <2>5, QuietStep
<1>6. CASE WriteManifest(b)
  <2> DEFINE d == [builder[b].temp EXCEPT !.manifest = BuildManifest(b)]
             l == [builder[b] EXCEPT !.step = "listed", !.temp = d]
  <2>1. /\ builder' = [builder EXCEPT ![b] = l]
        /\ builder[b].step = "writing"
        /\ \A t \in Tasks : builder[b].temp.tasks[t].is # "absent"
    BY <1>6 DEF WriteManifest, At
  <2>2. /\ builder[b].read = {}
        /\ \A t \in Tasks : Whole(builder[b].temp.tasks[t], t)
    BY <1>1, <2>1 DEF Built, Building, NoEntry
  <2>3. setup.kind # "vericoding" => BuildManifest(b) = DescribedManifest
    BY <2>2, ManifestWhole
  <2>4. \A t \in Tasks : SpecOf(builder[b].temp.tasks[t], t) \in Contents
    BY <1>1 DEF SpecOf, ViewInv, ViewTypeOK, Directory, Entry
  <2>5. BuildManifest(b) \in [Tasks -> Contents]
    BY <2>4, Values DEF BuildManifest
  <2>6. /\ d \in Directory /\ d.manifest = BuildManifest(b)
        /\ d.tasks = builder[b].temp.tasks
    BY <1>1, <2>5 DEF Directory
  <2>7. l \in Local
    BY <1>1, <2>6, LocalUpdates DEF Steps
  <2>8. l.step = "listed" /\ l.read = {} /\ l.temp = d
    BY <1>1, <2>2 DEF Local
  <2>9. Built(l)
    BY <2>2, <2>3, <2>6, <2>8 DEF Built, Active, Building
  <2> QED
    BY <2>1, <2>7, <2>9, QuietStep
<1>7. CASE CheckView(b) /\ ~Fail(b)
  <2> DEFINE next == IF view.exists /\ Overwrites THEN "removing" ELSE "renaming"
             l == [builder[b] EXCEPT !.step = next, !.over = view.by]
  <2>1. /\ builder' = [builder EXCEPT ![b] = l]
        /\ builder[b].step = "listed" /\ ViewChecked(b)
    BY <1>7 DEF CheckView, At
  <2>2. l \in Local
    BY <1>1, LocalUpdates DEF ViewInv, ViewTypeOK, Steps
  <2>3. /\ l.step = next /\ l.read = builder[b].read
        /\ l.temp = builder[b].temp
    BY <1>1 DEF Local
  <2>4. l.temp.manifest = DescribedManifest
    BY <1>1, <1>2, <2>1, <2>3 DEF Built, ViewChecked, Kinds
  <2>5. Built(l)
    BY <1>1, <2>1, <2>3, <2>4 DEF Built, Active, Building
  <2> QED
    BY <2>1, <2>5, <2>2, QuietStep
<1> QED
  BY <1>3, <1>4, <1>5, <1>6, <1>7
\* A removal under --force, an entry at a time: the view is known to be the
\* one that is being removed.
LEMMA RemoveStep ==
  ASSUME ViewInv, NEW b \in Builders, setup' = setup,
         RemoveEntry(b) \/ RemoveDirectory(b) \/ RemoveFails(b)
  PROVE  BuiltWhole' /\ PublishedWhole'
<1>1. builder[b] \in Local /\ Built(builder[b]) /\ builder[b].step = "removing"
  BY DEF ViewInv, ViewTypeOK, BuiltWhole, RemoveEntry, RemoveDirectory,
         RemoveFails, Removable, At
<1>2. Overwrites
  BY <1>1 DEF Built
<1>3. CASE RemoveEntry(b)
  <2>1. view.exists /\ view.by = builder[b].over /\ builder' = builder
    BY <1>3 DEF RemoveEntry, Removable
  <2>2. /\ view.manifest \in {DescribedManifest, NoManifest}
        /\ \A t \in Tasks : WholeEntry(t) \/ view.tasks[t] = NoEntry
    BY <2>1 DEF ViewInv, PublishedWhole
  <2>3. /\ view'.by = view.by /\ view'.exists
        /\ view'.manifest \in {view.manifest, NoManifest}
        /\ \A t \in Tasks : view'.tasks[t] \in {view.tasks[t], NoEntry}
    <3>1. CASE \E t \in Tasks : view' = [view EXCEPT !.tasks[t] = NoEntry]
      BY <2>1, <3>1 DEF ViewInv, ViewTypeOK
    <3>2. CASE view' = [view EXCEPT !.manifest = NoManifest]
      BY <2>1, <3>2 DEF ViewInv, ViewTypeOK
    <3> QED
      BY <1>3, <3>1, <3>2 DEF RemoveEntry
  <2>4. PublishedWhole'
    <3>1. view'.manifest \in {DescribedManifest', NoManifest} /\ Overwrites'
      BY <1>2, <2>2, <2>3, DescribedStays
    <3>2. \A t \in Tasks : WholeEntry(t)' \/ view'.tasks[t] = NoEntry
      BY <2>2, <2>3, DescribedStays DEF WholeEntry, Copy, NoEntry, Link
    <3>3. builder'[b].step = "removing" /\ builder'[b].over = view'.by
      BY <1>1, <2>1, <2>3
    <3> QED
      BY <3>1, <3>2, <3>3 DEF PublishedWhole
  <2>5. BuiltWhole'
    BY <2>1 DEF ViewInv, BuiltWhole, Built, Whole, Described,
                DescribedManifest, Overwrites
  <2> QED
    BY <2>4, <2>5
<1>4. CASE RemoveDirectory(b)
  <2> DEFINE l == [builder[b] EXCEPT !.step = "renaming"]
  <2>1. builder' = [builder EXCEPT ![b] = l] /\ view' = Nowhere
    BY <1>4 DEF RemoveDirectory, Go
  <2>2. /\ l.step = "renaming" /\ l.read = builder[b].read
        /\ l.temp = builder[b].temp
    BY <1>1 DEF Local
  <2>3. Built(l)
    BY <1>1, <2>2 DEF Built, Active, Building
  <2>4. BuiltWhole'
    BY <2>1, <2>3, BuiltByOne DEF ViewInv
  <2>5. PublishedWhole'
    BY <2>1 DEF PublishedWhole, Nowhere
  <2> QED
    BY <2>4, <2>5
<1>5. CASE RemoveFails(b)
  BY <1>5, FailStep DEF RemoveFails
<1> QED
  BY <1>3, <1>4, <1>5

\* What a rename publishes was whole when it was checked.
LEMMA RenameStep ==
  ASSUME ViewInv, NEW b \in Builders, setup' = setup, Rename(b)
  PROVE  BuiltWhole' /\ PublishedWhole'
<1>1. builder[b] \in Local /\ Built(builder[b]) /\ builder[b].step = "renaming"
  BY DEF ViewInv, ViewTypeOK, BuiltWhole, Rename, At
<1>2. CASE view.exists /\ Occupied(view)
  BY <1>2, FailStep DEF Rename
<1>3. CASE ~(view.exists /\ Occupied(view))
  <2> DEFINE l == [builder[b] EXCEPT !.step = "done", !.temp = Empty]
  <2>1. builder' = [builder EXCEPT ![b] = l] /\ view' = Place(builder[b].temp, b)
    BY <1>3 DEF Rename
  <2>2. l.step = "done"
    BY <1>1 DEF Local
  <2>3. Built(l)
    BY <2>2 DEF Built, Active, Building
  <2>4. BuiltWhole'
    BY <2>1, <2>3, BuiltByOne DEF ViewInv
  <2>5. /\ \A t \in Tasks : Whole(builder[b].temp.tasks[t], t)
        /\ builder[b].temp.manifest = DescribedManifest
    BY <1>1 DEF Built, Building
  <2>6. PublishedWhole'
    BY <2>1, <2>5, DescribedStays
       DEF PublishedWhole, WholeEntry, Whole, Place
  <2> QED
    BY <2>4, <2>6
<1> QED
  BY <1>2, <1>3

\* A full disk and a kill stop a materialiser where it is.
LEMMA StopStep ==
  ASSUME ViewInv, NEW b \in Builders, DiskError(b) \/ Crash(b)
  PROVE  BuiltWhole' /\ PublishedWhole'
<1>1. CASE DiskError(b)
  BY <1>1, FailStep DEF DiskError
<1>2. CASE Crash(b)
  <2> DEFINE l == [builder[b] EXCEPT !.step = "dead"]
  <2>1. builder' = [builder EXCEPT ![b] = l] /\ UNCHANGED <<setup, view>>
    BY <1>2 DEF Crash, Go
  <2>2. l.step = "dead" /\ l.over = builder[b].over
    BY DEF ViewInv, ViewTypeOK, Local
  <2>3. Built(l)
    BY <2>2 DEF Built, Active, Building
  <2>4. BuiltWhole'
    BY <2>1, <2>3, BuiltByOne DEF ViewInv
  <2>5. PublishedWhole'
    BY <2>1, <2>2, PublishedStays DEF ViewInv, ViewTypeOK
  <2> QED
    BY <2>4, <2>5
<1> QED
  BY <1>1, <1>2

\* Every step keeps the inductive invariant.
LEMMA ViewStep == ViewInv /\ [NextView]_viewVars => ViewInv'
<1> SUFFICES ASSUME ViewInv, [NextView]_viewVars PROVE ViewInv'
  OBVIOUS
<1>1. ViewTypeOK'
  BY ViewTypeStep DEF ViewInv
<1>2. ASSUME NEW b \in Builders,
             CaptureAudit(b) \/ CaptureOpen(b) \/ CaptureClose(b)
               \/ CaptureVerify(b) \/ VerifyDescriptor(b)
      PROVE  BuiltWhole' /\ PublishedWhole'
  <2>1. UNCHANGED <<setup, view>>
    BY <1>2 DEF CaptureAudit, CaptureOpen, CaptureClose, CaptureVerify,
                VerifyDescriptor
  <2> QED
    BY <1>2, <2>1, EarlyStep
<1>3. ASSUME NEW b \in Builders,
             \/ Audit(b) \/ WriteManifest(b) \/ CheckView(b)
             \/ \E t \in Tasks : WriteTask(b, t)
      PROVE  BuiltWhole' /\ PublishedWhole'
  <2>1. UNCHANGED <<setup, view>>
    BY <1>3 DEF Audit, WriteManifest, CheckView, WriteTask
  <2> QED
    BY <1>3, <2>1, BuildStep
<1>4. ASSUME NEW b \in Builders,
             RemoveEntry(b) \/ RemoveDirectory(b) \/ RemoveFails(b)
      PROVE  BuiltWhole' /\ PublishedWhole'
  BY <1>4, RemoveStep DEF RemoveEntry, RemoveDirectory, RemoveFails
<1>5. ASSUME NEW b \in Builders, Rename(b)
      PROVE  BuiltWhole' /\ PublishedWhole'
  BY <1>5, RenameStep DEF Rename
<1>6. ASSUME NEW b \in Builders, DiskError(b) \/ Crash(b)
      PROVE  BuiltWhole' /\ PublishedWhole'
  BY <1>6, StopStep
<1>7. ASSUME UNCHANGED <<setup, view, builder>>
      PROVE  BuiltWhole' /\ PublishedWhole'
  <2>1. BuiltWhole'
    BY <1>7 DEF ViewInv, BuiltWhole, Built, Whole, Described,
                DescribedManifest, Overwrites
  <2>2. PublishedWhole'
    BY <1>7, PublishedStays DEF ViewInv
  <2> QED
    BY <2>1, <2>2
<1>8. ASSUME NEW t \in Tasks, RefreshRead(t) \/ RefreshWrites(t) \/ Edit(t)
      PROVE  BuiltWhole' /\ PublishedWhole'
  BY <1>7, <1>8 DEF RefreshRead, RefreshWrites, Edit
<1>9. ASSUME RefreshDies \/ UNCHANGED viewVars
      PROVE  BuiltWhole' /\ PublishedWhole'
  BY <1>7, <1>9 DEF RefreshDies, viewVars
<1> QED
  BY <1>1, <1>2, <1>3, <1>4, <1>5, <1>6, <1>8, <1>9 DEF NextView, ViewInv

\* The view that was there before is a whole one.
LEMMA ViewStart == InitView => ViewInv
<1> SUFFICES ASSUME InitView PROVE ViewInv
  OBVIOUS
<1>1. SetupType(setup) /\ setup \in Setups
  BY CampaignAssumption DEF InitView
<1>2. \A t \in Tasks : Whole(Present.tasks[t], t) /\ Present.tasks[t] \in Entry
  BY Values DEF Present, Whole, Described, Contents
<1>3. /\ Present.tasks \in [Tasks -> Entry]
      /\ Present.manifest = DescribedManifest
      /\ DescribedManifest \in [Tasks -> Contents]
  BY <1>2, Values DEF Present, DescribedManifest, Described, Contents
<1>4. view \in [exists : BOOLEAN, by : Makers,
                tasks : [Tasks -> Entry], manifest : [Tasks -> Contents]]
  BY <1>3, Values DEF InitView, Place, Nowhere, Makers, Directory
<1>5. \A b \in Builders : Idle(b) \in Local
  BY Values DEF Idle, Local, Steps, Makers
<1>6. ViewTypeOK
  BY <1>1, <1>4, <1>5 DEF ViewTypeOK, InitView, SetupType, Contents
<1>7. BuiltWhole
  BY DEF BuiltWhole, Built, InitView, Idle, Active, Building
<1>8. PublishedWhole
  BY <1>2, <1>3 DEF PublishedWhole, WholeEntry, Whole, InitView, Place, Nowhere
<1> QED
  BY <1>6, <1>7, <1>8 DEF ViewInv

\* Whoever finds a view finds every task as the frozen campaign has it,
\* whatever is edited, fails, is killed or runs at the same time, for any
\* campaign and any number of materialisers.
THEOREM ViewIsWhole == SpecView => []PublishedWhole
<1>1. ViewInv => PublishedWhole
  BY DEF ViewInv
<1> QED
  BY <1>1, ViewStart, ViewStep, PTL DEF SpecView
=============================================================================
