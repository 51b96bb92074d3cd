------------------------ MODULE ExclusionsFile_proofs ------------------------
(***************************************************************************)
(* Proofs about the exclusions file, for any items, any number of workers  *)
(* and any number of events.  One inductive invariant: the types, what a   *)
(* worker that is about to replace something knows of the number it writes *)
(* (it is above everything the worker has seen), and the two properties.   *)
(***************************************************************************)
EXTENDS ExclusionsFile, TLAPS, SequenceTheorems

-----------------------------------------------------------------------------
(* Revisions and selections.                                               *)

LEMMA RevisionsAreIntegers ==
    /\ Revisions \subseteq Int
    /\ NoRev = -1 /\ NoRev \in Revisions
    /\ \A n \in Revisions : n >= -1 /\ n + 1 \in Nat
BY DEF Revisions, NoRev

LEMMA HighestOfTwo ==
    ASSUME NEW m \in Revisions, NEW n \in Revisions
    PROVE  /\ Highest({m, n}) \in {m, n}
           /\ Highest({m, n}) >= m /\ Highest({m, n}) >= n
<1>1. \E h \in {m, n} : \A k \in {m, n} : k <= h
  BY RevisionsAreIntegers
<1> QED
  BY <1>1, RevisionsAreIntegers DEF Highest

LEMMA HighestOfThree ==
    ASSUME NEW m \in Revisions, NEW n \in Revisions, NEW o \in Revisions
    PROVE  Highest({m, n, o}) \in {m, n, o}
<1>1. \E h \in {m, n, o} : \A k \in {m, n, o} : k <= h
  <2>1. PICK h \in {m, n} : \A k \in {m, n} : k <= h
    BY HighestOfTwo, RevisionsAreIntegers
  <2> QED
    BY <2>1, RevisionsAreIntegers
<1> QED
  BY <1>1 DEF Highest

\* A new number is above the one on the share and above the floor.
LEMMA NextIsHigher ==
    ASSUME NEW current \in Revisions, NEW floor \in Revisions
    PROVE  /\ NextRevision(current, floor) \in Nat
           /\ NextRevision(current, floor) > current
           /\ NextRevision(current, floor) > floor
BY HighestOfTwo, RevisionsAreIntegers DEF NextRevision

LEMMA CanonicalSelection ==
    ASSUME NEW paths \in Selections
    PROVE  Canonical(paths) \in Selections /\ Canonical(Canonical(paths)) = Canonical(paths)
BY DEF Canonical, Selections

LEMMA NothingIsADocument ==
    /\ Nothing \in Docs /\ Nothing.rev = NoRev /\ Nothing.sel = {}
    /\ Canonical({}) = {} /\ {} \in Selections
BY RevisionsAreIntegers DEF Nothing, Docs, Selections, Canonical

-----------------------------------------------------------------------------
(* The inductive invariant.                                                *)

\* A worker's numbers, and the places where each kind of work can be.
TaskOK(t) ==
    /\ Canonical(t.doc.sel) = t.doc.sel
    /\ t.at \in {"load", "loaded"} => t.source = "read"
    /\ t.at = "reread" => t.source = "apply"
    /\ t.at = "publish" => t.source = "apply" /\ t.doc.rev > t.seen.rev /\ t.doc.rev > t.floor
    /\ t.at = "replace" /\ t.source = "read" => t.doc.rev > t.seen.rev

SoundTasks == {t \in Tasks : TaskOK(t)}

Questions == {question \in [sel : Selections, base : Revisions, least : Revisions] :
                  Canonical(question.sel) = question.sel}

\* What the guest has read is in order, and what is on the share, unless it was
\* raced or cannot be read, comes after all of it.
Follows(doc, old) == doc.rev > old.rev \/ doc = old
GuestOrdered == Follows(held, applied) /\ (taken # Nothing => Follows(taken, held))
NumberedAbove ==
    "file" \notin raced /\ file.rev # NoRev =>
        Follows(file, applied) /\ Follows(file, held) /\ Follows(file, taken)
GuestOK == GuestOrdered /\ NumberedAbove

IInv ==
    /\ TypeOK
    /\ job \in [Jobs -> SoundTasks]
    /\ dialogs \in Seq(Questions)
    /\ GuestOK
    /\ KeptThroughRebuild

LEMMA IdleIsSound ==
    Idle \in SoundTasks /\ Idle.source = "read" /\ Idle.at = "idle"
<1>1. Idle \in Tasks
  BY NothingIsADocument, RevisionsAreIntegers DEF Idle, Tasks, Places
<1>2. TaskOK(Idle)
  BY NothingIsADocument DEF Idle, TaskOK
<1> QED
  BY <1>1, <1>2 DEF SoundTasks, Idle

LEMMA TaskFields ==
    ASSUME NEW t \in SoundTasks
    PROVE  /\ t.at \in Places /\ t.doc \in Docs /\ t.base \in Revisions /\ t.seen \in Docs
           /\ t.expect \in Revisions /\ t.floor \in Revisions /\ t.source \in {"read", "apply"}
           /\ t.doc.rev \in Revisions /\ t.doc.sel \in Selections /\ t.seen.rev \in Revisions
           /\ TaskOK(t)
BY DEF SoundTasks, Tasks, Docs

\* The parts of the invariant that are not about the workers.
Documents == {doc \in Docs : Canonical(doc.sel) = doc.sel}

SharedOK ==
    /\ file \in Documents /\ backup \in Documents
    /\ applied \in Documents /\ held \in Documents /\ taken \in Documents
ShownOK ==
    /\ loaded \in Documents /\ wanted \in Selections
    /\ status \in Revisions /\ written \in Revisions
    /\ dialogs \in Seq(Questions)
FlagsOK ==
    /\ paused \in BOOLEAN /\ writing \in BOOLEAN /\ kept \in BOOLEAN
    /\ raced \subseteq {"file", "backup"}
    /\ events \in 0 .. MaxEvents

JobsOK == job \in [Jobs -> SoundTasks]

Writer(j) == job[j].source = "apply" /\ job[j].at # "warn"
FlagHasWriter == writing => \E j \in Jobs : Writer(j)

LEMMA QuestionsAreRecords ==
    Seq(Questions) \subseteq Seq([sel : Selections, base : Revisions, least : Revisions])
<1>1. Questions \subseteq [sel : Selections, base : Revisions, least : Revisions]
  BY DEF Questions
<1> QED
  BY <1>1, SeqMonotonic

LEMMA Parts ==
    ASSUME IInv
    PROVE  /\ SharedOK /\ ShownOK /\ FlagsOK
           /\ JobsOK /\ FlagHasWriter
           /\ GuestOK /\ KeptThroughRebuild
BY DEF IInv, TypeOK, SharedOK, ShownOK, FlagsOK, JobsOK, FlagHasWriter, Writer, Documents

LEMMA PartsAreAll ==
    /\ SharedOK /\ ShownOK /\ FlagsOK
    /\ JobsOK /\ FlagHasWriter
    /\ GuestOK /\ KeptThroughRebuild
    => IInv
<1>1. SoundTasks \subseteq Tasks
  BY DEF SoundTasks
<1>2. job \in [Jobs -> SoundTasks] => job \in [Jobs -> Tasks]
  BY <1>1
<1> QED
  BY <1>2, QuestionsAreRecords
  DEF IInv, TypeOK, SharedOK, ShownOK, FlagsOK, JobsOK, FlagHasWriter, Writer, Documents

\* Nothing that the guest compares changes.
LEMMA GuestStill ==
    ASSUME GuestOK, UNCHANGED share, raced \subseteq raced'
    PROVE  GuestOK'
<1>1. GuestOrdered'
  BY DEF GuestOK, GuestOrdered, Follows, share, agent
<1>2. "file" \notin raced' => "file" \notin raced
  OBVIOUS
<1>3. NumberedAbove'
  BY <1>2, Zenon DEF GuestOK, NumberedAbove, Follows, share, agent
<1> QED
  BY <1>1, <1>3 DEF GuestOK

-----------------------------------------------------------------------------
(* What one worker does.                                                   *)

LEMMA Moves ==
    ASSUME JobsOK, NEW j \in Jobs, NEW t \in SoundTasks, Becomes(j, t)
    PROVE  /\ JobsOK' /\ job'[j] = t
           /\ \A k \in Jobs \ {j} : job'[k] = job[k]
BY DEF Becomes, JobsOK

\* The flag stays witnessed when the worker does not leave a write behind.
LEMMA FlagFollows ==
    ASSUME JobsOK, FlagHasWriter, NEW j \in Jobs, NEW t \in SoundTasks,
           Becomes(j, t), writing' = writing,
           Writer(j) => t.source = "apply" /\ t.at # "warn"
    PROVE  FlagHasWriter'
<1>1. \A k \in Jobs : Writer(k) => Writer(k)'
  BY Moves DEF Writer
<1> QED
  BY <1>1 DEF FlagHasWriter

\* A step of one worker that touches nothing but its own place.
LEMMA OwnStep ==
    ASSUME IInv, NEW j \in Jobs, NEW t \in SoundTasks, Becomes(j, t),
           Writer(j) => t.source = "apply" /\ t.at # "warn",
           events' \in 0 .. MaxEvents,
           UNCHANGED <<share, backup, paused, view, numbers, writing, dialogs, history>>
    PROVE  IInv'
<1>1. SharedOK' /\ ShownOK'
  BY Parts DEF SharedOK, ShownOK, share, agent, view, numbers
<1>2. FlagsOK'
  BY Parts, Zenon DEF FlagsOK, history
<1>3. JobsOK' /\ FlagHasWriter'
  BY Moves, FlagFollows, Parts
<1>4. GuestOK' /\ KeptThroughRebuild'
  <2>1. UNCHANGED share /\ raced \subseteq raced' /\ UNCHANGED <<raced, kept, backup>>
    BY DEF history
  <2> QED
    BY <2>1, Parts, GuestStill, Zenon DEF KeptThroughRebuild
<1> QED
  BY <1>1, <1>2, <1>3, <1>4, PartsAreAll, PTL

LEMMA ReadingKeeps ==
    ASSUME IInv, NEW j \in Jobs,
           Reload(j) \/ Read(j) \/ Look(j) \/ Load(j) \/ Restore(j) \/ Warned(j)
    PROVE  IInv'
<1> USE Parts
<1>1. CASE Reload(j)
  <2> DEFINE t == [Idle EXCEPT !.at = "read"]
  <2>1. t \in SoundTasks /\ ~Writer(j)
    BY <1>1, IdleIsSound
    DEF Reload, StartRead, Begin, SoundTasks, Tasks, Places, TaskOK, Writer
  <2> QED
    BY <1>1, <2>1, OwnStep, ExclusionsAssumption
    DEF Reload, StartRead, Begin, Happens, FlagsOK
<1>2. CASE Read(j)
  <2>1. PICK t \in SoundTasks : Becomes(j, t) /\ t.source = job[j].source /\ t.at # "warn"
    <3>1. job[j] \in SoundTasks
      BY DEF JobsOK
    <3>2. CASE Becomes(j, [job[j] EXCEPT !.at = "look", !.doc = file])
      <4>1. [job[j] EXCEPT !.at = "look", !.doc = file] \in SoundTasks
        BY <3>1 DEF SoundTasks, Tasks, Places, TaskOK, SharedOK, Documents
      <4> QED
        BY <3>1, <3>2, <4>1 DEF SoundTasks, Tasks
    <3>3. CASE Go(j, "failed")
      <4>1. [job[j] EXCEPT !.at = "failed"] \in SoundTasks
        BY <3>1 DEF SoundTasks, Tasks, Places, TaskOK
      <4> QED
        BY <3>1, <3>3, <4>1 DEF SoundTasks, Tasks, Go
    <3> QED
      BY <1>2, <3>2, <3>3 DEF Read
  <2> QED
    BY <1>2, <2>1, OwnStep DEF Read, FlagsOK, Writer
<1>3. CASE Look(j)
  <2>1. PICK t \in SoundTasks : Becomes(j, t) /\ t.source = job[j].source /\ t.at # "warn"
    <3>1. job[j] \in SoundTasks
      BY DEF JobsOK
    <3>2. CASE /\ Saves(job[j].doc, job[j].source)
               /\ Becomes(j, [job[j] EXCEPT !.at = "replace", !.seen = backup])
      <4>1. [job[j] EXCEPT !.at = "replace", !.seen = backup] \in SoundTasks
        BY <3>1, <3>2 DEF SoundTasks, Tasks, Places, TaskOK, SharedOK, Documents, Saves
      <4> QED
        BY <3>1, <3>2, <4>1 DEF SoundTasks, Tasks
    <3>3. CASE Go(j, "done")
      <4>1. [job[j] EXCEPT !.at = "done"] \in SoundTasks
        BY <3>1 DEF SoundTasks, Tasks, Places, TaskOK
      <4> QED
        BY <3>1, <3>3, <4>1 DEF SoundTasks, Tasks, Go
    <3> QED
      BY <1>3, <3>2, <3>3 DEF Look
  <2> QED
    BY <1>3, <2>1, OwnStep DEF Look, FlagsOK, Writer
<1>4. CASE Load(j)
  <2>1. ~Writer(j)
    BY <1>4 DEF Load, Writer, JobsOK, SoundTasks, TaskOK
  <2>2. PICK t \in SoundTasks : Becomes(j, t)
    <3>1. [job[j] EXCEPT !.at = "loaded", !.doc = backup] \in SoundTasks
      BY <1>4 DEF Load, JobsOK, SoundTasks, Tasks, Places, TaskOK, SharedOK, Documents
    <3> QED
      BY <1>4, <3>1, IdleIsSound DEF Load, End
  <2> QED
    BY <1>4, <2>1, <2>2, OwnStep DEF Load, FlagsOK
<1>5. CASE Restore(j)
  <2> DEFINE t == [Idle EXCEPT !.at = "load"]
  <2>1. t \in SoundTasks /\ ~Writer(j)
    BY <1>5, IdleIsSound DEF Restore, Begin, SoundTasks, Tasks, Places, TaskOK, Writer
  <2> QED
    BY <1>5, <2>1, OwnStep, ExclusionsAssumption DEF Restore, Begin, Happens, FlagsOK
<1>6. CASE Warned(j)
  <2>1. [Idle EXCEPT !.at = "read"] \in SoundTasks
    BY IdleIsSound DEF SoundTasks, Tasks, Places, TaskOK
  <2>2. PICK t \in SoundTasks : Becomes(j, t)
    BY <1>6, <2>1, IdleIsSound DEF Warned
  <2> QED
    BY <1>6, <2>2, OwnStep DEF Warned, FlagsOK, Writer
<1> QED
  BY <1>1, <1>2, <1>3, <1>4, <1>5, <1>6

LEMMA WritingKeeps ==
    ASSUME IInv, NEW j \in Jobs, Reread(j) \/ PublishFails(j)
    PROVE  IInv'
<1> USE Parts
<1>1. job[j] \in SoundTasks
  BY DEF JobsOK
<1>2. [Idle EXCEPT !.at = "failed", !.source = "apply"] \in SoundTasks
  BY IdleIsSound DEF SoundTasks, Tasks, Places, TaskOK
<1>3. CASE WriteFails(j) /\ events' = events
           /\ UNCHANGED <<share, backup, paused, view, numbers, writing, dialogs, history>>
  BY <1>2, <1>3, IdleIsSound, OwnStep DEF WriteFails, FlagsOK, SoundTasks, Tasks
<1>4. CASE Reread(j)
  <2>1. CASE \E seen \in {file, Nothing} :
             /\ job[j].expect \in {NoRev, seen.rev}
             /\ seen.rev = NoRev => job[j].expect = NoRev
             /\ NextRevision(seen.rev, job[j].floor) <= MaxRev
             /\ Becomes(j, [job[j] EXCEPT !.at = "publish", !.seen = seen, !.expect = NoRev,
                                !.doc = [rev |-> NextRevision(seen.rev, job[j].floor),
                                         sel |-> job[j].doc.sel]])
    <3>1. PICK seen \in {file, Nothing} :
             Becomes(j, [job[j] EXCEPT !.at = "publish", !.seen = seen, !.expect = NoRev,
                                !.doc = [rev |-> NextRevision(seen.rev, job[j].floor),
                                         sel |-> job[j].doc.sel]])
      BY <2>1
    <3>2. seen \in Docs /\ seen.rev \in Revisions
      BY NothingIsADocument DEF SharedOK, Documents, Docs
    <3> DEFINE n == NextRevision(seen.rev, job[j].floor)
    <3>3. n \in Nat /\ n > seen.rev /\ n > job[j].floor
      BY <1>1, <3>2, NextIsHigher, TaskFields
    <3> HIDE DEF n
    <3>4. job[j].source = "apply"
      BY <1>4, <1>1 DEF Reread, SoundTasks, TaskOK
    <3> DEFINE d == [rev |-> n, sel |-> job[j].doc.sel]
    <3> DEFINE t == [job[j] EXCEPT !.at = "publish", !.seen = seen, !.expect = NoRev, !.doc = d]
    <3>5. d \in Docs /\ d.sel = job[j].doc.sel /\ d.rev = n
      BY <1>1, <3>3, TaskFields DEF Docs, Revisions
    <3>6. Becomes(j, t)
      BY <3>1 DEF n
    <3> HIDE DEF d
    <3>7. /\ t \in Tasks
          /\ t.at = "publish" /\ t.source = "apply" /\ t.seen = seen /\ t.doc = d
          /\ t.floor = job[j].floor
      BY <1>1, <3>2, <3>4, <3>5, RevisionsAreIntegers DEF SoundTasks, Tasks, Places
    <3> HIDE DEF t
    <3>8. TaskOK(t)
      BY <1>1, <3>3, <3>5, <3>7, TaskFields DEF TaskOK
    <3> QED
      BY <1>4, <3>6, <3>7, <3>8, OwnStep DEF Reread, FlagsOK, SoundTasks
  <2> QED
    BY <1>3, <1>4, <2>1 DEF Reread
<1> QED
  BY <1>3, <1>4 DEF PublishFails

\* The backup is replaced: a read that saw it as it still is writes a higher one.
LEMMA BackupKeeps ==
    ASSUME IInv, NEW j \in Jobs, Replace(j)
    PROVE  IInv'
<1> USE Parts
<1>1. job[j] \in SoundTasks
  BY DEF JobsOK
<1>2. [job[j] EXCEPT !.at = "done"] \in SoundTasks
  BY <1>1 DEF SoundTasks, Tasks, Places, TaskOK
<1>3. JobsOK' /\ FlagHasWriter'
  <2>1. /\ [job[j] EXCEPT !.at = "done"].source = job[j].source
        /\ [job[j] EXCEPT !.at = "done"].at = "done"
    BY <1>1 DEF SoundTasks, Tasks
  <2> QED
    BY <1>2, <2>1, Moves, FlagFollows DEF Replace, Go, Writer
<1>4. SharedOK' /\ ShownOK'
  BY <1>1, TaskFields DEF Replace, SharedOK, ShownOK, TaskOK, Documents, share, agent, view, numbers
<1>5. raced' \subseteq {"file", "backup"} /\ raced \subseteq raced'
  BY DEF Replace, FlagsOK
<1>6. kept' \in BOOLEAN
  BY DEF Replace
<1>7. FlagsOK'
  BY <1>5, <1>6, Zenon DEF Replace, FlagsOK
<1>8. GuestOK'
  BY <1>5, GuestStill DEF Replace
<1>9. KeptThroughRebuild'
  <2>1. SUFFICES ASSUME kept' = TRUE, "backup" \notin raced' PROVE backup'.rev > 0
    BY <1>6 DEF KeptThroughRebuild
  <2>2. backup = job[j].seen /\ "backup" \notin raced
    BY <2>1 DEF Replace
  <2>3. kept /\ job[j].source = "read"
    BY <2>1, Zenon DEF Replace
  <2>4. backup.rev > 0
    BY <2>2, <2>3, Zenon DEF KeptThroughRebuild
  <2>5. job[j].doc.rev > job[j].seen.rev
    BY <1>1, <2>3 DEF Replace, SoundTasks, TaskOK
  <2>6. backup' = job[j].doc /\ job[j].doc.rev \in Int /\ job[j].seen.rev \in Int
    BY <1>1, TaskFields, RevisionsAreIntegers DEF Replace
  <2> QED
    BY <2>2, <2>4, <2>5, <2>6
<1> QED
  BY <1>3, <1>4, <1>7, <1>8, <1>9, PartsAreAll, PTL

\* What is published is above what was read again and above the floor: either
\* that is what the guest compares with, or something was replaced unseen.
LEMMA PublishKeeps ==
    ASSUME IInv, NEW j \in Jobs, Publish(j)
    PROVE  IInv'
<1> USE Parts
<1>1. job[j] \in SoundTasks
  BY DEF JobsOK
<1> DEFINE t == [Idle EXCEPT !.at = "look", !.source = "apply", !.doc = job[j].doc]
<1>2. t \in SoundTasks /\ t.source = "apply" /\ t.at # "warn"
  BY <1>1, IdleIsSound DEF SoundTasks, Tasks, Places, TaskOK
<1>3. JobsOK' /\ FlagHasWriter'
  BY <1>2, Moves, FlagFollows DEF Publish
<1>4. SharedOK' /\ ShownOK'
  BY <1>1, TaskFields DEF Publish, SharedOK, ShownOK, TaskOK, Documents, agent, view, numbers
<1>5. raced' \subseteq {"file", "backup"}
  BY DEF Publish, FlagsOK
<1>6. FlagsOK'
  BY <1>5, Zenon DEF Publish, FlagsOK
<1>7. GuestOK'
  <2>1. GuestOrdered' /\ UNCHANGED agent
    BY DEF Publish, GuestOK, GuestOrdered, Follows, agent
  <2>2. SUFFICES ASSUME "file" \notin raced'
                 PROVE  \A doc \in {applied, held, taken} : file'.rev > doc.rev
    BY <2>1 DEF GuestOK, NumberedAbove, Follows, agent
  <2>3. Shown(j) /\ file' = job[j].doc
    BY <2>2 DEF Publish
  <2>4. job[j].doc.rev > job[j].seen.rev /\ job[j].doc.rev > job[j].floor
    BY <1>1 DEF Publish, SoundTasks, TaskOK
  <2>5. /\ \A doc \in {applied, held, taken} : doc.rev \in Int
        /\ file.rev \in Int /\ job[j].floor \in Int /\ job[j].doc.rev \in Int
    BY <1>1, TaskFields, RevisionsAreIntegers DEF SharedOK, Documents, Docs
  <2>6. CASE \A doc \in {applied, held, taken} : job[j].floor >= doc.rev
    BY <2>3, <2>4, <2>5, <2>6
  <2>7. CASE ~(\A doc \in {applied, held, taken} : job[j].floor >= doc.rev)
    <3>1. "file" \notin raced
      BY <2>2, <2>3, <2>7 DEF Publish
    <3>2. Follows(file, applied) /\ Follows(file, held) /\ Follows(file, taken)
      BY <2>3, <3>1, Zenon DEF Shown, GuestOK, NumberedAbove
    <3>3. \A doc \in {applied, held, taken} : file.rev >= doc.rev
      BY <2>5, <3>2 DEF Follows
    <3> QED
      BY <2>3, <2>4, <2>5, <3>3 DEF Shown
  <2> QED
    BY <2>6, <2>7
<1>8. KeptThroughRebuild'
  <2>1. "backup" \notin raced' => "backup" \notin raced
    BY DEF Publish
  <2> QED
    BY <2>1, Zenon DEF Publish, KeptThroughRebuild
<1> QED
  BY <1>3, <1>4, <1>6, <1>7, <1>8, PartsAreAll, PTL

LEMMA EndsKeep ==
    ASSUME IInv, NEW j \in Jobs,
           ReadDone(j) \/ ReadFailed(j) \/ WriteDone(j) \/ WriteFailed(j) \/ Preview(j)
    PROVE  IInv'
<1> USE Parts
<1>1. job[j] \in SoundTasks
  BY DEF JobsOK
<1>2. [job[j] EXCEPT !.at = "warn"] \in SoundTasks
  BY <1>1 DEF SoundTasks, Tasks, Places, TaskOK
<1>3. /\ file' = file /\ backup' = backup
      /\ applied' = applied /\ held' = held /\ taken' = taken
      /\ raced' = raced /\ kept' = kept
  BY Zenon DEF ReadDone, ReadFailed, WriteDone, WriteFailed, Preview, share, agent, history
<1>4. GuestOK' /\ KeptThroughRebuild'
  <2>1. UNCHANGED share /\ raced \subseteq raced'
    BY <1>3 DEF share, agent
  <2> QED
    BY <1>3, <2>1, GuestStill, Zenon DEF KeptThroughRebuild
<1>5. JobsOK'
  BY <1>1, <1>2, IdleIsSound, Moves
  DEF ReadDone, ReadFailed, WriteDone, WriteFailed, Preview, End, Go
<1>6. FlagHasWriter'
  <2>1. CASE writing' = FALSE
    BY <2>1, Zenon DEF FlagHasWriter
  <2>2. CASE ReadDone(j) \/ ReadFailed(j) \/ Preview(j)
    <3>1. ~Writer(j) /\ Becomes(j, Idle) /\ writing' = writing
      BY <1>1, <2>2 DEF ReadDone, ReadFailed, Preview, End, Writer, SoundTasks, TaskOK
    <3> QED
      BY <3>1, IdleIsSound, FlagFollows
  <2> QED
    BY <2>1, <2>2 DEF WriteDone, WriteFailed
<1>7. FlagsOK'
  <2>1. paused' = paused /\ events' = events /\ writing' \in {writing, FALSE}
    BY DEF ReadDone, ReadFailed, WriteDone, WriteFailed, Preview
  <2> QED
    BY <1>3, <2>1, Zenon DEF FlagsOK
<1>8. SharedOK'
  BY <1>3 DEF SharedOK
<1>9. ShownOK'
  <2>1. job[j].doc \in Documents /\ Nothing \in Documents
    BY <1>1, TaskFields, NothingIsADocument DEF Documents, TaskOK
  <2>2. CASE ReadDone(j) \/ ReadFailed(j) \/ WriteDone(j) \/ WriteFailed(j)
    BY <1>1, <2>1, <2>2, TaskFields, NothingIsADocument
    DEF ReadDone, ReadFailed, WriteDone, WriteFailed, ShownOK, Documents, view, numbers
  <2>3. CASE Preview(j)
    <3> DEFINE q == [sel |-> job[j].doc.sel, base |-> loaded.rev, least |-> job[j].doc.rev]
    <3>1. q \in Questions
      BY <1>1, TaskFields DEF Questions, TaskOK, ShownOK, Documents, Docs
    <3>2. dialogs' \in {dialogs, Append(dialogs, q)}
      BY <2>3 DEF Preview, Ask
    <3> HIDE DEF q
    <3>3. dialogs' \in Seq(Questions)
      BY <3>1, <3>2, AppendProperties DEF ShownOK
    <3> QED
      BY <2>3, <3>3 DEF Preview, ShownOK, view, numbers
  <2> QED
    BY <2>2, <2>3
<1> QED
  BY <1>4, <1>5, <1>6, <1>7, <1>8, <1>9, PartsAreAll, PTL

-----------------------------------------------------------------------------
(* What the operator does.                                                 *)

LEMMA Closing ==
    ASSUME IInv, dialogs # <<>>, Close
    PROVE  dialogs' \in Seq(Questions) /\ Innermost \in Questions
<1>1. dialogs \in Seq(Questions)
  BY DEF IInv
<1>2. Len(dialogs) \in Nat \ {0} /\ \A i \in 1 .. Len(dialogs) : dialogs[i] \in Questions
  BY <1>1, EmptySeq, ElementOfSeq
<1>3. SubSeq(dialogs, 1, Len(dialogs) - 1) \in Seq(Questions)
  BY <1>2, SubSeqProperties
<1> QED
  BY <1>2, <1>3 DEF Close, Innermost

LEMMA ConfirmKeeps ==
    ASSUME IInv, NEW j \in Jobs, Confirm(j)
    PROVE  IInv'
<1> USE Parts
<1> DEFINE floor == Highest({status, written, Innermost.least})
<1> DEFINE doc == [rev |-> NoRev, sel |-> Innermost.sel]
<1> DEFINE t == [Idle EXCEPT !.at = "reread", !.source = "apply", !.doc = doc,
                             !.base = Innermost.base, !.expect = loaded.rev, !.floor = floor]
<1>1. dialogs' \in Seq(Questions) /\ Innermost \in Questions
  BY Closing DEF Confirm
<1>2. /\ Innermost.sel \in Selections /\ Innermost.base \in Revisions
      /\ Innermost.least \in Revisions /\ Canonical(Innermost.sel) = Innermost.sel
  BY <1>1 DEF Questions
<1>3. floor \in Revisions
  BY <1>2, HighestOfThree DEF ShownOK
<1>4. doc \in Docs /\ Canonical(doc.sel) = doc.sel /\ loaded.rev \in Revisions
  BY <1>2, RevisionsAreIntegers DEF Docs, ShownOK, Documents
<1>5. Becomes(j, t) /\ writing' = TRUE
  BY DEF Confirm, Begin
<1> HIDE DEF floor, doc
<1>6. t \in Tasks /\ t.at = "reread" /\ t.source = "apply" /\ t.doc = doc
  BY <1>2, <1>3, <1>4, IdleIsSound DEF SoundTasks, Tasks, Places
<1> HIDE DEF t
<1>7. t \in SoundTasks
  BY <1>4, <1>6 DEF SoundTasks, TaskOK
<1>8. JobsOK' /\ job'[j] = t
  BY <1>5, <1>7, Moves
<1>9. FlagHasWriter'
  BY <1>6, <1>8 DEF FlagHasWriter, Writer
<1>10. SharedOK' /\ ShownOK'
  BY <1>1 DEF Confirm, SharedOK, ShownOK, share, agent, view, numbers
<1>11. FlagsOK'
  BY <1>5, Zenon DEF Confirm, FlagsOK, history
<1>12. GuestOK' /\ KeptThroughRebuild'
  <2>1. UNCHANGED share /\ raced \subseteq raced' /\ UNCHANGED <<raced, kept, backup>>
    BY DEF Confirm, history
  <2> QED
    BY <2>1, GuestStill, Zenon DEF KeptThroughRebuild
<1> QED
  BY <1>8, <1>9, <1>10, <1>11, <1>12, PartsAreAll, PTL

\* A step that leaves the workers, the share and the backup alone.
LEMMA ShownStep ==
    ASSUME IInv, UNCHANGED <<share, backup, job, history, writing>>, ShownOK',
           paused' \in BOOLEAN, events' \in 0 .. MaxEvents
    PROVE  IInv'
<1> USE Parts
<1>1. SharedOK'
  BY DEF SharedOK, share, agent
<1>2. FlagsOK'
  BY Zenon DEF FlagsOK, history
<1>3. JobsOK' /\ FlagHasWriter'
  BY Zenon DEF JobsOK, FlagHasWriter, Writer
<1>4. GuestOK' /\ KeptThroughRebuild'
  <2>1. UNCHANGED share /\ raced \subseteq raced' /\ UNCHANGED <<raced, kept, backup>>
    BY DEF history
  <2> QED
    BY <2>1, GuestStill, Zenon DEF KeptThroughRebuild
<1> QED
  BY <1>1, <1>2, <1>3, <1>4, PartsAreAll, PTL

LEMMA Counted ==
    ASSUME IInv, Happens
    PROVE  events' \in 0 .. MaxEvents
BY Parts, ExclusionsAssumption DEF Happens, FlagsOK

LEMMA OperatorKeeps ==
    ASSUME IInv, Operator
    PROVE  IInv'
<1> USE Parts
<1>1. paused \in BOOLEAN /\ events \in 0 .. MaxEvents
  BY Zenon DEF FlagsOK
<1>2. ASSUME NEW p \in Items, Exclude(p) \/ Include(p) PROVE IInv'
  <2>1. ShownOK'
    BY <1>2 DEF Exclude, Include, ShownOK, Selections, numbers
  <2>2. events' \in 0 .. MaxEvents
    BY <1>2, Counted DEF Exclude, Include
  <2>3. UNCHANGED <<share, backup, job, history, writing>> /\ paused' = paused
    BY <1>2 DEF Exclude, Include
  <2> QED
    BY <1>1, <2>1, <2>2, <2>3, ShownStep
<1>3. CASE Apply
  <2> DEFINE q == [sel |-> Canonical(wanted), base |-> loaded.rev, least |-> NoRev]
  <2>1. q \in Questions
    BY CanonicalSelection, RevisionsAreIntegers DEF Questions, ShownOK, Documents, Docs
  <2>2. dialogs' = Append(dialogs, q)
    BY <1>3 DEF Apply, Ask
  <2> HIDE DEF q
  <2>3. dialogs' \in Seq(Questions)
    BY <2>1, <2>2, AppendProperties DEF ShownOK
  <2>4. ShownOK'
    BY <1>3, <2>3 DEF Apply, ShownOK, view, numbers
  <2>5. events' \in 0 .. MaxEvents
    BY <1>3, Counted DEF Apply
  <2> QED
    BY <1>1, <1>3, <2>4, <2>5, ShownStep DEF Apply
<1>4. CASE Decline
  <2>1. ShownOK'
    BY <1>4, Closing DEF Decline, ShownOK, view, numbers
  <2> QED
    BY <1>1, <1>4, <2>1, ShownStep DEF Decline
<1>5. ASSUME NEW j \in Jobs, Reload(j) \/ Restore(j) \/ Confirm(j) PROVE IInv'
  BY <1>5, ReadingKeeps, ConfirmKeeps
<1> QED
  BY <1>2, <1>3, <1>4, <1>5 DEF Operator

-----------------------------------------------------------------------------
(* What the guest and the world do.                                        *)

\* A step that leaves the workers and the window alone: what it puts on the
\* share is a number above the guest's, nothing readable, or known as a race.
LEMMA ShareStep ==
    ASSUME IInv, UNCHANGED <<job, view, numbers, dialogs, writing, paused>>,
           SharedOK', raced' \in {raced, raced \cup {"file"}}, kept' \in BOOLEAN,
           events' \in 0 .. MaxEvents, KeptThroughRebuild', GuestOK'
    PROVE  IInv'
<1> USE Parts
<1>1. ShownOK'
  BY DEF ShownOK, view, numbers
<1>2. raced' \subseteq {"file", "backup"}
  BY DEF FlagsOK
<1>3. FlagsOK'
  BY <1>2, Zenon DEF FlagsOK
<1>4. JobsOK' /\ FlagHasWriter'
  BY Zenon DEF JobsOK, FlagHasWriter, Writer
<1> QED
  BY <1>1, <1>3, <1>4, PartsAreAll, PTL

LEMMA Canonicals ==
    ASSUME NEW rev \in Revisions, NEW paths \in Selections
    PROVE  [rev |-> rev, sel |-> Canonical(paths)] \in Documents
BY CanonicalSelection DEF Documents, Docs

LEMMA WorldKeeps ==
    ASSUME IInv, World
    PROVE  IInv'
<1> USE Parts
<1>1. kept \in BOOLEAN /\ raced \in {raced, raced \cup {"file"}} /\ events \in 0 .. MaxEvents
  BY Zenon DEF FlagsOK
<1>2. \A doc \in {file, backup, applied, held, taken} :
         doc \in Documents /\ doc.rev \in Revisions /\ doc.rev \in Int
  BY RevisionsAreIntegers DEF SharedOK, Documents, Docs
<1>3. Nothing \in Documents /\ [rev |-> 0, sel |-> {}] \in Documents
  BY NothingIsADocument DEF Documents, Docs, Revisions
<1>4. ASSUME kept' = kept, raced' \in {raced, raced \cup {"file"}}, backup' = backup
      PROVE  KeptThroughRebuild'
  <2>1. "backup" \notin raced' => "backup" \notin raced
    BY <1>4
  <2> QED
    BY <1>4, <2>1, Zenon DEF KeptThroughRebuild
<1>5. CASE AgentReads \/ AgentRecords \/ AgentStops
  <2>1. UNCHANGED <<file, backup, view, numbers, writing, paused, dialogs, job, history>>
    BY <1>5 DEF AgentReads, AgentRecords, AgentStops
  <2>2. SharedOK'
    BY <1>3, <1>5, <2>1 DEF AgentReads, AgentRecords, AgentStops, SharedOK
  <2>3. GuestOrdered'
    <3>1. CASE AgentReads
      BY <3>1 DEF AgentReads, Accepts, GuestOK, GuestOrdered, Follows
    <3>2. CASE AgentRecords
      BY <1>2, <3>2 DEF AgentRecords, GuestOK, GuestOrdered, Follows
    <3>3. CASE AgentStops
      BY <3>3 DEF AgentStops, GuestOK, GuestOrdered, Follows
    <3> QED
      BY <1>5, <3>1, <3>2, <3>3
  <2>4. NumberedAbove'
    <3>1. SUFFICES ASSUME "file" \notin raced, file.rev # NoRev
                   PROVE  Follows(file, applied') /\ Follows(file, held') /\ Follows(file, taken')
      BY <2>1 DEF NumberedAbove, Follows, history
    <3>2. Follows(file, applied) /\ Follows(file, held) /\ Follows(file, taken)
      BY <3>1 DEF GuestOK, NumberedAbove
    <3>3. Follows(file, Nothing) /\ Follows(file, file)
      BY <1>2, <3>1, NothingIsADocument, RevisionsAreIntegers DEF Follows
    <3> QED
      BY <1>5, <3>2, <3>3 DEF AgentReads, AgentRecords, AgentStops
  <2>5. events' \in 0 .. MaxEvents
    BY <1>1, <1>5, Counted DEF AgentReads, AgentRecords, AgentStops
  <2>6. GuestOK'
    BY <2>3, <2>4 DEF GuestOK
  <2> QED
    BY <1>1, <1>4, <2>1, <2>2, <2>5, <2>6, ShareStep DEF history
<1>6. CASE Snapshot \/ Pause \/ Resume
  <2>1. status' \in Revisions
    BY <1>2, <1>6, RevisionsAreIntegers DEF Snapshot, Pause, Resume, ShownOK, numbers
  <2>2. ShownOK'
    BY <1>6, <2>1 DEF Snapshot, Pause, Resume, ShownOK, view, numbers
  <2>3. paused' \in BOOLEAN
    BY <1>6, Zenon DEF Snapshot, Pause, Resume, FlagsOK
  <2>4. events' \in 0 .. MaxEvents
    BY <1>1, <1>6, Counted DEF Snapshot, Pause, Resume
  <2> QED
    BY <1>6, <2>2, <2>3, <2>4, ShownStep DEF Snapshot, Pause, Resume
<1>7. CASE OtherWrites
  <2> DEFINE n == Highest({file.rev, applied.rev}) + 1
  <2>1. n \in Nat /\ n > applied.rev /\ n > file.rev
    BY <1>2, HighestOfTwo, RevisionsAreIntegers
  <2>2. PICK paths \in Selections : file' = [rev |-> n, sel |-> Canonical(paths)]
    BY <1>7 DEF OtherWrites
  <2> HIDE DEF n
  <2>3. file' \in Documents /\ file'.rev = n
    BY <2>1, <2>2, Canonicals DEF Revisions
  <2>4. SharedOK'
    BY <1>7, <2>3 DEF OtherWrites, SharedOK, agent
  <2>5. GuestOrdered' /\ UNCHANGED agent
    BY <1>7 DEF OtherWrites, GuestOK, GuestOrdered, Follows, agent
  <2>6. raced' = IF file.rev = NoRev /\ Unreported # {} THEN raced \cup {"file"} ELSE raced
    BY <1>7 DEF OtherWrites
  <2>7. NumberedAbove'
    <3>1. SUFFICES ASSUME "file" \notin raced'
                   PROVE  n > applied.rev /\ n > held.rev /\ n > taken.rev
      BY <2>3, <2>5 DEF NumberedAbove, Follows, agent
    <3>2. "file" \notin raced
      BY <2>6, <3>1
    <3>3. CASE file.rev # NoRev
      <4>1. /\ file.rev >= applied.rev /\ file.rev >= held.rev /\ file.rev >= taken.rev
        BY <1>2, <3>2, <3>3 DEF GuestOK, NumberedAbove, Follows
      <4> QED
        BY <1>2, <2>1, <4>1
    <3>4. CASE file.rev = NoRev
      <4>1. Unreported = {}
        BY <2>6, <3>1, <3>4
      <4>2. ~(taken.rev > applied.rev) /\ ~(held.rev > applied.rev)
        BY <4>1 DEF Unreported
      <4> QED
        BY <1>2, <2>1, <4>2
    <3> QED
      BY <3>3, <3>4
  <2>8. GuestOK'
    BY <2>5, <2>7 DEF GuestOK
  <2>9. raced' \in {raced, raced \cup {"file"}}
    BY <2>6
  <2> QED
    BY <1>1, <1>4, <1>7, <2>4, <2>8, <2>9, Counted, ShareStep DEF OtherWrites
<1>8. CASE FileReverted
  <2>1. PICK rev \in 0 .. file.rev - 1, paths \in Selections :
           file' = [rev |-> rev, sel |-> Canonical(paths)]
    BY <1>8 DEF FileReverted
  <2>2. rev \in Revisions
    BY <1>2, <2>1 DEF Revisions
  <2>3. SharedOK'
    BY <1>8, <2>1, <2>2, Canonicals DEF FileReverted, SharedOK, agent
  <2>4. GuestOrdered' /\ NumberedAbove'
    BY <1>8 DEF FileReverted, GuestOK, GuestOrdered, NumberedAbove, Follows, agent
  <2>5. GuestOK'
    BY <2>4 DEF GuestOK
  <2> QED
    BY <1>1, <1>4, <1>8, <2>3, <2>5, Counted, ShareStep DEF FileReverted
<1>9. CASE FileSpoiled
  <2>1. SharedOK'
    BY <1>3, <1>9 DEF FileSpoiled, SharedOK, agent
  <2>2. GuestOrdered' /\ NumberedAbove'
    BY <1>9, NothingIsADocument
    DEF FileSpoiled, GuestOK, GuestOrdered, NumberedAbove, Follows, agent
  <2>3. GuestOK'
    BY <2>2 DEF GuestOK
  <2> QED
    BY <1>1, <1>4, <1>9, <2>1, <2>3, Counted, ShareStep DEF FileSpoiled, history
<1>9a. CASE BackupSpoiled
  <2>1. UNCHANGED share /\ raced \subseteq raced' /\ kept' = FALSE
    BY <1>9a DEF BackupSpoiled
  <2>2. SharedOK'
    BY <1>3, <1>9a DEF BackupSpoiled, SharedOK, share, agent
  <2>3. GuestOK'
    BY <2>1, GuestStill
  <2>4. KeptThroughRebuild' /\ kept' \in BOOLEAN
    BY <2>1, Zenon DEF KeptThroughRebuild
  <2> QED
    BY <1>1, <1>9a, <2>2, <2>3, <2>4, Counted, ShareStep DEF BackupSpoiled
<1>10. CASE Rebuild
  <2>1. SharedOK' /\ GuestOK'
    BY <1>3, <1>10, NothingIsADocument, RevisionsAreIntegers
    DEF Rebuild, SharedOK, GuestOK, GuestOrdered, NumberedAbove, Follows
  <2>2. KeptThroughRebuild' /\ kept' \in BOOLEAN
    <3>1. kept' = (backup.rev > 0) /\ backup' = backup
      BY <1>10 DEF Rebuild
    <3>2. kept' \in BOOLEAN
      BY <3>1
    <3>3. KeptThroughRebuild'
      BY <3>1, Zenon DEF KeptThroughRebuild
    <3> QED
      BY <3>2, <3>3
  <2> QED
    BY <1>1, <1>10, <2>1, <2>2, Counted, ShareStep DEF Rebuild
<1>11. CASE Restart
  <2>1. job' = [j \in Jobs |-> Idle] /\ writing' = FALSE /\ paused' = TRUE
    BY <1>11 DEF Restart
  <2>2. JobsOK' /\ FlagHasWriter'
    BY <2>1, IdleIsSound DEF JobsOK, FlagHasWriter
  <2>3. SharedOK' /\ ShownOK'
    BY <1>3, <1>11, NothingIsADocument, RevisionsAreIntegers, EmptySeq
    DEF Restart, SharedOK, ShownOK, share, agent
  <2>4. events' \in 0 .. MaxEvents
    BY <1>11, Counted DEF Restart
  <2>5. FlagsOK'
    BY <1>11, <2>1, <2>4, Zenon DEF Restart, FlagsOK, history
  <2>6. GuestOK' /\ KeptThroughRebuild'
    <3>1. UNCHANGED share /\ raced \subseteq raced' /\ UNCHANGED <<raced, kept, backup>>
      BY <1>11 DEF Restart, history
    <3> QED
      BY <3>1, GuestStill, Zenon DEF KeptThroughRebuild
  <2> QED
    BY <2>2, <2>3, <2>5, <2>6, PartsAreAll, PTL
<1> QED
  BY <1>5, <1>6, <1>7, <1>8, <1>9, <1>9a, <1>10, <1>11 DEF World

-----------------------------------------------------------------------------
(* The theorems.                                                           *)

LEMMA Initially == Init => IInv
<1> SUFFICES ASSUME Init PROVE IInv
  OBVIOUS
<1>1. Nothing \in Documents /\ [rev |-> 0, sel |-> {}] \in Documents
  BY NothingIsADocument DEF Documents, Docs, Revisions
<1>2. SharedOK /\ ShownOK
  BY <1>1, NothingIsADocument, RevisionsAreIntegers, EmptySeq DEF Init, SharedOK, ShownOK
<1>3. FlagsOK
  <2>1. events \in 0 .. MaxEvents
    BY ExclusionsAssumption DEF Init
  <2> QED
    BY <2>1, Zenon DEF Init, FlagsOK
<1>4. JobsOK /\ FlagHasWriter
  BY IdleIsSound DEF Init, JobsOK, FlagHasWriter
<1>5. GuestOK /\ KeptThroughRebuild
  BY NothingIsADocument, RevisionsAreIntegers
  DEF Init, GuestOK, GuestOrdered, NumberedAbove, Follows, KeptThroughRebuild
<1> QED
  BY <1>2, <1>3, <1>4, <1>5, PartsAreAll

LEMMA Stutters ==
    ASSUME IInv, UNCHANGED vars
    PROVE  IInv'
<1>1. events' \in 0 .. MaxEvents /\ paused' \in BOOLEAN /\ ShownOK'
  BY Parts, Zenon DEF vars, view, numbers, FlagsOK, ShownOK
<1> QED
  BY <1>1, ShownStep DEF vars

LEMMA Inductive == Spec => []IInv
<1>1. IInv /\ [Next]_vars => IInv'
  <2> SUFFICES ASSUME IInv, [Next]_vars PROVE IInv'
    OBVIOUS
  <2>1. ASSUME NEW j \in Jobs, Work(j) PROVE IInv'
    BY <2>1, ReadingKeeps, WritingKeeps, BackupKeeps, PublishKeeps, EndsKeep DEF Work
  <2> QED
    BY <2>1, OperatorKeeps, WorldKeeps, Stutters, Zenon DEF Next
<1> QED
  BY <1>1, Initially, PTL DEF Spec

\* The documents stay well formed and canonical, the flag of a write in flight
\* is never left up by a write that has ended, and the guest refuses a readable
\* selection only after an unseen replacement.
THEOREM GuestIsNotStuck == Spec => []RefusedOnlyByRace
<1>1. IInv => RefusedOnlyByRace
  BY DEF IInv, GuestOK, NumberedAbove, Follows, RefusedOnlyByRace, Accepts
<1> QED
  BY <1>1, Inductive, PTL

\* The backup of a lost VM survives every automatic read.
THEOREM BackupSurvives == Spec => []KeptThroughRebuild
<1>1. IInv => KeptThroughRebuild
  BY DEF IInv
<1> QED
  BY <1>1, Inductive, PTL

\* For the guest, the file, the window, its workers, the operator and every
\* other writer together do nothing but propose; the guest goes only forward.
THEOREM ImplementsGuest == Spec => GuestOnlyForward
<1>1. Init => Guest!Init
  BY Z3 DEF Init, Guest!Init, Guest!Documents, Guest!Beginnings, Guest!NoRevision, Nothing,
     NoRev, Selections, Unreported
<1>2. IInv /\ IInv' /\ [Next]_vars => [Guest!Next]_(Guest!vars)
  <2> SUFFICES ASSUME IInv, IInv', [Next]_vars PROVE [Guest!Next]_(Guest!vars)
    OBVIOUS
  <2>1. /\ file' \in Docs /\ Nothing \in Docs /\ Nothing.rev = NoRev /\ NoRev \in Int
        /\ \A doc \in {applied, held, taken} :
              doc \in Docs /\ doc.rev \in Int /\ doc.rev >= NoRev
    BY NothingIsADocument, RevisionsAreIntegers DEF IInv, TypeOK, Docs
  <2>2. Guest!Documents = Docs /\ Nothing \in Guest!Beginnings
    BY <2>1 DEF Guest!Documents, Guest!Beginnings, Guest!NoRevision, Docs, Revisions, NoRev
  <2>3. GuestOrdered
    BY DEF IInv, GuestOK
  <2>4. UNCHANGED agent => [Guest!Next]_(Guest!vars)
    BY <2>1, <2>2 DEF Guest!Next, Guest!Propose, agent, Unreported
  <2>5. AgentReads => [Guest!Next]_(Guest!vars)
    BY DEF AgentReads, Guest!Next, Guest!Take, Unreported
  <2>6. AgentRecords => [Guest!Next]_(Guest!vars)
    <3> SUFFICES ASSUME AgentRecords PROVE [Guest!Next]_(Guest!vars)
      OBVIOUS
    <3>1. held' = taken /\ taken' = Nothing /\ file' = file /\ applied' \in {applied, taken}
      BY DEF AgentRecords
    <3>2. CASE applied' = applied
      <4>1. Unreported' \subseteq Unreported
        BY <2>1, <3>1, <3>2 DEF Unreported
      <4> QED
        BY <3>1, <3>2, <4>1 DEF Guest!Next, Guest!Take
    <3>3. CASE applied' = taken /\ taken.rev > applied.rev
      <4>1. taken \in Unreported /\ Unreported' = {}
        BY <2>1, <3>1, <3>3 DEF Unreported
      <4> QED
        BY <3>1, <3>3, <4>1 DEF Guest!Next, Guest!Enforce
    <3>4. CASE applied' = taken /\ ~(taken.rev > applied.rev)
      <4>1. taken = applied
        BY <2>1, <2>3, <3>4 DEF GuestOrdered, Follows, AgentRecords
      <4> QED
        BY <3>1, <3>2, <3>4, <4>1
    <3> QED
      BY <3>1, <3>2, <3>3, <3>4
  <2>7. AgentStops => [Guest!Next]_(Guest!vars)
    <3> SUFFICES ASSUME AgentStops PROVE [Guest!Next]_(Guest!vars)
      OBVIOUS
    <3>1. taken' = Nothing /\ file' = file
      BY DEF AgentStops
    <3>2. CASE applied' = applied /\ held' \in {held, applied}
      <4>1. Unreported' \subseteq Unreported
        BY <2>1, <3>1, <3>2 DEF Unreported
      <4> QED
        BY <3>1, <3>2, <4>1 DEF Guest!Next, Guest!Take
    <3>3. CASE applied' = held /\ held' = held /\ held.rev > applied.rev
      <4>1. held \in Unreported /\ Unreported' = {}
        BY <2>1, <3>1, <3>3 DEF Unreported
      <4> QED
        BY <3>1, <3>3, <4>1 DEF Guest!Next, Guest!Enforce
    <3>4. CASE applied' = Nothing /\ held' = Nothing
      <4>1. Unreported' = {}
        BY <2>1, <3>1, <3>4 DEF Unreported
      <4> QED
        BY <2>2, <3>1, <3>4, <4>1 DEF Guest!Next, Guest!Forget
    <3>5. ~(held.rev > applied.rev) => held = applied
      BY <2>1, <2>3 DEF GuestOrdered, Follows
    <3> QED
      BY <3>2, <3>3, <3>4, <3>5 DEF AgentStops
  <2>8. Rebuild => [Guest!Next]_(Guest!vars)
    <3> SUFFICES ASSUME Rebuild PROVE [Guest!Next]_(Guest!vars)
      OBVIOUS
    <3>1. Unreported' = {}
      BY <2>1 DEF Rebuild, Unreported
    <3> QED
      BY <2>1, <2>2, <3>1 DEF Rebuild, Guest!Next, Guest!NewGuest
  <2>9. ASSUME NEW j \in Jobs, Work(j) PROVE UNCHANGED agent
    BY <2>9 DEF Work, Read, Look, Replace, ReadDone, ReadFailed, Load, Preview, Reread, Publish,
       PublishFails, WriteDone, WriteFailed, Warned, share
  <2>10. Operator => UNCHANGED agent
    BY DEF Operator, Exclude, Include, Apply, Decline, Reload, Restore, Confirm, share
  <2>11. World => AgentReads \/ AgentRecords \/ AgentStops \/ Rebuild \/ UNCHANGED agent
    BY DEF World, Snapshot, Pause, Resume, OtherWrites, FileReverted, FileSpoiled,
       BackupSpoiled, Restart, share
  <2>12. UNCHANGED vars => UNCHANGED agent
    BY DEF vars, share
  <2> QED
    BY <2>4, <2>5, <2>6, <2>7, <2>8, <2>9, <2>10, <2>11, <2>12 DEF Next
<1> QED
  BY <1>1, <1>2, Inductive, PTL DEF Spec, GuestOnlyForward, Guest!Spec

=============================================================================
