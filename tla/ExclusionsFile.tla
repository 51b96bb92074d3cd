--------------------------- MODULE ExclusionsFile ---------------------------
(***************************************************************************)
(* exclusions.json, the one document that both sides of the bridge write   *)
(* about and that nobody locks, and the private backup of it on the host.  *)
(*                                                                         *)
(* gui/icloud_bridge_gui/window.py loads it, stages edits, asks, and       *)
(* replaces it from a worker (bridge.write_exclusions: read again, compare *)
(* the revision, number the new document, rename it into place); every     *)
(* read and every write also saves the backup (backup.save), and Restore   *)
(* writes the backup back.  A question is a modal dialog with an event     *)
(* loop of its own: results of workers are handled under it.  The pool     *)
(* runs several workers at once.                                           *)
(*                                                                         *)
(* Around it: the guest agent that enforces the document, other writers of *)
(* the share, a VM that is built anew, and the end of the app at any step. *)
(***************************************************************************)
EXTENDS Integers, Sequences

CONSTANTS
    Items,      \* the paths that can be excluded
    Inside,     \* pairs <<p, q>>: p lies below the folder q
    Jobs,       \* the workers of the pool
    MaxRev,     \* bound: revisions
    MaxEvents   \* bound: what the operator and the world do

ASSUME ExclusionsAssumption ==
    /\ Inside \subseteq Items \X Items
    /\ MaxRev \in Nat /\ MaxEvents \in Nat

NoRev == -1                 \* no valid revision; next_revision starts there
Selections == SUBSET Items
Revisions == Nat \cup {NoRev}
Docs == [rev : Revisions, sel : Selections]
Nothing == [rev |-> NoRev, sel |-> {}]      \* missing, or not to be validated

VARIABLES
    file,       \* exclusions.json
    backup,     \* exclusions-backup.json on the host
    applied,    \* what the agent's status reports: $script:AppliedRevision
    held,       \* appliedRevision and wantedHash in the agent's private state
    taken,      \* what the agent's pass has read and not yet recorded
    paused,     \* _io_paused; the D35 gate only withholds Apply and Restore
    loaded,     \* _loaded_revision and _loaded_wanted
    wanted,     \* _wanted: loaded, with the staged edits
    status,     \* appliedRevision in the last health snapshot
    written,    \* _last_written_revision
    writing,    \* _apply_writing
    dialogs,    \* the open questions, the innermost last
    job,        \* what each worker is doing
    raced,      \* history: what of "file" and "backup" was replaced unseen
    kept,       \* history: the backup has outlived the VM it was taken from
    events

agent == <<applied, held, taken>>
share == <<file, agent>>
view == <<loaded, wanted>>
numbers == <<status, written>>
history == <<raced, kept>>
vars == <<share, backup, paused, view, numbers, writing, dialogs, job, history, events>>

-----------------------------------------------------------------------------
(* Selections and revisions.                                               *)

\* canonicalize: the minimal antichain, what lies in an excluded folder dropped.
Canonical(paths) == {p \in paths : \A q \in paths : <<p, q>> \notin Inside}

Dirty == wanted # loaded.sel

Highest(numbered) == CHOOSE n \in numbered : \A m \in numbered : m <= n

\* Mutant: only what is on the share is counted from.
NextOfFirst(current, floor) == current + 1

\* next_revision: one more than any that has been seen.
NextRevision(current, floor) == Highest({current, floor}) + 1

Idle == [at |-> "idle", doc |-> Nothing, base |-> NoRev, seen |-> Nothing,
         expect |-> NoRev, floor |-> NoRev, source |-> "read"]

Happens == events < MaxEvents /\ events' = events + 1

Becomes(j, task) == job' = [job EXCEPT ![j] = task]
Begin(j, task) == job[j] = Idle /\ Becomes(j, task)
Go(j, place) == Becomes(j, [job[j] EXCEPT !.at = place])
End(j) == Becomes(j, Idle)

-----------------------------------------------------------------------------
(* Reading, with the backup that every read saves.                         *)

StartRead(j) == Begin(j, [Idle EXCEPT !.at = "read"])

\* The button, or a new tree in a health snapshot while nothing is staged.
Reload(j) ==
    /\ Happens
    /\ ~paused
    /\ dialogs = <<>> \/ ~Dirty
    /\ StartRead(j)
    /\ UNCHANGED <<share, backup, paused, view, numbers, writing, dialogs, history>>

\* read_exclusions: a document that is missing or malformed is an error, and
\* so is a share that does not answer.
Read(j) ==
    /\ job[j].at = "read"
    /\ \/ /\ file.rev # NoRev
          /\ Becomes(j, [job[j] EXCEPT !.at = "look", !.doc = file])
       \/ Go(j, "failed")
    /\ UNCHANGED <<share, backup, paused, view, numbers, writing, dialogs, history, events>>

\* Mutant: a read replaces whatever backup there is.
SavesAnyway(doc, source) == doc # backup

\* save: an Apply replaces any other backup, a read only moves it forward (a
\* lower revision is a rebuilt VM, the same with other content a conflict).
Saves(doc, source) ==
    /\ doc # backup
    /\ source = "read" => doc.rev > backup.rev

\* The existing backup is loaded and the rules are applied to it; a local
\* failure is a second result and changes nothing else.
Look(j) ==
    /\ job[j].at = "look"
    /\ \/ /\ Saves(job[j].doc, job[j].source)
          /\ Becomes(j, [job[j] EXCEPT !.at = "replace", !.seen = backup])
       \/ Go(j, "done")
    /\ UNCHANGED <<share, backup, paused, view, numbers, writing, dialogs, history, events>>

Replace(j) ==
    /\ job[j].at = "replace"
    /\ backup' = job[j].doc
    /\ raced' = IF backup = job[j].seen THEN raced ELSE raced \cup {"backup"}
    /\ kept' = (kept /\ job[j].source = "read")
    /\ Go(j, "done")
    /\ UNCHANGED <<share, paused, view, numbers, writing, dialogs, events>>

\* Staged edits are gone, also those made since the read began.
ReadDone(j) ==
    /\ job[j].at = "done" /\ job[j].source = "read"
    /\ loaded' = job[j].doc
    /\ wanted' = job[j].doc.sel
    /\ End(j)
    /\ UNCHANGED <<share, backup, paused, numbers, writing, dialogs, history, events>>

\* Fail closed: there is no selection to show, and no revision to expect.
ReadFailed(j) ==
    /\ job[j].at = "failed" /\ job[j].source = "read"
    /\ loaded' = Nothing
    /\ wanted' = {}
    /\ End(j)
    /\ UNCHANGED <<share, backup, paused, numbers, writing, dialogs, history, events>>

-----------------------------------------------------------------------------
(* The tree's check boxes.                                                 *)

\* Unchecked: it subsumes any exclusion inside it.
Exclude(p) ==
    /\ Happens
    /\ ~paused /\ dialogs = <<>>
    /\ wanted' = {q \in wanted : <<q, p>> \notin Inside} \cup {p}
    /\ UNCHANGED <<share, backup, paused, loaded, numbers, writing, dialogs, job, history>>

\* Checked: its own exclusion goes, or, when asked, all those inside it.  Also
\* "Remove exclusion" of an item that exists no more.
Include(p) ==
    /\ Happens
    /\ ~paused /\ dialogs = <<>>
    /\ wanted' = IF p \in wanted THEN wanted \ {p}
                 ELSE {q \in wanted : <<q, p>> \notin Inside}
    /\ wanted' # wanted
    /\ UNCHANGED <<share, backup, paused, loaded, numbers, writing, dialogs, job, history>>

-----------------------------------------------------------------------------
(* Apply and Restore.                                                      *)

Ask(question) == dialogs' = Append(dialogs, question)

\* The button is there for a dirty selection over a readable configuration,
\* whether or not an earlier write is still going on.
Apply ==
    /\ Happens
    /\ dialogs = <<>>
    /\ ~paused /\ loaded.rev # NoRev /\ Dirty
    /\ Canonical(wanted) # loaded.sel
    /\ Ask([sel |-> Canonical(wanted), base |-> loaded.rev, least |-> NoRev])
    /\ UNCHANGED <<share, backup, paused, view, numbers, writing, job, history>>

\* _can_restore, and a worker that loads the backup.
Restore(j) ==
    /\ Happens
    /\ dialogs = <<>>
    /\ ~paused /\ ~writing /\ loaded.rev # NoRev /\ ~Dirty
    /\ Begin(j, [Idle EXCEPT !.at = "load"])
    /\ UNCHANGED <<share, backup, paused, view, numbers, writing, dialogs, history>>

\* A backup that is missing or unreadable is an error, never an empty list.
Load(j) ==
    /\ job[j].at = "load"
    /\ IF backup.rev = NoRev THEN End(j)
       ELSE Becomes(j, [job[j] EXCEPT !.at = "loaded", !.doc = backup])
    /\ UNCHANGED <<share, backup, paused, view, numbers, writing, dialogs, history, events>>

\* The preview is against what is loaded by now.
Preview(j) ==
    /\ job[j].at = "loaded"
    /\ IF job[j].doc.sel = loaded.sel THEN UNCHANGED dialogs
       ELSE Ask([sel |-> job[j].doc.sel, base |-> loaded.rev, least |-> job[j].doc.rev])
    /\ End(j)
    /\ UNCHANGED <<share, backup, paused, view, numbers, writing, history, events>>

Innermost == dialogs[Len(dialogs)]
Close == dialogs' = SubSeq(dialogs, 1, Len(dialogs) - 1)

Decline ==
    /\ dialogs # <<>>
    /\ Close
    /\ UNCHANGED <<share, backup, paused, view, numbers, writing, job, history, events>>

\* What the write expects, and must exceed, is taken after the answer; the
\* gate and the loaded document are not looked at again.
Confirm(j) ==
    /\ dialogs # <<>>
    /\ Close
    /\ writing' = TRUE
    /\ Begin(j, [Idle EXCEPT !.at = "reread", !.source = "apply",
                             !.doc = [rev |-> NoRev, sel |-> Innermost.sel],
                             !.base = Innermost.base, !.expect = loaded.rev,
                             !.floor = Highest({status, written, Innermost.least})])
    /\ UNCHANGED <<share, backup, paused, view, numbers, history, events>>

WriteFails(j) == Becomes(j, [Idle EXCEPT !.at = "failed", !.source = "apply"])

\* write_exclusions, as far as the number of the new document.  A file that
\* cannot be read is only tolerable to a caller who expects none.
Reread(j) ==
    /\ job[j].at = "reread"
    /\ \/ \E seen \in {file, Nothing} :
             /\ job[j].expect \in {NoRev, seen.rev}
             /\ seen.rev = NoRev => job[j].expect = NoRev
             /\ NextRevision(seen.rev, job[j].floor) <= MaxRev
             /\ Becomes(j, [job[j] EXCEPT !.at = "publish", !.seen = seen, !.expect = NoRev,
                                !.doc = [rev |-> NextRevision(seen.rev, job[j].floor),
                                         sel |-> job[j].doc.sel]])
       \/ /\ job[j].expect # NoRev
          /\ WriteFails(j)
    /\ UNCHANGED <<share, backup, paused, view, numbers, writing, dialogs, history, events>>

\* What is about to be replaced is what the worker has read again, and what the
\* operator was shown the changes against.
Shown(j) == file = job[j].seen /\ file.rev = job[j].base /\ file.rev # NoRev

\* os.replace: all of the new document or none of it, over whatever is there.
Publish(j) ==
    /\ job[j].at = "publish"
    /\ file' = job[j].doc
    /\ raced' = IF ~Shown(j) THEN raced \cup {"file"}
                ELSE IF \A doc \in {applied, held, taken} : job[j].floor >= doc.rev
                     THEN raced \ {"file"} ELSE raced
    /\ Becomes(j, [Idle EXCEPT !.at = "look", !.source = "apply", !.doc = job[j].doc])
    /\ UNCHANGED <<agent, backup, paused, view, numbers, writing, dialogs, kept, events>>

PublishFails(j) ==
    /\ job[j].at = "publish"
    /\ WriteFails(j)
    /\ UNCHANGED <<share, backup, paused, view, numbers, writing, dialogs, history, events>>

WriteDone(j) ==
    /\ job[j].at = "done" /\ job[j].source = "apply"
    /\ writing' = FALSE
    /\ written' = job[j].doc.rev
    /\ loaded' = job[j].doc
    /\ wanted' = job[j].doc.sel
    /\ End(j)
    /\ UNCHANGED <<share, backup, paused, status, dialogs, history, events>>

\* The failure is told in a dialog; the reload comes after it.
WriteFailed(j) ==
    /\ job[j].at = "failed" /\ job[j].source = "apply"
    /\ writing' = FALSE
    /\ Go(j, "warn")
    /\ UNCHANGED <<share, backup, paused, view, numbers, dialogs, history, events>>

Warned(j) ==
    /\ job[j].at = "warn"
    /\ Becomes(j, IF paused THEN Idle ELSE [Idle EXCEPT !.at = "read"])
    /\ UNCHANGED <<share, backup, paused, view, numbers, writing, dialogs, history, events>>

-----------------------------------------------------------------------------
(* The guest and the rest of the world.                                    *)

\* Mutant: the guest enforces whatever it finds.
AcceptsAny(doc) == doc.rev # NoRev

\* Invoke-EnforcementPass: malformed, lower, or the same number with other
\* content is refused, and everything stays as it is.
Accepts(doc) == doc.rev # NoRev /\ (doc.rev > held.rev \/ doc = held)

\* A pass reads the document once, and works on access lists after that.  A pass
\* over what is recorded and reported already changes nothing here.
AgentReads ==
    /\ taken = Nothing
    /\ Accepts(file) /\ file # applied
    /\ taken' = file
    /\ UNCHANGED <<file, applied, held, backup, paused, view, numbers, writing, dialogs, job,
                   history, events>>

\* The pass records what it has read; only a record that is saved is reported.
AgentRecords ==
    /\ taken # Nothing
    /\ held' = taken /\ taken' = Nothing
    /\ \/ applied' = taken /\ UNCHANGED events
       \/ Happens /\ UNCHANGED applied
    /\ UNCHANGED <<file, backup, paused, view, numbers, writing, dialogs, job, history>>

\* The pass throws, or the agent ends and starts from what was saved, reported
\* or not, or from nothing when that is lost.
AgentStops ==
    /\ Happens
    /\ taken' = Nothing
    /\ \/ UNCHANGED <<applied, held>>
       \/ applied' \in {applied, held, Nothing} /\ held' = applied'
    /\ UNCHANGED <<file, backup, paused, view, numbers, writing, dialogs, job, history>>

\* A health snapshot: the agent's report, or none.
Snapshot ==
    /\ ~paused
    /\ status' \in {applied.rev, NoRev}
    /\ UNCHANGED <<share, backup, paused, view, written, writing, dialogs, job, history, events>>

\* The lifecycle pauses and resumes bridge I/O.
Pause ==
    /\ Happens
    /\ ~paused /\ paused' = TRUE
    /\ UNCHANGED <<share, backup, view, numbers, writing, dialogs, job, history>>

Resume ==
    /\ paused /\ paused' = FALSE
    /\ UNCHANGED <<share, backup, view, numbers, writing, dialogs, job, history, events>>

\* What the guest has read and does not report yet.
Unreported == {doc \in {taken, held} : doc.rev > applied.rev}

\* Another writer, which counts up as the documentation tells it to; over a
\* document that cannot be read, only from the report.
OtherWrites ==
    /\ Happens
    /\ file' \in {[rev |-> Highest({file.rev, applied.rev}) + 1, sel |-> Canonical(paths)] :
                      paths \in Selections}
    /\ file'.rev <= MaxRev
    /\ raced' = IF file.rev = NoRev /\ Unreported # {} THEN raced \cup {"file"} ELSE raced
    /\ UNCHANGED <<agent, backup, paused, view, numbers, writing, dialogs, job, kept>>

\* An older document is put back by hand, under its old number.
FileReverted ==
    /\ Happens
    /\ \E rev \in 0 .. file.rev - 1, paths \in Selections :
          file' = [rev |-> rev, sel |-> Canonical(paths)]
    /\ raced' = raced \cup {"file"}
    /\ UNCHANGED <<agent, backup, paused, view, numbers, writing, dialogs, job, kept>>

FileSpoiled ==
    /\ Happens
    /\ file' = Nothing
    /\ UNCHANGED <<agent, backup, paused, view, numbers, writing, dialogs, job, history>>

\* The backup is lost, or is there and cannot be read: the rules find none.
BackupSpoiled ==
    /\ Happens
    /\ backup # Nothing /\ backup' = Nothing
    /\ kept' = FALSE
    /\ UNCHANGED <<share, paused, view, numbers, writing, dialogs, job, raced>>

\* A VM built anew: provisioning writes revision 0 with nothing excluded.
Rebuild ==
    /\ Happens
    /\ file' = [rev |-> 0, sel |-> {}]
    /\ applied' = Nothing /\ held' = Nothing /\ taken' = Nothing
    /\ kept' = (backup.rev > 0)
    /\ UNCHANGED <<backup, paused, view, numbers, writing, dialogs, job, raced>>

\* The app ends, or is ended, between any two steps, and starts again.
Restart ==
    /\ Happens
    /\ paused' = TRUE
    /\ loaded' = Nothing /\ wanted' = {}
    /\ status' = NoRev /\ written' = NoRev
    /\ writing' = FALSE
    /\ dialogs' = <<>>
    /\ job' = [j \in Jobs |-> Idle]
    /\ UNCHANGED <<share, backup, history>>

-----------------------------------------------------------------------------
Init ==
    /\ file = [rev |-> 0, sel |-> {}]
    /\ backup = Nothing /\ applied = Nothing /\ held = Nothing /\ taken = Nothing
    /\ paused = TRUE
    /\ loaded = Nothing /\ wanted = {}
    /\ status = NoRev /\ written = NoRev
    /\ writing = FALSE
    /\ dialogs = <<>>
    /\ job = [j \in Jobs |-> Idle]
    /\ raced = {} /\ kept = FALSE /\ events = 0

Work(j) ==
    \/ Read(j) \/ Look(j) \/ Replace(j) \/ ReadDone(j) \/ ReadFailed(j)
    \/ Load(j) \/ Preview(j)
    \/ Reread(j) \/ Publish(j) \/ PublishFails(j)
    \/ WriteDone(j) \/ WriteFailed(j) \/ Warned(j)

Operator ==
    \/ \E p \in Items : Exclude(p) \/ Include(p)
    \/ Apply \/ Decline
    \/ \E j \in Jobs : Reload(j) \/ Restore(j) \/ Confirm(j)

World ==
    \/ AgentReads \/ AgentRecords \/ AgentStops \/ Snapshot \/ Pause \/ Resume
    \/ OtherWrites \/ FileReverted \/ FileSpoiled \/ BackupSpoiled
    \/ Rebuild \/ Restart

Next == (\E j \in Jobs : Work(j)) \/ Operator \/ World

Spec == Init /\ [][Next]_vars

-----------------------------------------------------------------------------
Places == {"idle", "read", "look", "replace", "done", "failed", "load", "loaded",
           "reread", "publish", "warn"}
Tasks == [at : Places, doc : Docs, base : Revisions, seen : Docs, expect : Revisions,
          floor : Revisions, source : {"read", "apply"}]

\* The types; what is on the share, in the backup and enforced is canonical,
\* and the flag of a write in flight is up only while one is.
TypeOK ==
    /\ \A doc \in {file, backup, applied, held, taken, loaded} :
          doc \in Docs /\ Canonical(doc.sel) = doc.sel
    /\ wanted \in Selections
    /\ paused \in BOOLEAN
    /\ status \in Revisions /\ written \in Revisions
    /\ dialogs \in Seq([sel : Selections, base : Revisions, least : Revisions])
    /\ job \in [Jobs -> Tasks]
    /\ writing \in BOOLEAN /\ raced \subseteq {"file", "backup"} /\ kept \in BOOLEAN
    /\ writing => \E j \in Jobs : job[j].source = "apply" /\ job[j].at # "warn"
    /\ events \in 0 .. MaxEvents

\* The guest refuses a readable document only if somebody has replaced one
\* without having seen it, or put an old one back: neither a restart that forgets
\* the last write, a stale or missing health report, a save that the agent could
\* not make, a rebuilt VM, a restored backup nor other writers that count up make
\* the window number a selection so that the agent's monotonic guard stops it.
\* And from there a write that knows what the guest has read, over the document
\* that was shown, recovers: "the GUI's conflict check and monotonic increment
\* are the normal recovery path" (plan-gui-selective-sync.md 314).
\* The types, and that no write that has ended leaves its flag up, come first.
RefusedOnlyByRace ==
    /\ TypeOK
    /\ ("file" \notin raced /\ file.rev # NoRev) => Accepts(file)

\* D36, "the whole point": the backup of a VM that was lost is not replaced by
\* what a new VM begins with, however many reads there are, until the operator
\* confirms a write.  Two saves that overlap are excepted: the rules are applied
\* to a backup that another worker then replaces.  So is a backup that cannot be
\* read, which the next read replaces (_load_quietly).
KeptThroughRebuild == kept /\ "backup" \notin raced => backup.rev > 0

\* The guest's view is an implementation of GuestSelection.
Guest == INSTANCE GuestSelection
         WITH Selections <- Selections, proposed <- file, pending <- Unreported,
              enforced <- applied
GuestOnlyForward == Guest!Spec

=============================================================================
