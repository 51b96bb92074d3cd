---------------------- MODULE GuestProvisioning_proofs ----------------------
(***************************************************************************)
(* Provisioning, for any number of runs and of interruptions: no run is    *)
(* executed twice, takes the password of another, or is called done that   *)
(* is not, and a VM that is half made is known to be.                      *)
(***************************************************************************)
EXTENDS GuestProvisioning, TLAPS

USE DEF vm

(* The inductive invariant.                                                *)

Ids == Runs \union {NoRun}
Modes == {"first", "re"}

Creating == {"creating", "composing", "created"}
Preparing == {"intent", "probe"}
Staging == {"record", "channel", "check", "reset", "copy", "trigger"}
Sending == {"ask", "test", "send"}
JobSteps == {"none"} \union Creating \union Preparing \union Staging \union Sending

StatusPhases == Working \union {"absent", "done"}
Documents == [run: Ids, phase: StatusPhases, failed: BOOLEAN]
Outcomes == {"none", "failed", "done"}
RecordPhases == {"absent", "creating", "provisioning", "staging", "triggered"}

Apps == [phase: Phases, mode: Modes, run: Ids, following: BOOLEAN,
         seen: StatusPhases, sent: BOOLEAN, outcome: Outcomes, offer: BOOLEAN, verify: BOOLEAN,
         absent: BOOLEAN, gone: BOOLEAN]
Jobs == [next: JobSteps, run: Ids, live: BOOLEAN]
Polls == [run: Ids, live: BOOLEAN, doc: Documents]

Inboxes == [there: BOOLEAN, payload: BOOLEAN, trigger: Ids, secret: Ids]
Records == [phase: RecordPhases, run: Ids, mode: Modes, boot: Nat]

Switches ==
    /\ container \in BOOLEAN /\ orphan \in BOOLEAN /\ channel \in BOOLEAN
    /\ connected \in BOOLEAN /\ forgotten \in BOOLEAN

\* What each of the other variables is made of.
Shapes ==
    /\ boot \in Nat \ {0} /\ minted \in 0 .. MaxRuns
    /\ inbox \in Inboxes
    /\ accepted \in Ids /\ status \in Documents
    /\ exec \in [run: Ids, step: Working \union {"idle", "copying"}]
    /\ record \in Records
    /\ app \in Apps /\ job \in Jobs /\ poll \in Polls
    /\ cleaning \subseteq [run: Runs, checked: BOOLEAN]
    /\ ran \subseteq Runs /\ finished \subseteq ran
    /\ exec.run \in Runs <=> exec.step # "idle"
    /\ record.run # NoRun => record.phase \in {"staging", "triggered"}

\* The host deals with the newest run only: its record, the run the app follows
\* and the one its worker stages are that one, or none.
Newest ==
    /\ record.run \in {NoRun, minted} /\ app.run \in {NoRun, minted}
    /\ job.run \in {NoRun, minted}
    /\ job.next \in Staging \union Sending => job.run = minted /\ minted # NoRun
    /\ job.next \in Preparing /\ job.run = NoRun => minted < MaxRuns
    /\ job.next = "probe" => record.run = NoRun

\* What the guest has accepted only grows, and what it has not it never ran.
Accepted ==
    /\ accepted \leq minted /\ inbox.trigger \leq minted /\ exec.run \leq minted
    /\ status.run = accepted \/ (status.failed /\ status.phase = "working")
    /\ \A r \in ran : r \leq accepted
    /\ inbox.trigger # NoRun => accepted \leq inbox.trigger
    /\ exec.step = "copying" =>
          /\ accepted < exec.run
          /\ inbox.trigger # NoRun => exec.run \leq inbox.trigger
    /\ exec.step \notin {"idle", "copying"} => exec.run = accepted /\ exec.run \in ran

\* A secret is for the run the guest has accepted, or else left from a run
\* before, and then no trigger has been written since.
Secrets ==
    /\ inbox.secret \leq accepted
    /\ job.next \in {"test", "send"} => job.run = accepted
    /\ job.next \in {"copy", "trigger"} => inbox.secret = NoRun
    /\ inbox.trigger # NoRun /\ inbox.secret # NoRun => inbox.trigger \leq inbox.secret
    /\ exec.step = "copying" => inbox.secret = NoRun
    /\ exec.step # "idle" => inbox.secret \in {NoRun, accepted}

\* The workers that are still listened to fit what the app is doing.
Workers ==
    /\ job.live => app.phase \in {"setup", "provisioning"}
    /\ job.next \in Creating => app.phase = "setup"
    /\ job.live /\ job.next \in Preparing \union Staging =>
          app.phase = "provisioning" /\ app.outcome = "none" /\ ~poll.live /\ ~app.following
    /\ job.live /\ job.next \in Staging => app.run = job.run
    /\ poll.live => app.phase = "provisioning" /\ poll.run = app.run
    /\ app.following => app.phase = "provisioning" /\ app.run \in Runs

\* A document that says done is right about it.
Honest(doc) == doc.phase = "done" /\ ~doc.failed => doc.run \in finished

\* A VM is recorded before it is made, and the record kept until it was connected
\* to, unless it is discarded.
Remembered ==
    /\ (container \/ orphan \/ job.next = "composing") /\ ~connected =>
          record # NoRecord \/ forgotten
    /\ app.phase = "away" \/ app.mode = "re" \/ app.verify \/ record.mode = "re" =>
          connected \/ forgotten
    /\ app.phase = "setup" => app.mode = "first" /\ ~app.verify

IInv ==
    /\ Switches /\ Shapes /\ Newest /\ Accepted /\ Secrets /\ Workers
    /\ Honest(status) /\ Honest(poll.doc) /\ Remembered

-----------------------------------------------------------------------------
(* What an action leaves alone.                                            *)

LEMMA Frames ==
    ASSUME IInv
    PROVE  /\ UNCHANGED <<container, orphan, channel, connected, forgotten>> => Switches'
           /\ UNCHANGED <<record, app, job, minted>> => Newest'
           /\ UNCHANGED <<accepted, minted, inbox, exec, status, ran>> => Accepted'
           /\ UNCHANGED <<inbox, accepted, job, exec>> => Secrets'
           /\ UNCHANGED <<job, app, poll>> => Workers'
           /\ UNCHANGED <<status, finished>> => Honest(status)'
           /\ UNCHANGED <<poll, finished>> => Honest(poll.doc)'
           /\ UNCHANGED <<container, orphan, connected, forgotten, record, job, app>> => Remembered'
<1>1. UNCHANGED <<container, orphan, channel, connected, forgotten>> => Switches'
  BY DEF IInv, Switches
<1>2. UNCHANGED <<record, app, job, minted>> => Newest'
  BY DEF IInv, Newest
<1>3. UNCHANGED <<accepted, minted, inbox, exec, status, ran>> => Accepted'
  BY DEF IInv, Accepted
<1>4. UNCHANGED <<inbox, accepted, job, exec>> => Secrets'
  BY DEF IInv, Secrets
<1>5. UNCHANGED <<job, app, poll>> => Workers'
  BY DEF IInv, Workers
<1>6. UNCHANGED <<status, finished>> => Honest(status)'
  BY DEF IInv, Honest
<1>7. UNCHANGED <<poll, finished>> => Honest(poll.doc)'
  BY DEF IInv, Honest
<1>8. UNCHANGED <<container, orphan, connected, forgotten, record, job, app>> => Remembered'
  BY DEF IInv, Remembered
<1> QED
  BY <1>1, <1>2, <1>3, <1>4, <1>5, <1>6, <1>7, <1>8

-----------------------------------------------------------------------------
(* What the operators make of the records.                                 *)

LEMMA InIs ==
    ASSUME NEW p \in Phases
    PROVE  /\ In(p) \in Apps /\ In(p).phase = p /\ In(p).mode = "first"
           /\ In(p).run = NoRun /\ In(p).following = FALSE /\ In(p).verify = FALSE
           /\ In(p).outcome = "none"
<1>1. /\ Closed \in Apps /\ Closed.mode = "first" /\ Closed.run = NoRun
      /\ Closed.following = FALSE /\ Closed.verify = FALSE /\ Closed.outcome = "none"
  BY DEF Closed, Apps, Phases, Modes, Ids, StatusPhases, Outcomes
<1> QED
  BY <1>1 DEF In, Apps

LEMMA JobIs ==
    /\ \A next \in JobSteps, run \in Ids :
          /\ Job(next, run) \in Jobs /\ Job(next, run).next = next
          /\ Job(next, run).run = run /\ Job(next, run).live = TRUE
    /\ NoJob \in Jobs /\ NoJob.next = "none" /\ NoJob.run = NoRun /\ NoJob.live = FALSE
    /\ \A j \in Jobs :
          /\ Superseded(j) \in Jobs /\ Superseded(j).next = j.next
          /\ Superseded(j).run = j.run /\ Superseded(j).live = FALSE
BY DEF Job, NoJob, Superseded, Jobs, JobSteps, Ids

LEMMA PollIs ==
    \A p \in Polls :
       /\ Superseded(p) \in Polls /\ Superseded(p).doc = p.doc
       /\ Superseded(p).run = p.run /\ Superseded(p).live = FALSE
BY DEF Superseded, Polls

LEMMA RecordIs ==
    /\ \A phase \in RecordPhases \ {"absent"}, run \in Ids, mode \in Modes, b \in Nat :
          /\ Record(phase, run, mode, b) \in Records
          /\ Record(phase, run, mode, b).phase = phase
          /\ Record(phase, run, mode, b).run = run
          /\ Record(phase, run, mode, b).mode = mode
          /\ Record(phase, run, mode, b) # NoRecord
    /\ NoRecord \in Records /\ NoRecord.run = NoRun /\ NoRecord.mode = "first"
    /\ NoRecord.phase = "absent"
BY DEF Record, NoRecord, Records, RecordPhases, Modes, Ids

LEMMA InboxIs ==
    /\ NoInbox \in Inboxes /\ NoInbox.trigger = NoRun /\ NoInbox.secret = NoRun
    /\ EmptyInbox \in Inboxes /\ EmptyInbox.trigger = NoRun /\ EmptyInbox.secret = NoRun
<1>1. NoInbox \in Inboxes /\ NoInbox.trigger = NoRun /\ NoInbox.secret = NoRun
  BY DEF NoInbox, Inboxes, Ids
<1> QED
  BY <1>1 DEF EmptyInbox, Inboxes

LEMMA BeginRunIs ==
    ASSUME Shapes, NEW mode \in Modes, NEW run \in Ids, BeginRun(mode, run)
    PROVE  /\ app' \in Apps /\ app'.phase = "provisioning" /\ app'.mode = mode
           /\ app'.run = run /\ app'.following = FALSE /\ app'.verify = FALSE
           /\ app'.outcome = "none"
           /\ job' \in Jobs /\ job'.next = "intent" /\ job'.run = run
           /\ poll' \in Polls /\ poll'.live = FALSE /\ poll'.doc = poll.doc
<1>1. app' = [In("provisioning") EXCEPT !.mode = mode, !.run = run]
  BY DEF BeginRun
<1>2. "provisioning" \in Phases
  BY DEF Phases
<1> DEFINE p == In("provisioning")
<1>4. /\ p \in Apps /\ p.phase = "provisioning" /\ p.following = FALSE
      /\ p.verify = FALSE /\ p.outcome = "none" /\ app' = [p EXCEPT !.mode = mode, !.run = run]
  BY <1>1, <1>2, InIs
<1> HIDE DEF p
<1>3. /\ app' \in Apps /\ app'.phase = "provisioning" /\ app'.mode = mode
      /\ app'.run = run /\ app'.following = FALSE /\ app'.verify = FALSE
      /\ app'.outcome = "none"
  BY <1>4 DEF Apps
<1> QED
  BY <1>3 DEF BeginRun, Job, Jobs, JobSteps, Preparing, Superseded, Shapes, Polls

LEMMA FailedIs ==
    ASSUME NEW a \in Apps
    PROVE  /\ Failed(a) \in Apps /\ Failed(a).phase = a.phase /\ Failed(a).mode = a.mode
           /\ Failed(a).run = a.run /\ Failed(a).following = FALSE
           /\ Failed(a).verify = a.verify /\ Failed(a).outcome = "failed"
BY DEF Failed, Apps, Outcomes

LEMMA StageFailsIs ==
    ASSUME Shapes, StageFails
    PROVE  /\ job' \in Jobs /\ job' = NoJob
           /\ app' \in Apps /\ app'.phase = app.phase /\ app'.mode = app.mode
           /\ app'.run = app.run /\ app'.verify = app.verify
           /\ app'.outcome \in {app.outcome, "failed"}
           /\ app'.following = TRUE => app.following = TRUE
           /\ poll' \in Polls /\ poll'.doc = poll.doc /\ poll'.run = poll.run
           /\ poll'.live = TRUE => poll.live = TRUE
<1>1. job' \in Jobs /\ job' = NoJob
  BY DEF StageFails, NoJob, Jobs, Ids, JobSteps
<1>2. CASE job.live
  BY <1>1, <1>2, FailedIs DEF StageFails, Superseded, Polls, Shapes
<1>3. CASE ~job.live
  BY <1>1, <1>3 DEF StageFails, Shapes
<1> QED
  BY <1>2, <1>3

LEMMA ResumedIs ==
    ASSUME Shapes, NEW doc \in Documents, Resume(doc) # "retry-stage"
    PROVE  /\ Resumed(doc) \in Apps /\ Resumed(doc).phase = "provisioning"
           /\ Resumed(doc).mode \in {record.mode, "first"}
           /\ Resumed(doc).run \in {record.run, NoRun}
           /\ Resumed(doc).following = TRUE => Resumed(doc).run # NoRun
           /\ Resumed(doc).verify = FALSE
           /\ Resumed(doc).outcome = "done" =>
                 /\ Acknowledges(doc, record.run) /\ Resumed(doc).run = record.run
                 /\ doc.phase = "done" /\ ~doc.failed
<1> DEFINE p == In("provisioning")
           seen == IF Acknowledges(doc, record.run) THEN doc.phase ELSE "absent"
           a == [p EXCEPT !.mode = record.mode, !.run = record.run, !.seen = seen]
<1>1. /\ p \in Apps /\ p.phase = "provisioning" /\ p.run = NoRun /\ p.mode = "first"
      /\ p.following = FALSE /\ p.verify = FALSE /\ p.outcome = "none"
  BY InIs DEF Phases
<1>2. seen \in StatusPhases
  BY DEF Documents, StatusPhases
<1>3. Resume(doc) \in {"no-run", "failed", "done", "confirm-new-run",
                      "poll-or-abandon", "poll", "retry-stage"}
  BY DEF Resume, Documents
<1>4. Resume(doc) # "no-run" => record.run # NoRun
  BY DEF Resume, Acknowledges
<1>5. Resume(doc) = "done" =>
          Acknowledges(doc, record.run) /\ doc.phase = "done" /\ ~doc.failed
  BY DEF Resume, Acknowledges, Documents, Shapes
<1>6. Resumed(doc) = CASE Resume(doc) = "no-run" -> p
                       [] Resume(doc) = "failed" -> Failed(a)
                       [] Resume(doc) = "done" -> [a EXCEPT !.outcome = "done"]
                       [] Resume(doc) = "confirm-new-run" -> [a EXCEPT !.offer = TRUE]
                       [] Resume(doc) = "poll-or-abandon" ->
                            [a EXCEPT !.following = TRUE, !.offer = TRUE]
                       [] Resume(doc) = "poll" -> [a EXCEPT !.following = TRUE]
  BY DEF Resumed
<1> HIDE DEF p, seen
<1>7. /\ a \in Apps /\ a.phase = "provisioning" /\ a.mode = record.mode
      /\ a.run = record.run /\ a.following = FALSE /\ a.verify = FALSE
      /\ a.outcome = "none"
  BY <1>1, <1>2 DEF Apps, Records, Shapes
<1> HIDE DEF a
<1>8. CASE Resume(doc) = "no-run"
  BY <1>1, <1>6, <1>8
<1>9. CASE Resume(doc) = "failed"
  BY <1>6, <1>7, <1>9, FailedIs
<1>10. CASE Resume(doc) = "done"
  BY <1>5, <1>6, <1>7, <1>10 DEF Apps, Outcomes
<1>11. CASE Resume(doc) \in {"confirm-new-run", "poll-or-abandon", "poll"}
  BY <1>4, <1>6, <1>7, <1>11 DEF Apps
<1> QED
  BY <1>3, <1>8, <1>9, <1>10, <1>11

LEMMA FinishedIs ==
    ASSUME NEW a \in Apps
    PROVE  /\ Finished(a) \in Apps /\ Finished(a).following = FALSE
           /\ a.mode = "re" => /\ Finished(a).phase = "away" /\ Finished(a).run = NoRun
                               /\ Finished(a).mode = "first" /\ Finished(a).outcome = "none"
           /\ a.mode # "re" => /\ Finished(a).phase = a.phase /\ Finished(a).run = a.run
                               /\ Finished(a).mode = a.mode /\ Finished(a).verify = a.verify
<1>1. /\ In("away") \in Apps /\ In("away").phase = "away" /\ In("away").run = NoRun
      /\ In("away").mode = "first" /\ In("away").following = FALSE
      /\ In("away").outcome = "none"
  BY InIs DEF Phases
<1> QED
  BY <1>1 DEF Finished, Apps, Outcomes

LEMMA RecordAfterIs ==
    ASSUME Shapes, NEW doc \in Documents
    PROVE  /\ RecordAfter(doc) \in Records /\ RecordAfter(doc).run = record.run
           /\ RecordAfter(doc).mode = record.mode
           /\ RecordAfter(doc) = NoRecord => record = NoRecord
           /\ RecordAfter(doc).run # NoRun =>
                 RecordAfter(doc).phase \in {"staging", "triggered"}
<1> DEFINE after == [record EXCEPT !.phase = "triggered"]
<1>1. /\ after \in Records /\ after.run = record.run /\ after.mode = record.mode
      /\ after.phase = "triggered"
  BY DEF Shapes, Records, RecordPhases
<1>2. after # NoRecord
  BY <1>1, RecordIs
<1>3. RecordAfter(doc) = after \/ RecordAfter(doc) = record
  BY DEF RecordAfter
<1> HIDE DEF after
<1> QED
  BY <1>1, <1>2, <1>3 DEF Shapes

\* What a poll that acknowledges the app's run leaves of the app and its worker.
LEMMA AppliesIs ==
    ASSUME Shapes, NEW doc \in Documents, Applies(doc), doc.run \in Runs
    PROVE  /\ app' \in Apps
           /\ app'.following = TRUE => app.following = TRUE
           /\ job' \in Jobs /\ job'.next = job.next /\ job'.run = job.run
           /\ job'.live = TRUE => job.live = TRUE
           /\ cleaning' \subseteq [run: Runs, checked: BOOLEAN]
           /\ \/ /\ app'.phase = app.phase /\ app'.run = app.run /\ app'.mode = app.mode
                 /\ app'.verify = app.verify
              \/ /\ app.mode = "re" /\ app'.phase = "away" /\ app'.run = NoRun
                 /\ app'.mode = "first" /\ app'.following = FALSE /\ job'.live = FALSE
<1> DEFINE a == [app EXCEPT !.seen = doc.phase]
<1>1. /\ a \in Apps /\ a.phase = app.phase /\ a.run = app.run /\ a.mode = app.mode
      /\ a.verify = app.verify /\ a.following = app.following
  BY DEF Shapes, Apps, Documents
<1>2. app' = IF doc.failed THEN Failed(a)
             ELSE IF doc.phase = "done" THEN Finished(a) ELSE a
  BY DEF Applies
<1> HIDE DEF a
<1>3. /\ job' \in Jobs /\ job'.next = job.next /\ job'.run = job.run
      /\ job'.live = TRUE => job.live = TRUE
      /\ doc.failed \/ doc.phase = "done" => job'.live = FALSE
  BY JobIs DEF Applies, Shapes
<1>4. [run |-> doc.run, checked |-> FALSE] \in [run: Runs, checked: BOOLEAN]
  OBVIOUS
<1>5. cleaning' \subseteq [run: Runs, checked: BOOLEAN]
  BY <1>4 DEF Applies, Shapes
<1>6. CASE doc.failed
  BY <1>1, <1>2, <1>3, <1>5, <1>6, FailedIs
<1>7. CASE ~doc.failed /\ doc.phase = "done"
  <2>1. app' = Finished(a) /\ job'.live = FALSE
    BY <1>2, <1>3, <1>7
  <2>2. a.mode \in {"first", "re"}
    BY <1>1 DEF Apps, Modes
  <2> QED
    BY <1>1, <1>3, <1>5, <2>1, <2>2, FinishedIs
<1>8. CASE ~doc.failed /\ doc.phase # "done"
  BY <1>1, <1>2, <1>3, <1>5, <1>8
<1> QED
  BY <1>6, <1>7, <1>8

-----------------------------------------------------------------------------
(* The app ends, and starts.                                               *)

LEMMA AppEndsKeeps ==
    ASSUME IInv, AppEnds
    PROVE  IInv'
<1>1. Accepted'
  BY Frames DEF AppEnds, guest
<1>1a. Switches'
  <2>1. (orphan \/ job.next = "composing") \in BOOLEAN
    OBVIOUS
  <2>2. orphan' \in BOOLEAN /\ UNCHANGED <<container, channel, connected, forgotten>>
    BY <2>1 DEF AppEnds
  <2> QED
    BY <2>2 DEF IInv, Switches
<1>2. Shapes'
  BY DEF IInv, Shapes, Apps, Jobs, Polls, Documents, JobSteps, StatusPhases, Outcomes,
         Modes, Ids, Phases, AppEnds, NoStatus, Closed, NoJob, NoPoll, docker, guest
<1>3. Newest'
  BY DEF IInv, Newest, Preparing, Staging, Sending, AppEnds, NoStatus, Closed, NoJob,
         NoPoll
<1>4. Secrets'
  BY DEF IInv, Secrets, AppEnds, NoStatus, Closed, NoJob, NoPoll, guest
<1>5. Workers'
  BY DEF IInv, Workers, Creating, AppEnds, NoStatus, Closed, NoJob, NoPoll
<1>6. Honest(status)' /\ Honest(poll.doc)'
  BY DEF IInv, Honest, AppEnds, NoStatus, Closed, NoJob, NoPoll, guest
<1>7. Remembered'
  BY DEF IInv, Remembered, AppEnds, NoStatus, Closed, NoJob, NoPoll, docker
<1> QED
  BY <1>1, <1>1a, <1>2, <1>3, <1>4, <1>5, <1>6, <1>7 DEF IInv

LEMMA StartsPlainlyKeeps ==
    ASSUME IInv, StartsPlainly
    PROVE  IInv'
<1> DEFINE away == In("away")
           setup == In("setup")
<1>0. /\ away \in Apps /\ away.phase = "away" /\ away.mode = "first" /\ away.run = NoRun
      /\ away.following = FALSE /\ away.verify = FALSE
      /\ setup \in Apps /\ setup.phase = "setup" /\ setup.mode = "first" /\ setup.run = NoRun
      /\ setup.following = FALSE /\ setup.verify = FALSE
  BY InIs DEF Phases
<1>1. /\ app' \in Apps /\ app'.phase \in {"away", "setup"} /\ app'.mode = "first"
      /\ app'.phase = "away" => container /\ record = NoRecord
      /\ app'.run = NoRun /\ app'.following = FALSE /\ app'.verify = FALSE
  <2>1. /\ record = NoRecord \/ ~container
        /\ app' = IF container THEN away
                  ELSE [setup EXCEPT !.absent = TRUE, !.gone = record # NoRecord]
    BY DEF StartsPlainly
  <2> HIDE DEF away, setup
  <2> QED
    BY <1>0, <2>1 DEF Apps
<1>2. Switches' /\ Accepted' /\ Secrets' /\ Honest(status)' /\ Honest(poll.doc)'
  BY Frames DEF StartsPlainly, docker, guest
<1>3. Shapes'
  BY <1>1 DEF IInv, Shapes, StartsPlainly, docker, guest
<1>4. Newest'
  BY <1>1 DEF IInv, Newest, StartsPlainly
<1>5. Workers'
  BY <1>1 DEF IInv, Workers, StartsPlainly
<1>6. Remembered'
  BY <1>1 DEF IInv, Remembered, StartsPlainly, docker
<1> QED
  BY <1>2, <1>3, <1>4, <1>5, <1>6 DEF IInv

LEMMA StartsWithRecordKeeps ==
    ASSUME IInv, StartsWithRecord
    PROVE  IInv'
<1>1. PICK doc \in {status, NoStatus} :
         IF Resume(doc) = "retry-stage" THEN BeginRun(record.mode, record.run)
         ELSE app' = Resumed(doc) /\ UNCHANGED <<job, poll>>
  BY DEF StartsWithRecord
<1>2. /\ app.phase = "closed" /\ record # NoRecord
      /\ UNCHANGED <<docker, inbox, guest, record, cleaning, minted, vm>>
  BY DEF StartsWithRecord
<1>3. doc \in Documents
  <2>1. NoStatus \in Documents
    BY DEF NoStatus, Documents, StatusPhases, Ids
  <2> QED
    BY <2>1 DEF IInv, Shapes
<1>4. job.live = FALSE /\ poll.live = FALSE
  BY <1>2 DEF IInv, Shapes, Workers, Jobs, Polls
<1>5. Resume(doc) = "retry-stage" => record.run # NoRun
  BY DEF Resume
<1>6. /\ app' \in Apps /\ app'.phase = "provisioning" /\ app'.mode \in {record.mode, "first"}
      /\ app'.run \in {record.run, NoRun} /\ app'.verify = FALSE
      /\ app'.following = TRUE => app'.run # NoRun
      /\ job' \in Jobs /\ poll' \in Polls /\ poll'.live = FALSE /\ poll'.doc = poll.doc
      /\ \/ job' = job
         \/ /\ job'.next = "intent" /\ job'.run = record.run /\ job'.run # NoRun
            /\ app'.following = FALSE /\ app'.outcome = "none"
  <2>1. record.run \in Ids /\ record.mode \in Modes
    BY DEF IInv, Shapes, Records
  <2>2. CASE Resume(doc) = "retry-stage"
    <3>1. BeginRun(record.mode, record.run)
      BY <1>1, <2>2
    <3> QED
      BY <1>5, <2>1, <2>2, <3>1, BeginRunIs DEF IInv
  <2>3. CASE Resume(doc) # "retry-stage"
    <3>1. app' = Resumed(doc) /\ job' = job /\ poll' = poll
      BY <1>1, <2>3
    <3>2. job' \in Jobs /\ poll' \in Polls
      BY <3>1 DEF IInv, Shapes
    <3> QED
      BY <1>3, <1>4, <2>3, <3>1, <3>2, ResumedIs DEF IInv
  <2> QED
    BY <2>2, <2>3
<1>7. Switches' /\ Accepted'
  BY Frames DEF StartsWithRecord, docker, guest
<1>8. Shapes'
  BY <1>2, <1>6 DEF IInv, Shapes, docker, guest
<1>9. Newest'
  BY <1>2, <1>6 DEF IInv, Newest
<1>10. Secrets'
  BY <1>2, <1>6 DEF IInv, Secrets, guest
<1>11. Workers'
  BY <1>2, <1>6 DEF IInv, Workers, Creating, Staging, Ids, Apps
<1>12. Honest(status)' /\ Honest(poll.doc)'
  BY <1>2, <1>6 DEF IInv, Honest, guest
<1>13. Remembered'
  BY <1>2, <1>6 DEF IInv, Remembered
<1> QED
  BY <1>7, <1>8, <1>9, <1>10, <1>11, <1>12, <1>13 DEF IInv

-----------------------------------------------------------------------------
(* The VM is created.                                                      *)

LEMMA AskCreateKeeps ==
    ASSUME IInv, AskCreate
    PROVE  IInv'
<1>1. job' \in Jobs /\ job'.next = "creating" /\ job'.run = NoRun
  BY JobIs DEF AskCreate, JobSteps, Creating, Ids
<1>2. Switches' /\ Accepted' /\ Honest(status)' /\ Honest(poll.doc)'
  BY Frames DEF AskCreate, docker, guest
<1>3. Shapes'
  BY <1>1 DEF IInv, Shapes, AskCreate, docker, guest
<1>4. Newest'
  BY <1>1 DEF IInv, Newest, Preparing, Staging, Sending, AskCreate
<1>5. Secrets'
  BY <1>1 DEF IInv, Secrets, AskCreate, guest
<1>6. Workers'
  BY <1>1 DEF IInv, Workers, Preparing, Staging, AskCreate
<1>7. Remembered'
  BY <1>1 DEF IInv, Remembered, AskCreate, docker
<1> QED
  BY <1>2, <1>3, <1>4, <1>5, <1>6, <1>7 DEF IInv

LEMMA CreatesRecordKeeps ==
    ASSUME IInv, CreatesRecord
    PROVE  IInv'
<1>1. /\ job' \in Jobs /\ job'.next = "composing" /\ job'.run = NoRun
      /\ record' \in Records /\ record' # NoRecord /\ record'.run = NoRun
      /\ record'.mode = "first"
  BY JobIs, RecordIs DEF CreatesRecord, JobSteps, Creating, RecordPhases, Modes, Ids
<1>2. Accepted' /\ Honest(status)' /\ Honest(poll.doc)'
  BY Frames DEF CreatesRecord, docker, guest
<1>2a. Switches'
  BY DEF IInv, Switches, CreatesRecord, docker
<1>3. Shapes'
  BY <1>1 DEF IInv, Shapes, CreatesRecord, docker, guest
<1>4. Newest'
  BY <1>1 DEF IInv, Newest, Preparing, Staging, Sending, CreatesRecord
<1>5. Secrets'
  BY <1>1 DEF IInv, Secrets, CreatesRecord, guest
<1>6. Workers'
  BY <1>1 DEF IInv, Workers, Creating, Preparing, Staging, CreatesRecord
<1>7. Remembered'
  BY <1>1 DEF IInv, Remembered, Workers, Creating, CreatesRecord, docker
<1> QED
  BY <1>2, <1>2a, <1>3, <1>4, <1>5, <1>6, <1>7 DEF IInv

LEMMA ComposesKeeps ==
    ASSUME IInv, Composes
    PROVE  IInv'
<1>1. /\ job' \in Jobs /\ job'.next \in {"created", "none"} /\ job'.run = NoRun
  <2>1. job' = Job("created", NoRun) \/ job' = NoJob
    BY Zenon DEF Composes
  <2> QED
    BY <2>1, JobIs DEF JobSteps, Creating, Ids
<1>2. Accepted' /\ Honest(status)' /\ Honest(poll.doc)'
  BY Frames DEF Composes, guest
<1>3. Switches'
  BY <1>1, ProvisioningAssumption DEF IInv, Switches, Composes, guest
<1>4. Shapes'
  BY <1>1 DEF IInv, Shapes, Composes, guest
<1>5. Newest'
  BY <1>1 DEF IInv, Newest, Preparing, Staging, Sending, Composes
<1>6. Secrets'
  BY <1>1 DEF IInv, Secrets, Composes, guest
<1>7. Workers'
  BY <1>1 DEF IInv, Workers, Creating, Preparing, Staging, Composes
<1>8. Remembered'
  BY DEF IInv, Remembered, Composes
<1> QED
  BY <1>2, <1>3, <1>4, <1>5, <1>6, <1>7, <1>8 DEF IInv

LEMMA CreatedRecordKeeps ==
    ASSUME IInv, CreatedRecord
    PROVE  IInv'
<1>1. /\ app' \in Apps /\ app'.phase = "provisioning" /\ app'.mode = "first"
      /\ app'.run = NoRun /\ app'.following = FALSE /\ app'.verify = FALSE
      /\ app'.outcome = "none"
      /\ job' \in Jobs /\ job'.next = "intent" /\ job'.run = NoRun
      /\ poll' \in Polls /\ poll'.live = FALSE /\ poll'.doc = poll.doc
  BY BeginRunIs DEF CreatedRecord, IInv, Modes, Ids
<1>2. record' \in Records /\ record' # NoRecord /\ record'.run = NoRun /\ record'.mode = "first"
  BY RecordIs DEF CreatedRecord, RecordPhases, Modes, Ids
<1>3. Switches' /\ Accepted'
  BY Frames DEF CreatedRecord, docker, guest
<1>4. Shapes'
  BY <1>1, <1>2 DEF IInv, Shapes, CreatedRecord, docker, guest
<1>5. Newest'
  BY <1>1, <1>2 DEF IInv, Newest, Staging, Sending, CreatedRecord, CanRun
<1>6. Secrets'
  BY <1>1 DEF IInv, Secrets, CreatedRecord, guest
<1>7. Workers'
  BY <1>1 DEF IInv, Workers, Creating, CreatedRecord
<1>8. Honest(status)' /\ Honest(poll.doc)'
  BY <1>1 DEF IInv, Honest, CreatedRecord, guest
<1>9. Remembered'
  BY <1>1, <1>2 DEF IInv, Remembered, CreatedRecord
<1> QED
  BY <1>3, <1>4, <1>5, <1>6, <1>7, <1>8, <1>9 DEF IInv

LEMMA RechecksKeeps ==
    ASSUME IInv, Rechecks
    PROVE  IInv'
<1>1. /\ app' \in Apps /\ app'.phase = app.phase /\ app'.mode = app.mode
      /\ app'.run = app.run /\ app'.following = app.following /\ app'.verify = app.verify
      /\ app'.outcome = app.outcome
  BY DEF Rechecks, IInv, Switches, Shapes, Apps
<1>2. Switches' /\ Accepted' /\ Secrets' /\ Honest(status)' /\ Honest(poll.doc)'
  BY Frames DEF Rechecks, docker, guest
<1>3. Shapes'
  BY <1>1 DEF IInv, Shapes, Rechecks, docker, guest
<1>4. Newest'
  BY <1>1 DEF IInv, Newest, Rechecks
<1>5. Workers'
  BY <1>1 DEF IInv, Workers, Rechecks
<1>6. Remembered'
  BY <1>1 DEF IInv, Remembered, Rechecks, docker
<1> QED
  BY <1>2, <1>3, <1>4, <1>5, <1>6 DEF IInv

LEMMA OrphanComposesKeeps ==
    ASSUME IInv, OrphanComposes
    PROVE  IInv'
<1>1. Newest' /\ Accepted' /\ Secrets' /\ Workers' /\ Honest(status)' /\ Honest(poll.doc)'
  BY Frames DEF OrphanComposes, guest, host
<1>2. Switches'
  BY DEF IInv, Switches, OrphanComposes
<1>3. Shapes'
  BY DEF IInv, Shapes, OrphanComposes, guest, host
<1>4. Remembered'
  BY DEF IInv, Remembered, OrphanComposes, host
<1> QED
  BY <1>1, <1>2, <1>3, <1>4 DEF IInv

LEMMA CreationFailsKeeps ==
    ASSUME IInv, CreationFails
    PROVE  IInv'
<1>1. job' \in Jobs /\ job'.next = "none" /\ job'.run = NoRun /\ job'.live = FALSE
  BY JobIs DEF CreationFails
<1>2. Switches' /\ Accepted' /\ Honest(status)' /\ Honest(poll.doc)'
  BY Frames DEF CreationFails, docker, guest
<1>3. Shapes'
  BY <1>1 DEF IInv, Shapes, CreationFails, docker, guest
<1>4. Newest'
  BY <1>1 DEF IInv, Newest, Preparing, Staging, Sending, CreationFails
<1>5. Secrets'
  BY <1>1 DEF IInv, Secrets, CreationFails, guest
<1>6. Workers'
  BY <1>1 DEF IInv, Workers, Creating, Preparing, Staging, CreationFails
<1>7. Remembered'
  BY <1>1 DEF IInv, Remembered, CreationFails, docker
<1> QED
  BY <1>2, <1>3, <1>4, <1>5, <1>6, <1>7 DEF IInv

LEMMA DiscardKeeps ==
    ASSUME IInv, Discard
    PROVE  IInv'
<1>1. /\ app' \in Apps /\ app'.phase = app.phase /\ app'.mode = app.mode
      /\ app'.run = app.run /\ app'.following = app.following /\ app'.verify = app.verify
      /\ app'.outcome = app.outcome
  BY DEF Discard, IInv, Shapes, Apps
<1>2. /\ record' = record /\ forgotten' = forgotten
      \/ /\ record' \in Records /\ record'.run = NoRun /\ record'.mode = "first"
         /\ forgotten' \in BOOLEAN /\ (container \/ orphan => forgotten')
  <2>1. (container \/ orphan) \in BOOLEAN
    OBVIOUS
  <2>2. CASE record' = NoRecord /\ forgotten' = (container \/ orphan)
    <3>1. forgotten' \in BOOLEAN
      BY <2>1, <2>2
    <3>2. container \/ orphan => forgotten'
      BY <2>2
    <3> QED
      BY <2>2, <3>1, <3>2, RecordIs
  <2> QED
    BY <2>2, Zenon DEF Discard
<1>3. job.next = "none" /\ app.phase = "setup"
  BY JobIs DEF Discard
<1>4. Accepted' /\ Secrets' /\ Honest(status)' /\ Honest(poll.doc)'
  BY Frames DEF Discard, docker, guest
<1>5. Switches'
  BY <1>2 DEF IInv, Switches, Discard, docker
<1>6. Shapes'
  BY <1>1, <1>2 DEF IInv, Shapes, Discard, docker, guest
<1>7. Newest'
  BY <1>1, <1>2, <1>3 DEF IInv, Newest, Discard
<1>8. Workers'
  BY <1>1 DEF IInv, Workers, Discard
<1>9. Remembered'
  BY <1>1, <1>2, <1>3 DEF IInv, Remembered, Discard, docker
<1> QED
  BY <1>4, <1>5, <1>6, <1>7, <1>8, <1>9 DEF IInv

-----------------------------------------------------------------------------
(* A run is asked for.                                                     *)

LEMMA AskProvisionKeeps ==
    ASSUME IInv, AskProvision
    PROVE  IInv'
<1>1. /\ app' \in Apps /\ app'.phase = "provisioning" /\ app'.mode = "first"
      /\ app'.run = NoRun /\ app'.following = FALSE /\ app'.verify = FALSE
      /\ app'.outcome = "none"
      /\ job' \in Jobs /\ job'.next = "intent" /\ job'.run = NoRun
      /\ poll' \in Polls /\ poll'.live = FALSE /\ poll'.doc = poll.doc
  BY BeginRunIs DEF AskProvision, IInv, Modes, Ids
<1>2. Switches' /\ Accepted'
  BY Frames DEF AskProvision, docker, guest
<1>3. Shapes'
  BY <1>1 DEF IInv, Shapes, AskProvision, docker, guest
<1>4. Newest'
  BY <1>1 DEF IInv, Newest, Staging, Sending, AskProvision, CanRun
<1>5. Secrets'
  BY <1>1 DEF IInv, Secrets, AskProvision, guest
<1>6. Workers'
  BY <1>1 DEF IInv, Workers, Creating, AskProvision
<1>7. Honest(status)' /\ Honest(poll.doc)'
  BY <1>1 DEF IInv, Honest, AskProvision, guest
<1>8. Remembered'
  BY <1>1 DEF IInv, Remembered, AskProvision
<1> QED
  BY <1>2, <1>3, <1>4, <1>5, <1>6, <1>7, <1>8 DEF IInv

LEMMA AskReprovisionKeeps ==
    ASSUME IInv, AskReprovision
    PROVE  IInv'
<1>1. /\ app' \in Apps /\ app'.phase = "provisioning" /\ app'.mode \in {"first", "re"}
      /\ app'.run = NoRun /\ app'.following = FALSE /\ app'.verify = FALSE
      /\ app'.outcome = "none"
      /\ job' \in Jobs /\ job'.next = "intent" /\ job'.run = NoRun
      /\ poll' \in Polls /\ poll'.live = FALSE /\ poll'.doc = poll.doc
      /\ app'.mode = "re" => app.phase = "away"
  BY BeginRunIs DEF AskReprovision, IInv, Modes, Ids
<1>2. Switches' /\ Accepted'
  BY Frames DEF AskReprovision, docker, guest
<1>3. Shapes'
  BY <1>1 DEF IInv, Shapes, AskReprovision, docker, guest
<1>4. Newest'
  BY <1>1 DEF IInv, Newest, Staging, Sending, AskReprovision, CanRun
<1>5. Secrets'
  BY <1>1 DEF IInv, Secrets, AskReprovision, guest
<1>6. Workers'
  BY <1>1 DEF IInv, Workers, Creating, AskReprovision
<1>7. Honest(status)' /\ Honest(poll.doc)'
  BY <1>1 DEF IInv, Honest, AskReprovision, guest
<1>8. Remembered'
  BY <1>1 DEF IInv, Remembered, AskReprovision
<1> QED
  BY <1>2, <1>3, <1>4, <1>5, <1>6, <1>7, <1>8 DEF IInv

LEMMA AskRetryKeeps ==
    ASSUME IInv, AskRetry
    PROVE  IInv'
<1>1. (IF record = NoRecord THEN app.mode ELSE record.mode)
         \in Modes \intersect {app.mode, record.mode}
  BY DEF IInv, Shapes, Apps, Records
<1>2. /\ app' \in Apps /\ app'.phase = "provisioning" /\ app'.mode \in {app.mode, record.mode}
      /\ app'.run = NoRun /\ app'.following = FALSE /\ app'.verify = FALSE
      /\ app'.outcome = "none"
      /\ job' \in Jobs /\ job'.next = "intent" /\ job'.run = NoRun
      /\ poll' \in Polls /\ poll'.live = FALSE /\ poll'.doc = poll.doc
  BY <1>1, BeginRunIs DEF AskRetry, IInv, Ids
<1>3. \A r \in {app.run} \ {NoRun} :
         [run |-> r, checked |-> FALSE] \in [run: Runs, checked: BOOLEAN]
  BY DEF IInv, Shapes, Apps, Ids
<1>4. cleaning' \subseteq [run: Runs, checked: BOOLEAN]
  BY <1>3 DEF AskRetry, IInv, Shapes
<1>5. Switches' /\ Accepted'
  BY Frames DEF AskRetry, docker, guest
<1>6. Shapes'
  BY <1>2, <1>4 DEF IInv, Shapes, AskRetry, docker, guest
<1>7. Newest'
  BY <1>2 DEF IInv, Newest, Staging, Sending, AskRetry, CanRun
<1>8. Secrets'
  BY <1>2 DEF IInv, Secrets, AskRetry, guest
<1>9. Workers'
  BY <1>2 DEF IInv, Workers, Creating, AskRetry
<1>10. Honest(status)' /\ Honest(poll.doc)'
  BY <1>2 DEF IInv, Honest, AskRetry, guest
<1>11. Remembered'
  BY <1>2 DEF IInv, Remembered, AskRetry, docker
<1> QED
  BY <1>5, <1>6, <1>7, <1>8, <1>9, <1>10, <1>11 DEF IInv

-----------------------------------------------------------------------------
(* It is staged.                                                           *)

LEMMA RecordsIntentKeeps ==
    ASSUME IInv, RecordsIntent
    PROVE  IInv'
<1>1. app.mode \in Modes /\ boot \in Nat
  BY DEF IInv, Shapes, Apps
<1>2. /\ record' \in Records /\ record' # NoRecord /\ record'.run = NoRun
      /\ record'.mode = app.mode
  <2>1. record' = Record("provisioning", NoRun, app.mode, boot)
    BY DEF RecordsIntent
  <2> QED
    BY <1>1, <2>1, RecordIs DEF RecordPhases, Ids
<1>3. job' = Job("probe", job.run) \/ job' = NoJob
  BY DEF RecordsIntent, Proceed
<1>4. job' \in Jobs
  BY <1>3, JobIs DEF IInv, Shapes, Jobs, JobSteps, Preparing
<1>5. Switches' /\ Accepted' /\ Honest(status)' /\ Honest(poll.doc)'
  BY Frames DEF RecordsIntent, docker, guest
<1>6. Shapes'
  BY <1>2, <1>4 DEF IInv, Shapes, RecordsIntent, NoJob, Job, Proceed, docker, guest
<1>7. Newest'
  BY <1>2
  DEF IInv, Newest, Preparing, Staging, Sending, RecordsIntent, NoJob, Job, Proceed
<1>8. Secrets'
  BY DEF IInv, Secrets, RecordsIntent, NoJob, Job, Proceed, guest
<1>9. Workers'
  BY DEF IInv, Workers, Creating, Preparing, Staging, RecordsIntent, NoJob, Job, Proceed
<1>10. Remembered'
  BY <1>2 DEF IInv, Remembered, RecordsIntent, NoJob, Job, Proceed
<1> QED
  BY <1>5, <1>6, <1>7, <1>8, <1>9, <1>10 DEF IInv

LEMMA ProbeAnswersKeeps ==
    ASSUME IInv, ProbeAnswers
    PROVE  IInv'
<1>1. job.live => LET run == IF job.run = NoRun THEN minted + 1 ELSE job.run IN
        /\ run \in Runs /\ minted' = run
        /\ app' = [app EXCEPT !.run = run] /\ job' = Job("record", run)
  BY ProvisioningAssumption
  DEF ProbeAnswers, IInv, Shapes, Newest, Preparing, Jobs, Runs, NoRun, Ids
<1>2. job.live => /\ minted' \in Runs /\ app' \in Apps /\ app'.run = minted'
        /\ app'.phase = app.phase /\ app'.mode = app.mode /\ app'.verify = app.verify
        /\ app'.following = app.following /\ app'.outcome = app.outcome
        /\ job' \in Jobs /\ job'.next = "record" /\ job'.run = minted'
  BY <1>1, JobIs DEF IInv, Shapes, Apps, Ids, JobSteps, Staging
<1>3. ~job.live => job' = NoJob /\ UNCHANGED <<app, minted>>
  BY DEF ProbeAnswers
<1>4. ~job.live => job' \in Jobs /\ job'.next = "none" /\ job'.run = NoRun /\ job'.live = FALSE
  BY <1>3, JobIs
<1>5. minted' \in 0 .. MaxRuns /\ minted \leq minted'
  BY <1>1, <1>2, <1>3, ProvisioningAssumption DEF IInv, Shapes, Newest, Runs, NoRun, Jobs, Ids
<1>6. Switches' /\ Honest(status)' /\ Honest(poll.doc)'
  BY Frames DEF ProbeAnswers, docker, guest
<1>7. Shapes'
  BY <1>2, <1>4, <1>5 DEF IInv, Shapes, ProbeAnswers, docker, guest
<1>8. Newest'
  BY <1>2, <1>4
  DEF IInv, Shapes, Newest, Preparing, Staging, Sending, NoRun, ProbeAnswers
<1>9. Accepted'
  BY <1>5 DEF IInv, Shapes, Accepted, Ids, Runs, NoRun, Inboxes, ProbeAnswers, guest
<1>10. Secrets'
  BY <1>2, <1>4 DEF IInv, Secrets, ProbeAnswers, guest
<1>11. Workers'
  BY <1>2, <1>4 DEF IInv, Workers, Creating, Preparing, ProbeAnswers
<1>12. Remembered'
  BY <1>2, <1>4 DEF IInv, Remembered, ProbeAnswers, docker
<1> QED
  BY <1>6, <1>7, <1>8, <1>9, <1>10, <1>11, <1>12 DEF IInv

LEMMA RecordsRunKeeps ==
    ASSUME IInv, RecordsRun
    PROVE  IInv'
<1>1. /\ record' \in Records /\ record' # NoRecord /\ record'.run = job.run
      /\ record'.mode = app.mode /\ record'.phase = "staging"
  BY RecordIs DEF RecordsRun, IInv, Shapes, Apps, Jobs, RecordPhases
<1>2. /\ job' \in Jobs /\ job'.live = job.live /\ job'.run = job.run /\ job'.next = "channel"
  BY DEF RecordsRun, Onward, IInv, Shapes, Jobs, JobSteps, Staging
<1>3. Switches' /\ Accepted' /\ Honest(status)' /\ Honest(poll.doc)'
  BY Frames DEF RecordsRun, docker, guest
<1>4. Shapes'
  BY <1>1, <1>2 DEF IInv, Shapes, RecordsRun, docker, guest
<1>5. Newest'
  BY <1>1, <1>2 DEF IInv, Newest, Staging, RecordsRun
<1>6. Secrets'
  BY <1>2 DEF IInv, Secrets, RecordsRun, guest
<1>7. Workers'
  BY <1>2 DEF IInv, Workers, Creating, Staging, RecordsRun
<1>8. Remembered'
  BY <1>1 DEF IInv, Remembered, RecordsRun
<1> QED
  BY <1>3, <1>4, <1>5, <1>6, <1>7, <1>8 DEF IInv

LEMMA EnsuresChannelKeeps ==
    ASSUME IInv, EnsuresChannel
    PROVE  IInv'
<1>1. /\ job' \in Jobs /\ job'.live = job.live /\ job'.run = job.run /\ job'.next = "check"
  BY DEF EnsuresChannel, Onward, IInv, Shapes, Jobs, JobSteps, Staging
<1>2. inbox' \in Inboxes /\ inbox'.trigger = inbox.trigger /\ inbox'.secret = inbox.secret
  BY DEF EnsuresChannel, IInv, Shapes, Inboxes
<1>3. Honest(status)' /\ Honest(poll.doc)'
  BY Frames DEF EnsuresChannel, guest
<1>4. Switches'
  BY DEF IInv, Switches, EnsuresChannel
<1>5. Shapes'
  BY <1>1, <1>2 DEF IInv, Shapes, EnsuresChannel, guest
<1>6. Newest'
  BY <1>1 DEF IInv, Newest, Staging, EnsuresChannel
<1>7. Accepted'
  BY DEF IInv, Accepted, EnsuresChannel, guest
<1>8. Secrets'
  BY <1>1 DEF IInv, Secrets, EnsuresChannel, guest
<1>9. Workers'
  BY <1>1 DEF IInv, Workers, Creating, Staging, EnsuresChannel
<1>10. Remembered'
  BY <1>1 DEF IInv, Remembered, EnsuresChannel
<1> QED
  BY <1>3, <1>4, <1>5, <1>6, <1>7, <1>8, <1>9, <1>10 DEF IInv

LEMMA ResetsInboxKeeps ==
    ASSUME IInv, ResetsInbox
    PROVE  IInv'
<1>1. /\ job' \in Jobs /\ job'.live = job.live /\ job'.run = job.run /\ job'.next = "copy"
  BY DEF ResetsInbox, Onward, IInv, Shapes, Jobs, JobSteps, Staging
<1>2. inbox' \in Inboxes /\ inbox'.trigger = NoRun /\ inbox'.secret = NoRun
  BY InboxIs DEF ResetsInbox
<1>3. /\ job.next = "reset"
      /\ UNCHANGED <<docker, guest, record, app, poll, cleaning, minted, vm>>
  BY DEF ResetsInbox
<1>4. Switches' /\ Honest(status)' /\ Honest(poll.doc)'
  BY Frames DEF ResetsInbox, docker, guest
<1>5. Shapes'
  BY <1>1, <1>2, <1>3 DEF IInv, Shapes, docker, guest
<1>6. Newest'
  BY <1>1, <1>3 DEF IInv, Newest, Staging
<1>7. Accepted'
  BY <1>2, <1>3 DEF IInv, Shapes, Accepted, NoRun, guest
<1>8. Secrets'
  BY <1>1, <1>2, <1>3 DEF IInv, Shapes, Secrets, Ids, Runs, NoRun, guest
<1>9. Workers'
  BY <1>1, <1>3 DEF IInv, Workers, Creating, Staging
<1>10. Remembered'
  BY <1>1, <1>3 DEF IInv, Remembered, docker
<1> QED
  BY <1>4, <1>5, <1>6, <1>7, <1>8, <1>9, <1>10 DEF IInv

LEMMA ChecksKeeps ==
    ASSUME IInv, Checks
    PROVE  IInv'
<1>1. StageFails \/ (Onward("reset") /\ UNCHANGED <<app, poll>>)
  BY Zenon DEF Checks
<1>2. StageFails => /\ job' \in Jobs /\ job' = NoJob /\ app' \in Apps /\ app'.phase = app.phase
                    /\ app'.mode = app.mode /\ app'.run = app.run /\ app'.verify = app.verify
                    /\ app'.following = TRUE => app.following = TRUE
                    /\ poll' \in Polls /\ poll'.doc = poll.doc /\ poll'.run = poll.run
                    /\ poll'.live = TRUE => poll.live = TRUE
                    /\ job'.next = "none" /\ job'.run = NoRun /\ job'.live = FALSE
  BY StageFailsIs, JobIs DEF IInv
<1>3. Onward("reset") =>
         /\ job' \in Jobs /\ job'.live = job.live /\ job'.run = job.run /\ job'.next = "reset"
  BY DEF Onward, IInv, Shapes, Jobs, JobSteps, Staging
<1>4. \/ /\ job' \in Jobs /\ job' = NoJob /\ app' \in Apps /\ app'.phase = app.phase
         /\ app'.mode = app.mode /\ app'.run = app.run /\ app'.verify = app.verify
         /\ app'.following = TRUE => app.following = TRUE
         /\ poll' \in Polls /\ poll'.doc = poll.doc /\ poll'.run = poll.run
         /\ poll'.live = TRUE => poll.live = TRUE
         /\ job'.next = "none" /\ job'.run = NoRun /\ job'.live = FALSE
      \/ /\ job' \in Jobs /\ job'.live = job.live /\ job'.run = job.run /\ job'.next = "reset"
         /\ UNCHANGED <<app, poll>>
  BY <1>1, <1>2, <1>3
<1>5. Switches' /\ Accepted'
  BY Frames DEF Checks, docker, guest
<1>6. Shapes'
  BY <1>4 DEF IInv, Shapes, Checks, docker, guest
<1>7. Newest'
  BY <1>4 DEF IInv, Newest, Preparing, Staging, Sending, Checks
<1>8. Secrets'
  BY <1>4 DEF IInv, Secrets, Checks, guest
<1>9. Workers'
  BY <1>4 DEF IInv, Workers, Creating, Staging, Checks
<1>10. Honest(status)' /\ Honest(poll.doc)'
  BY <1>4 DEF IInv, Honest, Checks, guest
<1>11. Remembered'
  BY <1>4 DEF IInv, Remembered, Checks, docker
<1> QED
  BY <1>5, <1>6, <1>7, <1>8, <1>9, <1>10, <1>11 DEF IInv

LEMMA CopiesPayloadKeeps ==
    ASSUME IInv, CopiesPayload
    PROVE  IInv'
<1>1. StageFails \/ (Onward("trigger") /\ UNCHANGED <<app, poll>>)
  BY Zenon DEF CopiesPayload
<1>2. StageFails => /\ job' \in Jobs /\ job' = NoJob /\ app' \in Apps /\ app'.phase = app.phase
                    /\ app'.mode = app.mode /\ app'.run = app.run /\ app'.verify = app.verify
                    /\ app'.following = TRUE => app.following = TRUE
                    /\ poll' \in Polls /\ poll'.doc = poll.doc /\ poll'.run = poll.run
                    /\ poll'.live = TRUE => poll.live = TRUE
                    /\ job'.next = "none" /\ job'.run = NoRun /\ job'.live = FALSE
  BY StageFailsIs, JobIs DEF IInv
<1>3. Onward("trigger") =>
         /\ job' \in Jobs /\ job'.live = job.live /\ job'.run = job.run /\ job'.next = "trigger"
  BY DEF Onward, IInv, Shapes, Jobs, JobSteps, Staging
<1>4. \/ /\ job' \in Jobs /\ job' = NoJob /\ app' \in Apps /\ app'.phase = app.phase
         /\ app'.mode = app.mode /\ app'.run = app.run /\ app'.verify = app.verify
         /\ app'.following = TRUE => app.following = TRUE
         /\ poll' \in Polls /\ poll'.doc = poll.doc /\ poll'.run = poll.run
         /\ poll'.live = TRUE => poll.live = TRUE
         /\ job'.next = "none" /\ job'.run = NoRun /\ job'.live = FALSE
      \/ /\ job' \in Jobs /\ job'.live = job.live /\ job'.run = job.run /\ job'.next = "trigger"
         /\ UNCHANGED <<app, poll>>
  BY <1>1, <1>2, <1>3
<1>5. inbox' \in Inboxes /\ inbox'.trigger = inbox.trigger /\ inbox'.secret = inbox.secret
  BY DEF CopiesPayload, IInv, Shapes, Inboxes
<1>6. Switches'
  BY Frames DEF CopiesPayload, docker, guest
<1>7. Shapes'
  BY <1>4, <1>5 DEF IInv, Shapes, CopiesPayload, docker, guest
<1>8. Newest'
  BY <1>4 DEF IInv, Newest, Preparing, Staging, Sending, CopiesPayload
<1>9. Accepted'
  BY <1>5 DEF IInv, Accepted, CopiesPayload, guest
<1>10. Secrets'
  BY <1>4, <1>5 DEF IInv, Secrets, CopiesPayload, guest
<1>11. Workers'
  BY <1>4 DEF IInv, Workers, Creating, Staging, CopiesPayload
<1>12. Honest(status)' /\ Honest(poll.doc)'
  BY <1>4 DEF IInv, Honest, CopiesPayload, guest
<1>13. Remembered'
  BY <1>4 DEF IInv, Remembered, CopiesPayload, docker
<1> QED
  BY <1>6, <1>7, <1>8, <1>9, <1>10, <1>11, <1>12, <1>13 DEF IInv

LEMMA WritesTriggerKeeps ==
    ASSUME IInv, WritesTrigger
    PROVE  IInv'
<1>1. \/ /\ job' \in Jobs /\ job' = NoJob /\ app' \in Apps /\ app'.phase = app.phase
         /\ app'.mode = app.mode /\ app'.run = app.run /\ app'.verify = app.verify
         /\ app'.following = TRUE => app.following = TRUE
         /\ poll' \in Polls /\ poll'.doc = poll.doc /\ poll'.run = poll.run
         /\ poll'.live = TRUE => poll.live = TRUE
         /\ job'.next = "none" /\ job'.run = NoRun /\ job'.live = FALSE
         /\ UNCHANGED inbox
      \/ /\ job' = NoJob /\ inbox' = [inbox EXCEPT !.trigger = job.run]
         /\ app' = [app EXCEPT !.following = @ \/ job.live] /\ UNCHANGED poll
  BY StageFailsIs, JobIs DEF WritesTrigger, IInv
<1>2. job' \in Jobs /\ job'.next = "none" /\ job'.run = NoRun /\ job'.live = FALSE
  BY <1>1, JobIs
<1>3. /\ inbox' \in Inboxes /\ inbox'.trigger \in {inbox.trigger, job.run}
      /\ inbox'.secret = inbox.secret
  BY <1>1 DEF IInv, Shapes, Inboxes, Jobs
<1>4. /\ app' \in Apps /\ app'.phase = app.phase /\ app'.mode = app.mode
      /\ app'.run = app.run /\ app'.verify = app.verify
      /\ app'.following = TRUE => app.following = TRUE \/ job.live = TRUE
  BY <1>1 DEF IInv, Shapes, Apps, Jobs
<1>5. /\ poll' \in Polls /\ poll'.doc = poll.doc /\ poll'.run = poll.run
      /\ poll'.live = TRUE => poll.live = TRUE
  BY <1>1 DEF IInv, Shapes
<1>6. Switches'
  BY Frames DEF WritesTrigger, docker, guest
<1>7. Shapes'
  BY <1>2, <1>3, <1>4, <1>5 DEF IInv, Shapes, WritesTrigger, docker, guest
<1>8. Newest'
  BY <1>2, <1>4 DEF IInv, Newest, Preparing, Staging, Sending, WritesTrigger
<1>9. Accepted'
  BY <1>3 DEF IInv, Shapes, Accepted, Newest, NoRun, WritesTrigger, guest
<1>10. Secrets'
  BY <1>2, <1>3 DEF IInv, Secrets, WritesTrigger, guest
<1>11. Workers'
  BY <1>2, <1>4, <1>5
  DEF IInv, Shapes, Workers, Creating, Staging, Newest, Runs, NoRun, WritesTrigger
<1>12. Honest(status)' /\ Honest(poll.doc)'
  BY <1>5 DEF IInv, Honest, WritesTrigger, guest
<1>13. Remembered'
  BY <1>2, <1>4 DEF IInv, Remembered, WritesTrigger, docker
<1> QED
  BY <1>6, <1>7, <1>8, <1>9, <1>10, <1>11, <1>12, <1>13 DEF IInv

LEMMA CommandFailsKeeps ==
    ASSUME IInv, CommandFails
    PROVE  IInv'
<1>1. /\ job' \in Jobs /\ job' = NoJob /\ app' \in Apps /\ app'.phase = app.phase
      /\ app'.mode = app.mode /\ app'.run = app.run /\ app'.verify = app.verify
      /\ app'.following = TRUE => app.following = TRUE
      /\ poll' \in Polls /\ poll'.doc = poll.doc /\ poll'.run = poll.run
      /\ poll'.live = TRUE => poll.live = TRUE
      /\ job'.next = "none" /\ job'.run = NoRun /\ job'.live = FALSE
  BY StageFailsIs, JobIs DEF CommandFails, IInv
<1>2. /\ inbox' \in Inboxes /\ inbox'.secret = inbox.secret
      /\ \/ inbox'.trigger = inbox.trigger
         \/ job.next = "trigger" /\ inbox'.trigger = job.run
  BY DEF CommandFails, IInv, Shapes, Inboxes, Jobs
<1>3. Switches'
  BY Frames DEF CommandFails, docker, guest
<1>4. Shapes'
  BY <1>1 DEF IInv, Shapes, CommandFails, docker, guest
<1>5. Newest'
  BY <1>1 DEF IInv, Newest, Preparing, Staging, Sending, CommandFails
<1>6. Accepted'
  BY DEF IInv, Accepted, CommandFails, guest
<1>7. Secrets'
  BY <1>1 DEF IInv, Secrets, CommandFails, guest
<1>8. Workers'
  BY <1>1 DEF IInv, Workers, Creating, CommandFails
<1>9. Honest(status)' /\ Honest(poll.doc)'
  BY <1>1 DEF IInv, Honest, CommandFails, guest
<1>10. Remembered'
  BY <1>1 DEF IInv, Remembered, CommandFails, docker
<1> QED
  BY <1>3, <1>4, <1>5, <1>6, <1>7, <1>8, <1>9, <1>10 DEF IInv

-----------------------------------------------------------------------------
(* It is followed.                                                         *)

LEMMA PollBeginsKeeps ==
    ASSUME IInv, PollBegins
    PROVE  IInv'
<1>1. /\ poll' \in Polls /\ poll'.run = app.run
      /\ poll'.doc \in {status, NoStatus} /\ NoStatus.phase = "absent"
  BY DEF PollBegins, NoStatus, IInv, Shapes, Apps, Polls, Documents, StatusPhases, Ids
<1>2. Switches' /\ Newest' /\ Accepted' /\ Secrets' /\ Remembered'
  BY Frames DEF PollBegins, docker, guest
<1>3. Shapes'
  BY <1>1 DEF IInv, Shapes, PollBegins, docker, guest
<1>4. Workers'
  BY DEF IInv, Workers, PollBegins
<1>5. Honest(status)' /\ Honest(poll.doc)'
  BY <1>1 DEF IInv, Honest, PollBegins, guest
<1> QED
  BY <1>2, <1>3, <1>4, <1>5 DEF IInv

LEMMA PollDeliversKeeps ==
    ASSUME IInv, PollDelivers
    PROVE  IInv'
<1>1. /\ NoPoll \in Polls /\ NoPoll.live = FALSE /\ NoPoll.doc.phase = "absent"
  BY DEF NoPoll, NoStatus, Polls, Documents, StatusPhases, Ids
<1>2. /\ poll' \in Polls /\ poll'.live = FALSE /\ poll'.doc.phase = "absent"
      /\ UNCHANGED <<docker, inbox, guest, minted, vm>>
  BY <1>1 DEF PollDelivers
<1>3. /\ app' \in Apps
      /\ app'.following = TRUE => app.following = TRUE
      /\ job' \in Jobs /\ job'.next = job.next /\ job'.run = job.run
      /\ job'.live = TRUE => job.live = TRUE
      /\ ~poll.live => app'.outcome = app.outcome
      /\ cleaning' \subseteq [run: Runs, checked: BOOLEAN]
      /\ record' \in Records /\ record'.run = record.run /\ record'.mode = record.mode
      /\ record' = NoRecord => record = NoRecord
      /\ record'.run # NoRun => record'.phase \in {"staging", "triggered"}
      /\ \/ /\ app'.phase = app.phase /\ app'.run = app.run /\ app'.mode = app.mode
            /\ app'.verify = app.verify
         \/ /\ app.phase = "provisioning" /\ app.mode = "re" /\ app'.phase = "away"
            /\ app'.run = NoRun /\ app'.mode = "first" /\ app'.following = FALSE
            /\ job'.live = FALSE
  <2>1. CASE poll.live /\ Acknowledges(poll.doc, poll.run)
    <3>1. Applies(poll.doc) /\ record' = RecordAfter(poll.doc)
      BY <2>1 DEF PollDelivers, Applies
    <3>2. poll.doc \in Documents /\ poll.doc.run \in Runs
      BY <2>1 DEF Acknowledges, IInv, Shapes, Polls, Documents, Ids
    <3>3. app.phase = "provisioning"
      BY <2>1 DEF IInv, Workers
    <3> QED
      BY <2>1, <3>1, <3>2, <3>3, AppliesIs, RecordAfterIs DEF IInv
  <2>2. CASE ~(poll.live /\ Acknowledges(poll.doc, poll.run))
    <3>1. /\ app' = (IF poll.live THEN [app EXCEPT !.seen = "absent"] ELSE app)
          /\ record' = record /\ job' = job /\ cleaning' = cleaning
      BY <2>2 DEF PollDelivers
    <3>2. /\ app' \in Apps /\ app'.phase = app.phase /\ app'.run = app.run
          /\ app'.mode = app.mode /\ app'.verify = app.verify
          /\ app'.following = app.following /\ app'.outcome = app.outcome
      BY <3>1 DEF IInv, Shapes, Apps, StatusPhases
    <3> QED
      BY <3>1, <3>2 DEF IInv, Shapes
  <2> QED
    BY <2>1, <2>2
<1>4. Switches' /\ Accepted'
  BY Frames DEF PollDelivers, docker, guest
<1>5. Shapes'
  BY <1>2, <1>3 DEF IInv, Shapes, NoRecord, docker, guest
<1>6. Newest'
  BY <1>2, <1>3 DEF IInv, Newest, NoRecord
<1>7. Secrets'
  BY <1>2, <1>3 DEF IInv, Secrets, NoRecord, guest
<1>8. Workers'
  BY <1>2, <1>3 DEF IInv, Workers, NoRecord
<1>9. Honest(status)' /\ Honest(poll.doc)'
  BY <1>2 DEF IInv, Honest, NoRecord, guest
<1>10. Remembered'
  BY <1>2, <1>3 DEF IInv, Remembered, NoRecord, docker
<1> QED
  BY <1>4, <1>5, <1>6, <1>7, <1>8, <1>9, <1>10 DEF IInv

-----------------------------------------------------------------------------
(* Its secret is delivered.                                                *)

LEMMA SelectsEnvKeeps ==
    ASSUME IInv, SelectsEnv
    PROVE  IInv'
<1>1. job' \in Jobs /\ job'.next = "ask" /\ job'.run = app.run
  BY JobIs DEF SelectsEnv, IInv, Shapes, Apps, JobSteps, Sending
<1>2. Switches' /\ Accepted' /\ Honest(status)' /\ Honest(poll.doc)'
  BY Frames DEF SelectsEnv, docker, guest
<1>3. Shapes'
  BY <1>1 DEF IInv, Shapes, SelectsEnv, docker, guest
<1>4. Newest'
  BY <1>1 DEF IInv, Newest, SelectsEnv
<1>5. Secrets'
  BY <1>1 DEF IInv, Secrets, SelectsEnv, guest
<1>6. Workers'
  BY <1>1 DEF IInv, Workers, Creating, Preparing, Staging, SelectsEnv
<1>7. Remembered'
  BY <1>1 DEF IInv, Remembered, SelectsEnv, docker
<1> QED
  BY <1>2, <1>3, <1>4, <1>5, <1>6, <1>7 DEF IInv

LEMMA SecretAsksKeeps ==
    ASSUME IInv, SecretAsks
    PROVE  IInv'
<1>1. \/ job' = NoJob
      \/ /\ status.run = job.run /\ status.phase = "waiting-for-secret"
         /\ job' = [job EXCEPT !.next = "test"]
  BY DEF SecretAsks, Acknowledges, Wants, Onward
<1>2. \/ job' \in Jobs /\ job'.next = "none" /\ job'.run = NoRun /\ job'.live = FALSE
      \/ /\ status.run = job.run /\ status.phase = "waiting-for-secret"
         /\ job' \in Jobs /\ job'.live = job.live /\ job'.run = job.run /\ job'.next = "test"
  BY <1>1, JobIs DEF IInv, Shapes, Jobs, JobSteps, Sending
<1>3. Switches' /\ Accepted' /\ Honest(status)' /\ Honest(poll.doc)'
  BY Frames DEF SecretAsks, docker, guest
<1>4. Shapes'
  BY <1>2 DEF IInv, Shapes, SecretAsks, docker, guest
<1>5. Newest'
  BY <1>2 DEF IInv, Newest, Preparing, Staging, Sending, SecretAsks
<1>6. Secrets'
  BY <1>2 DEF IInv, Secrets, Accepted, SecretAsks, guest
<1>7. Workers'
  BY <1>2 DEF IInv, Workers, Creating, Preparing, Staging, SecretAsks
<1>8. Remembered'
  BY <1>2 DEF IInv, Remembered, SecretAsks, docker
<1> QED
  BY <1>3, <1>4, <1>5, <1>6, <1>7, <1>8 DEF IInv

LEMMA SecretTestsKeeps ==
    ASSUME IInv, SecretTests
    PROVE  IInv'
<1>1. /\ app' \in Apps /\ app'.phase = app.phase /\ app'.mode = app.mode
      /\ app'.run = app.run /\ app'.verify = app.verify /\ app'.following = app.following
  BY DEF SecretTests, Sent, IInv, Shapes, Apps
<1>2. job' = NoJob \/ job' = [job EXCEPT !.next = "send"]
  BY DEF SecretTests, Onward
<1>3. \/ job' \in Jobs /\ job'.next = "none" /\ job'.run = NoRun /\ job'.live = FALSE
      \/ job' \in Jobs /\ job'.live = job.live /\ job'.run = job.run /\ job'.next = "send"
  BY <1>2, JobIs DEF IInv, Shapes, Jobs, JobSteps, Sending
<1>4. Switches' /\ Accepted' /\ Honest(status)' /\ Honest(poll.doc)'
  BY Frames DEF SecretTests, docker, guest
<1>5. Shapes'
  BY <1>1, <1>3 DEF IInv, Shapes, SecretTests, docker, guest
<1>6. Newest'
  BY <1>1, <1>3 DEF IInv, Newest, Preparing, Staging, Sending, SecretTests
<1>7. Secrets'
  BY <1>3 DEF IInv, Secrets, SecretTests, guest
<1>8. Workers'
  BY <1>1, <1>3 DEF IInv, Workers, Creating, Preparing, Staging, SecretTests
<1>9. Remembered'
  BY <1>1, <1>3 DEF IInv, Remembered, SecretTests, docker
<1> QED
  BY <1>4, <1>5, <1>6, <1>7, <1>8, <1>9 DEF IInv

LEMMA SecretSendsKeeps ==
    ASSUME IInv, SecretSends
    PROVE  IInv'
<1>1. /\ app' \in Apps /\ app'.phase = app.phase /\ app'.mode = app.mode
      /\ app'.run = app.run /\ app'.verify = app.verify /\ app'.following = app.following
  BY DEF SecretSends, Sent, IInv, Shapes, Apps
<1>2. job' \in Jobs /\ job'.next = "none" /\ job'.run = NoRun /\ job'.live = FALSE
  BY JobIs DEF SecretSends
<1>3. /\ inbox' \in Inboxes /\ inbox'.trigger = inbox.trigger
      /\ inbox'.secret \in {inbox.secret, job.run}
  BY DEF SecretSends, IInv, Shapes, Jobs, Inboxes
<1>4. Switches' /\ Honest(status)' /\ Honest(poll.doc)'
  BY Frames DEF SecretSends, docker, guest
<1>5. Shapes'
  BY <1>1, <1>2, <1>3 DEF IInv, Shapes, SecretSends, docker, guest
<1>6. Newest'
  BY <1>1, <1>2 DEF IInv, Newest, Preparing, Staging, Sending, SecretSends
<1>7. Accepted'
  BY <1>3 DEF IInv, Accepted, SecretSends, guest
<1>8. Secrets'
  BY <1>2, <1>3
  DEF IInv, Shapes, Secrets, Accepted, Newest, Runs, NoRun, SecretSends, guest
<1>9. Workers'
  BY <1>1, <1>2 DEF IInv, Workers, Creating, SecretSends
<1>10. Remembered'
  BY <1>1, <1>2 DEF IInv, Remembered, SecretSends, docker
<1> QED
  BY <1>4, <1>5, <1>6, <1>7, <1>8, <1>9, <1>10 DEF IInv

LEMMA SecretFailsKeeps ==
    ASSUME IInv, SecretFails
    PROVE  IInv'
<1>1. job' \in Jobs /\ job'.next = "none" /\ job'.run = NoRun /\ job'.live = FALSE
  BY JobIs DEF SecretFails
<1>2. /\ inbox' \in Inboxes /\ inbox'.trigger = inbox.trigger
      /\ \/ inbox'.secret = inbox.secret
         \/ job.next = "send" /\ inbox'.secret = job.run
  BY DEF SecretFails, IInv, Shapes, Jobs, Inboxes
<1>3. Switches' /\ Honest(status)' /\ Honest(poll.doc)'
  BY Frames DEF SecretFails, docker, guest
<1>4. Shapes'
  BY <1>1 DEF IInv, Shapes, SecretFails, docker, guest
<1>5. Newest'
  BY <1>1 DEF IInv, Newest, Preparing, Staging, Sending, SecretFails
<1>6. Accepted'
  BY DEF IInv, Accepted, SecretFails, guest
<1>7. Secrets'
  BY <1>1 DEF IInv, Secrets, SecretFails, guest
<1>8. Workers'
  BY <1>1 DEF IInv, Workers, Creating, SecretFails
<1>9. Remembered'
  BY <1>1 DEF IInv, Remembered, SecretFails, docker
<1> QED
  BY <1>3, <1>4, <1>5, <1>6, <1>7, <1>8, <1>9 DEF IInv

-----------------------------------------------------------------------------
(* What is left of it is removed.                                          *)

LEMMA CleanupReadsKeeps ==
    ASSUME NEW c, IInv, CleanupReads(c)
    PROVE  IInv'
<1>1. Switches' /\ Newest' /\ Accepted' /\ Secrets'
      /\ Workers' /\ Honest(status)' /\ Honest(poll.doc)' /\ Remembered'
  BY Frames DEF CleanupReads, docker, guest
<1>2. Shapes'
  BY DEF IInv, Shapes, CleanupReads, docker, guest
<1> QED
  BY <1>1, <1>2 DEF IInv

LEMMA CleanupRemovesKeeps ==
    ASSUME NEW c, IInv, CleanupRemoves(c)
    PROVE  IInv'
<1>1. inbox' \in Inboxes /\ inbox'.trigger = NoRun /\ inbox'.secret = NoRun
  BY InboxIs DEF CleanupRemoves, IInv, Shapes, Inboxes
<1>2. Switches' /\ Newest' /\ Workers' /\ Honest(status)'
      /\ Honest(poll.doc)' /\ Remembered'
  BY Frames DEF CleanupRemoves, docker, guest
<1>3. Shapes'
  BY <1>1 DEF IInv, Shapes, CleanupRemoves, docker, guest
<1>4. Accepted'
  BY <1>1 DEF IInv, Shapes, Accepted, NoRun, CleanupRemoves, guest
<1>5. Secrets'
  BY <1>1 DEF IInv, Shapes, Secrets, Ids, Runs, NoRun, CleanupRemoves, guest
<1> QED
  BY <1>2, <1>3, <1>4, <1>5 DEF IInv

LEMMA CleanupFailsKeeps ==
    ASSUME NEW c, IInv, CleanupFails(c)
    PROVE  IInv'
<1>1. Switches' /\ Newest' /\ Accepted' /\ Secrets'
      /\ Workers' /\ Honest(status)' /\ Honest(poll.doc)' /\ Remembered'
  BY Frames DEF CleanupFails, docker, guest
<1>2. Shapes'
  BY DEF IInv, Shapes, CleanupFails, docker, guest
<1> QED
  BY <1>1, <1>2 DEF IInv

-----------------------------------------------------------------------------
(* The app connects.                                                       *)

LEMMA ConnectsKeeps ==
    ASSUME IInv, Connects
    PROVE  IInv'
<1>1. /\ job' \in Jobs /\ job'.next = job.next /\ job'.run = job.run /\ job'.live = FALSE
      /\ poll' \in Polls /\ poll'.doc = poll.doc /\ poll'.live = FALSE
  BY JobIs, PollIs DEF Connects, IInv, Shapes
<1>2. /\ app' \in Apps /\ app'.phase = "connecting" /\ app'.mode = app.mode
      /\ app'.run = app.run /\ app'.verify = app.verify /\ app'.following = FALSE
  BY DEF Connects, IInv, Shapes, Apps, Phases
<1>3. Switches' /\ Accepted'
  BY Frames DEF Connects, docker, guest
<1>4. Shapes'
  BY <1>1, <1>2 DEF IInv, Shapes, Connects, docker, guest
<1>5. Newest'
  BY <1>1 DEF IInv, Newest, Connects
<1>6. Secrets'
  BY <1>1 DEF IInv, Secrets, Connects, guest
<1>7. Workers'
  BY <1>1 DEF IInv, Workers, Connects
<1>8. Honest(status)' /\ Honest(poll.doc)'
  BY <1>1 DEF IInv, Honest, Connects, guest
<1>9. Remembered'
  BY <1>1 DEF IInv, Remembered, Connects
<1> QED
  BY <1>3, <1>4, <1>5, <1>6, <1>7, <1>8, <1>9 DEF IInv

LEMMA ConnectSucceedsKeeps ==
    ASSUME IInv, ConnectSucceeds
    PROVE  IInv'
<1>1. /\ In("away") \in Apps /\ In("away").phase = "away" /\ In("away").mode = "first"
      /\ In("away").run = NoRun /\ In("away").following = FALSE
  BY InIs DEF Phases
<1>2. /\ app' \in Apps /\ app'.phase = "away" /\ app'.mode = "first"
      /\ app'.run = NoRun /\ app'.following = FALSE
  BY <1>1 DEF ConnectSucceeds, IInv, Shapes, Apps
<1>3. record' \in Records /\ record'.run = NoRun /\ record'.mode = "first" /\ connected'
  BY RecordIs DEF ConnectSucceeds
<1>4. Accepted' /\ Secrets' /\ Honest(status)' /\ Honest(poll.doc)'
  BY Frames DEF ConnectSucceeds, docker, guest
<1>5. Switches'
  BY DEF IInv, Switches, ConnectSucceeds, docker
<1>6. Shapes'
  BY <1>2, <1>3 DEF IInv, Shapes, ConnectSucceeds, docker, guest
<1>7. Newest'
  BY <1>2, <1>3 DEF IInv, Newest, ConnectSucceeds
<1>8. Workers'
  BY <1>2 DEF IInv, Workers, ConnectSucceeds
<1>9. Remembered'
  BY <1>2, <1>3 DEF IInv, Remembered, ConnectSucceeds
<1> QED
  BY <1>4, <1>5, <1>6, <1>7, <1>8, <1>9 DEF IInv

LEMMA ConnectFailsKeeps ==
    ASSUME IInv, ConnectFails
    PROVE  IInv'
<1>1. /\ In("start_failed") \in Apps /\ In("start_failed").phase = "start_failed"
      /\ In("start_failed").run = NoRun /\ In("start_failed").following = FALSE
      /\ In("start_failed").verify = FALSE
  BY InIs DEF Phases
<1>2. /\ app' \in Apps /\ app'.phase \in {"provisioning", "start_failed"} /\ app'.mode = app.mode
      /\ app'.run \in {app.run, NoRun} /\ app'.following = FALSE
      /\ app'.verify = TRUE => app.verify = TRUE
  BY <1>1 DEF ConnectFails, IInv, Shapes, Workers, Apps, Phases
<1>3. Switches' /\ Accepted' /\ Secrets' /\ Honest(status)' /\ Honest(poll.doc)'
  BY Frames DEF ConnectFails, docker, guest
<1>4. Shapes'
  BY <1>2 DEF IInv, Shapes, ConnectFails, docker, guest
<1>5. Newest'
  BY <1>2 DEF IInv, Newest, ConnectFails
<1>6. Workers'
  BY <1>2 DEF IInv, Workers, ConnectFails
<1>7. Remembered'
  BY <1>2 DEF IInv, Remembered, ConnectFails, docker
<1> QED
  BY <1>3, <1>4, <1>5, <1>6, <1>7 DEF IInv

LEMMA VerifiesKeeps ==
    ASSUME IInv, Verifies
    PROVE  IInv'
<1>1. /\ app' \in Apps /\ app'.phase = "away" /\ app'.mode = app.mode
      /\ app'.run = app.run /\ app'.following = app.following /\ app'.verify = FALSE
  BY DEF Verifies, IInv, Shapes, Apps
<1>2. /\ record' \in Records /\ record'.run \in {record.run, NoRun}
      /\ record'.mode = "re" => record.mode = "re"
      /\ record' = record \/ record'.run = NoRun
  BY RecordIs DEF Verifies, IInv, Shapes
<1>3. Switches' /\ Accepted' /\ Secrets' /\ Honest(status)' /\ Honest(poll.doc)'
  BY Frames DEF Verifies, docker, guest
<1>4. Shapes'
  BY <1>1, <1>2 DEF IInv, Shapes, Verifies, docker, guest
<1>5. Newest'
  BY <1>2 DEF IInv, Newest, Verifies
<1>6. Workers'
  BY DEF IInv, Workers, Verifies
<1>7. Remembered'
  BY DEF IInv, Remembered, Workers, Creating, Verifies
<1> QED
  BY <1>3, <1>4, <1>5, <1>6, <1>7 DEF IInv

-----------------------------------------------------------------------------
(* The guest.                                                              *)

LEMMA WatcherReadsKeeps ==
    ASSUME IInv, WatcherReads
    PROVE  IInv'
<1>1. inbox.trigger \in Runs /\ accepted < inbox.trigger
  BY DEF WatcherReads, IInv, Shapes, Accepted, Inboxes, Ids, Runs, NoRun
<1>2. inbox.secret = NoRun
  BY <1>1 DEF IInv, Shapes, Secrets, Inboxes, Ids, Runs, NoRun
<1>3. exec' = [run |-> inbox.trigger, step |-> "copying"]
  BY DEF WatcherReads
<1>4. UNCHANGED <<docker, inbox, accepted, status, ran, finished, record, host, vm>>
  BY DEF WatcherReads
<1>5. Switches' /\ Newest' /\ Workers' /\ Honest(status)'
      /\ Honest(poll.doc)' /\ Remembered'
  BY Frames DEF WatcherReads, docker, host
<1>6. Shapes'
  BY <1>1, <1>3, <1>4 DEF IInv, Shapes, Ids, docker, host
<1>7. Accepted'
  BY <1>1, <1>3, <1>4 DEF IInv, Accepted, Runs, host
<1>8. Secrets'
  BY <1>2, <1>3, <1>4 DEF IInv, Secrets, host
<1> QED
  BY <1>5, <1>6, <1>7, <1>8 DEF IInv

LEMMA RunStartsKeeps ==
    ASSUME IInv, RunStarts
    PROVE  IInv'
<1>1. Switches' /\ Newest' /\ Workers' /\ Remembered'
  BY Frames DEF RunStarts, docker, host
<1>2. Shapes'
  BY DEF IInv, Shapes, Documents, Working, StatusPhases, RunStarts, Status, docker, host
<1>3. Accepted'
  BY DEF IInv, Shapes, Accepted, Ids, Runs, NoRun, RunStarts, Status, host
<1>4. Secrets'
  BY DEF IInv, Shapes, Secrets, Accepted, Newest, Sending, Runs, NoRun, RunStarts,
         Status, host
<1>5. Honest(status)' /\ Honest(poll.doc)'
  BY DEF IInv, Honest, RunStarts, Status, host
<1> QED
  BY <1>1, <1>2, <1>3, <1>4, <1>5 DEF IInv

LEMMA MarkFailsKeeps ==
    ASSUME IInv, MarkFails
    PROVE  IInv'
<1>1. Switches' /\ Newest' /\ Workers' /\ Remembered'
  BY Frames DEF MarkFails, docker, host
<1>2. Shapes'
  BY DEF IInv, Shapes, Documents, Working, StatusPhases, Ids, Runs, NoRun, MarkFails,
         Status, Idle, docker, host
<1>3. Accepted'
  BY DEF IInv, Shapes, Accepted, Ids, Runs, NoRun, MarkFails, Status, Idle, host
<1>4. Secrets'
  BY DEF IInv, Secrets, MarkFails, Idle, host
<1>5. Honest(status)' /\ Honest(poll.doc)'
  BY DEF IInv, Honest, MarkFails, Status, host
<1> QED
  BY <1>1, <1>2, <1>3, <1>4, <1>5 DEF IInv

LEMMA CopyFailsKeeps ==
    ASSUME IInv, CopyFails
    PROVE  IInv'
<1>1. Switches' /\ Newest' /\ Workers' /\ Remembered'
  BY Frames DEF CopyFails, docker, host
<1>2. Shapes'
  BY DEF IInv, Shapes, Documents, Working, StatusPhases, Ids, Runs, NoRun, CopyFails,
         Status, Idle, docker, host
<1>3. Accepted'
  BY DEF IInv, Shapes, Accepted, Ids, Runs, NoRun, CopyFails, Status, Idle, host
<1>4. Secrets'
  BY DEF IInv, Shapes, Secrets, Accepted, Newest, Sending, Runs, NoRun, CopyFails,
         Status, Idle, host
<1>5. Honest(status)' /\ Honest(poll.doc)'
  BY DEF IInv, Honest, CopyFails, Status, Idle, host
<1> QED
  BY <1>1, <1>2, <1>3, <1>4, <1>5 DEF IInv

LEMMA GuestAsksKeeps ==
    ASSUME IInv, GuestAsks
    PROVE  IInv'
<1>1. Switches' /\ Newest' /\ Workers' /\ Remembered'
  BY Frames DEF GuestAsks, docker, host
<1>2. Shapes'
  BY DEF IInv, Shapes, Documents, Working, StatusPhases, GuestAsks, Status, docker, host
<1>3. Accepted'
  BY DEF IInv, Accepted, GuestAsks, Status, host
<1>4. Secrets'
  BY DEF IInv, Secrets, GuestAsks, Status, host
<1>5. Honest(status)' /\ Honest(poll.doc)'
  BY DEF IInv, Honest, GuestAsks, Status, host
<1> QED
  BY <1>1, <1>2, <1>3, <1>4, <1>5 DEF IInv

LEMMA GuestTakesKeeps ==
    ASSUME IInv, GuestTakes
    PROVE  IInv'
<1>1. Switches' /\ Newest' /\ Workers' /\ Remembered'
  BY Frames DEF GuestTakes, docker, host
<1>2. Shapes'
  BY DEF IInv, Shapes, Documents, Working, StatusPhases, GuestTakes, Status, Wants,
         docker, host
<1>3. Accepted'
  BY DEF IInv, Accepted, GuestTakes, Status, Wants, host
<1>4. Secrets'
  BY DEF IInv, Secrets, GuestTakes, Status, Wants, host
<1>5. Honest(status)' /\ Honest(poll.doc)'
  BY DEF IInv, Honest, GuestTakes, Status, Wants, host
<1> QED
  BY <1>1, <1>2, <1>3, <1>4, <1>5 DEF IInv

LEMMA GuestEndsKeeps ==
    ASSUME IInv, GuestEnds
    PROVE  IInv'
<1>1. /\ exec.run \in Runs /\ exec.run \in ran /\ exec.run = accepted
      /\ exec.step \in Working
  BY DEF GuestEnds, IInv, Shapes, Accepted, Working
<1>2. /\ exec' \in [run: Ids, step: Working \union {"idle", "copying"}]
      /\ exec'.run = NoRun /\ exec'.step = "idle"
      /\ exec'.run \notin Runs
  BY DEF GuestEnds, Idle, Ids, Runs, NoRun
<1>3. /\ status' \in Documents /\ status'.run = exec.run
      /\ finished' \subseteq finished \union {exec.run} /\ finished \subseteq finished'
      /\ Honest(status)'
  BY <1>1 DEF GuestEnds, Status, Honest, Documents, StatusPhases, Ids
<1>4. UNCHANGED <<docker, inbox, accepted, ran, record, host, vm>>
  BY DEF GuestEnds
<1>5. Switches' /\ Newest' /\ Workers' /\ Remembered'
  BY Frames DEF GuestEnds, docker, host
<1>6. Shapes'
  BY <1>1, <1>2, <1>3, <1>4 DEF IInv, Shapes, docker, host
<1>7. Accepted'
  BY <1>1, <1>2, <1>3, <1>4 DEF IInv, Shapes, Accepted, NoRun, host
<1>8. Secrets'
  BY <1>2, <1>4 DEF IInv, Secrets, host
<1>9. Honest(status)' /\ Honest(poll.doc)'
  BY <1>3, <1>4 DEF IInv, Honest, host
<1> QED
  BY <1>5, <1>6, <1>7, <1>8, <1>9 DEF IInv

LEMMA RebootsKeeps ==
    ASSUME IInv, Reboots
    PROVE  IInv'
<1>1. /\ inbox' \in Inboxes
      /\ \/ inbox'.trigger = inbox.trigger /\ inbox'.secret = inbox.secret
         \/ inbox'.trigger = NoRun /\ inbox'.secret = NoRun
  BY InboxIs DEF Reboots, IInv, Shapes
<1>2. /\ exec' \in [run: Ids, step: Working \union {"idle", "copying"}]
      /\ exec'.run = NoRun /\ exec'.step = "idle"
  BY DEF Reboots, Idle, Ids
<1>3. boot' \in Nat \ {0}
  BY DEF Reboots, IInv, Shapes
<1>4. Newest' /\ Workers' /\ Honest(status)' /\ Honest(poll.doc)' /\ Remembered'
  BY Frames DEF Reboots, host
<1>5. Switches'
  BY <1>1, <1>2, <1>3, ProvisioningAssumption DEF IInv, Switches, Reboots, host
<1>6. Shapes'
  BY <1>1, <1>2 DEF IInv, Shapes, Runs, NoRun, Reboots, host
<1>7. Accepted'
  BY <1>1, <1>2 DEF IInv, Shapes, Accepted, NoRun, Reboots, host
<1>8. Secrets'
  BY <1>1, <1>2 DEF IInv, Shapes, Secrets, Ids, Runs, NoRun, Reboots, host
<1> QED
  BY <1>4, <1>5, <1>6, <1>7, <1>8 DEF IInv

-----------------------------------------------------------------------------
(* Every step of the specification.                                        *)

LEMMA Begins == Init => IInv
<1> SUFFICES ASSUME Init PROVE IInv
  OBVIOUS
<1>1. Switches
  BY DEF Init, Switches
<1>2. /\ job = NoJob /\ app = Closed /\ record = NoRecord /\ inbox = NoInbox
      /\ exec = Idle /\ status = NoStatus /\ poll = NoPoll /\ ran = {} /\ finished = {}
      /\ accepted = NoRun /\ minted = 0 /\ boot = 1 /\ cleaning = {} /\ connected = container
      /\ orphan = FALSE
  BY DEF Init
<1>3. /\ Closed \in Apps /\ Closed.phase = "closed" /\ Closed.mode = "first"
      /\ Closed.run = NoRun /\ Closed.following = FALSE /\ Closed.verify = FALSE
  BY DEF Closed, Apps, Phases, Modes, Ids, StatusPhases, Outcomes
<1>4. /\ NoPoll \in Polls /\ NoPoll.live = FALSE /\ NoPoll.doc = NoStatus
      /\ NoStatus \in Documents /\ NoStatus.run = NoRun /\ NoStatus.phase = "absent"
  BY DEF NoPoll, NoStatus, Polls, Documents, StatusPhases, Ids
<1>5. /\ Idle \in [run: Ids, step: Working \union {"idle", "copying"}]
      /\ Idle.run = NoRun /\ Idle.step = "idle"
  BY DEF Idle, Ids
<1>6. Shapes
  BY <1>2, <1>3, <1>4, <1>5, JobIs, RecordIs, InboxIs, ProvisioningAssumption
  DEF Shapes, Ids, Runs, NoRun
<1>7. Newest
  BY <1>2, <1>3, JobIs, RecordIs DEF Newest, NoRun, Preparing, Staging, Sending
<1>8. Accepted /\ Secrets
  BY <1>2, <1>4, <1>5, JobIs, InboxIs DEF Accepted, Secrets, NoRun
<1>9. Workers
  BY <1>2, <1>3, <1>4, JobIs DEF Workers, Creating, Preparing, Staging
<1>10. Honest(status) /\ Honest(poll.doc)
  BY <1>2, <1>4 DEF Honest
<1>11. Remembered
  BY <1>2, <1>3, JobIs, RecordIs DEF Remembered
<1> QED
  BY <1>1, <1>6, <1>7, <1>8, <1>9, <1>10, <1>11 DEF IInv

LEMMA Rests ==
    ASSUME IInv, UNCHANGED vars
    PROVE  IInv'
BY DEF IInv, Switches, Shapes, Newest, Accepted, Secrets, Workers, Honest, Remembered,
       vars, docker, guest, host

LEMMA Inductive ==
    ASSUME IInv, [Next]_vars
    PROVE  IInv'
<1>1. CASE AppEnds \/ Starts
  BY <1>1, AppEndsKeeps, StartsPlainlyKeeps, StartsWithRecordKeeps DEF Starts
<1>2. CASE Creates
  BY <1>2, RechecksKeeps, AskCreateKeeps, CreatesRecordKeeps, ComposesKeeps,
     OrphanComposesKeeps, CreatedRecordKeeps, CreationFailsKeeps, DiscardKeeps
  DEF Creates
<1>3. CASE Asks
  BY <1>3, AskProvisionKeeps, AskReprovisionKeeps, AskRetryKeeps DEF Asks
<1>4. CASE Stages
  BY <1>4, RecordsIntentKeeps, ProbeAnswersKeeps, RecordsRunKeeps, EnsuresChannelKeeps,
     ChecksKeeps, ResetsInboxKeeps, CopiesPayloadKeeps, WritesTriggerKeeps, CommandFailsKeeps
  DEF Stages
<1>5. CASE Follows
  BY <1>5, PollBeginsKeeps, PollDeliversKeeps DEF Follows
<1>6. CASE Delivers
  BY <1>6, SelectsEnvKeeps, SecretAsksKeeps, SecretTestsKeeps, SecretSendsKeeps,
     SecretFailsKeeps
  DEF Delivers
<1>7. CASE CleansUp
  BY <1>7, CleanupReadsKeeps, CleanupRemovesKeeps, CleanupFailsKeeps DEF CleansUp
<1>8. CASE Connecting
  BY <1>8, ConnectsKeeps, ConnectSucceedsKeeps, ConnectFailsKeeps, VerifiesKeeps
  DEF Connecting
<1>9. CASE Guest
  BY <1>9, WatcherReadsKeeps, RunStartsKeeps, MarkFailsKeeps, CopyFailsKeeps,
     GuestAsksKeeps, GuestTakesKeeps, GuestEndsKeeps
  DEF Guest
<1>10. CASE Reboots
  BY <1>10, RebootsKeeps
<1>11. CASE UNCHANGED vars
  BY <1>11, Rests
<1> QED
  BY <1>1, <1>2, <1>3, <1>4, <1>5, <1>6, <1>7, <1>8, <1>9, <1>10, <1>11 DEF Next

LEMMA Invariant == Spec => []IInv
<1>1. IInv /\ [Next]_vars => IInv'
  BY Inductive
<1> QED
  BY Begins, <1>1, PTL DEF Spec

-----------------------------------------------------------------------------
(* The properties.                                                         *)

\* A VM the app created is recorded until a connect has succeeded, so no restart
\* of the app mounts a half-made one, unless the operator discarded its note while
\* Compose had made it, or was still to.
THEOREM HalfMadeVmIsKnown == Spec => []VmIsRemembered
<1>1. IInv => TypeOK
  <2> SUFFICES ASSUME IInv PROVE TypeOK
    OBVIOUS
  <2>1. /\ container \in BOOLEAN /\ orphan \in BOOLEAN /\ channel \in BOOLEAN
        /\ connected \in BOOLEAN /\ forgotten \in BOOLEAN
    BY DEF IInv, Switches
  <2>2. /\ boot \in Nat \ {0}
        /\ inbox \in [there: BOOLEAN, payload: BOOLEAN, trigger: Runs \union {NoRun},
                      secret: Runs \union {NoRun}]
        /\ accepted \in Runs \union {NoRun} /\ ran \subseteq Runs /\ finished \subseteq ran
        /\ exec.run \in Runs <=> exec.step # "idle"
        /\ status.run \in Runs \union {NoRun}
        /\ record.run # NoRun => record.phase \in {"staging", "triggered"}
        /\ app.phase \in Phases
    BY DEF IInv, Shapes, Inboxes, Documents, Apps, Ids
  <2>3. /\ app.following => app.phase = "provisioning" /\ app.run \in Runs
        /\ job.live => app.phase \in {"setup", "provisioning"}
    BY DEF IInv, Workers
  <2>4. \A c \in cleaning : c.run \in Runs
    BY DEF IInv, Shapes
  <2> QED
    BY <2>1, <2>2, <2>3, <2>4 DEF TypeOK
<1>2. IInv => VmIsRemembered
  BY <1>1 DEF VmIsRemembered, IInv, Remembered
<1> QED
  BY <1>2, Invariant, PTL

\* A run that is being copied in is newer than all the guest ever accepted.
THEOREM NoRunTwice == Spec => RunsOnce
<1>1. IInv => (exec.step = "copying" => exec.run \notin ran)
  BY DEF IInv, Shapes, Accepted, Ids, Runs, NoRun
<1>2. IInv /\ [Next]_vars =>
         [exec.step = "copying" /\ exec'.step = "working" => exec.run \notin ran]_vars
  BY <1>1
<1> QED
  BY <1>2, Invariant, PTL DEF Spec, RunsOnce

\* The secret in the inbox is of the run the guest has accepted, which is the one
\* that takes it.
THEOREM SecretIsItsOwn == Spec => OwnSecret
<1>1. IInv => (GuestTakes => inbox.secret = exec.run)
  BY DEF IInv, Accepted, Secrets, GuestTakes, Wants
<1>2. IInv /\ [Next]_vars => [GuestTakes => inbox.secret = exec.run]_vars
  BY <1>1
<1> QED
  BY <1>2, Invariant, PTL DEF Spec, OwnSecret

\* A step that calls a run done is one of two.
LEMMA MayConclude ==
    ASSUME IInv, [Next]_vars
    PROVE  \/ StartsWithRecord \/ PollDelivers
           \/ /\ app'.outcome = "done" =>
                    app.outcome = "done" /\ (app'.run = app.run \/ ProbeAnswers)
              /\ app'.verify => app.verify
<1>1. CASE UNCHANGED app
  BY <1>1
<1>2. CASE AppEnds
  BY <1>2 DEF AppEnds, Closed
<1>3. CASE StartsPlainly
  <2> DEFINE away == In("away")
             setup == In("setup")
  <2>1. /\ away \in Apps /\ away.outcome = "none" /\ away.verify = FALSE
        /\ setup \in Apps /\ setup.outcome = "none" /\ setup.verify = FALSE
    BY InIs DEF Phases
  <2>2. app' = IF container THEN away
               ELSE [setup EXCEPT !.absent = TRUE, !.gone = record # NoRecord]
    BY <1>3 DEF StartsPlainly
  <2> HIDE DEF away, setup
  <2> QED
    BY <2>1, <2>2 DEF Apps
<1>4. CASE CreatedRecord \/ Asks
  <2> DEFINE p == In("provisioning")
  <2>1. p \in Apps /\ p.outcome = "none" /\ p.verify = FALSE
    BY InIs DEF Phases
  <2>2. PICK mode, run : app' = [p EXCEPT !.mode = mode, !.run = run]
    BY <1>4 DEF CreatedRecord, Asks, AskProvision, AskReprovision, AskRetry, BeginRun
  <2> HIDE DEF p
  <2> QED
    BY <2>1, <2>2 DEF Apps
<1>5. CASE StageFails
  BY <1>5, StageFailsIs DEF IInv
<1>6. CASE ProbeAnswers \/ WritesTrigger
  BY <1>5, <1>6 DEF ProbeAnswers, WritesTrigger, IInv, Shapes, Apps
<1>7. CASE SecretTests \/ SecretSends
  BY <1>7 DEF SecretTests, SecretSends, Sent, IInv, Shapes, Apps
<1>8. CASE Connecting
  <2>1. /\ In("away") \in Apps /\ In("away").outcome = "none"
        /\ In("start_failed") \in Apps /\ In("start_failed").outcome = "none"
        /\ In("start_failed").verify = FALSE
    BY InIs DEF Phases
  <2> QED
    BY <1>8, <2>1
    DEF Connecting, Connects, ConnectSucceeds, ConnectFails, Verifies, IInv, Shapes, Apps
<1>9. CASE Creates
  BY <1>1, <1>4, <1>9 DEF Creates, Rechecks, AskCreate, CreatesRecord, Composes, OrphanComposes,
                       CreationFails, Discard, host, IInv, Shapes, Apps
<1>10. CASE Stages
  BY <1>1, <1>5, <1>6, <1>10
  DEF Stages, RecordsIntent, RecordsRun, EnsuresChannel, Checks, ResetsInbox, CopiesPayload,
      CommandFails
<1>11. CASE Delivers
  BY <1>1, <1>7, <1>11 DEF Delivers, SelectsEnv, SecretAsks, SecretFails
<1>12. CASE Follows
  BY <1>1, <1>12 DEF Follows, PollBegins
<1>13. CASE CleansUp
  BY <1>1, <1>13 DEF CleansUp, CleanupReads, CleanupRemoves, CleanupFails
<1>14. CASE Guest \/ Reboots \/ UNCHANGED vars
  BY <1>1, <1>14 DEF Guest, WatcherReads, RunStarts, MarkFails, CopyFails, GuestAsks, GuestTakes,
                     GuestEnds, Reboots, vars, host
<1> QED
  BY <1>2, <1>3, <1>4, <1>8, <1>9, <1>10, <1>11, <1>12, <1>13, <1>14 DEF Next, Starts

\* A starting app calls a run done that the status it reads says is done.
LEMMA StartsTruly ==
    ASSUME IInv, StartsWithRecord
    PROVE  /\ app'.verify = FALSE
           /\ app'.outcome = "done" => app'.run \in finished \ {NoRun}
<1>1. PICK doc \in {status, NoStatus} :
         IF Resume(doc) = "retry-stage" THEN BeginRun(record.mode, record.run)
         ELSE app' = Resumed(doc) /\ UNCHANGED <<job, poll>>
  BY DEF StartsWithRecord
<1>2. NoStatus \in Documents /\ Honest(NoStatus)
  BY DEF NoStatus, Documents, StatusPhases, Ids, Honest
<1>3. doc \in Documents /\ Honest(doc)
  BY <1>2 DEF IInv, Shapes
<1>4. record.run \in Ids /\ record.mode \in Modes
  BY DEF IInv, Shapes, Records
<1>5. CASE Resume(doc) = "retry-stage"
  <2>1. BeginRun(record.mode, record.run)
    BY <1>1, <1>5
  <2> QED
    BY <1>4, <2>1, BeginRunIs DEF IInv
<1>6. CASE Resume(doc) # "retry-stage"
  <2>1. app' = Resumed(doc) /\ Shapes
    BY <1>1, <1>6 DEF IInv
  <2>2. /\ app'.verify = FALSE
        /\ app'.outcome = "done" =>
              /\ Acknowledges(doc, record.run) /\ app'.run = record.run
              /\ doc.phase = "done" /\ ~doc.failed
    BY <1>3, <1>6, <2>1, ResumedIs
  <2> QED
    BY <1>3, <2>2 DEF Acknowledges, Honest
<1> QED
  BY <1>5, <1>6

\* A poll that is still listened to has read of the run the app follows.
LEMMA PollTruly ==
    ASSUME IInv, PollDelivers
    PROVE  \/ app'.outcome = app.outcome /\ app'.verify = app.verify /\ app'.run = app.run
           \/ app'.outcome # "done" /\ app'.verify = app.verify
           \/ /\ app.run \in finished \ {NoRun}
              /\ app'.outcome = "done" => app'.run = app.run
<1>1. app \in Apps /\ poll.doc \in Documents
  BY DEF IInv, Shapes, Polls
<1>2. CASE ~(poll.live /\ Acknowledges(poll.doc, poll.run))
  <2>1. app' = IF poll.live THEN [app EXCEPT !.seen = "absent"] ELSE app
    BY <1>2 DEF PollDelivers
  <2> QED
    BY <1>1, <2>1 DEF Apps
<1>3. CASE poll.live /\ Acknowledges(poll.doc, poll.run)
  <2> DEFINE a == [app EXCEPT !.seen = poll.doc.phase]
  <2>1. app' = IF poll.doc.failed THEN Failed(a)
               ELSE IF poll.doc.phase = "done" THEN Finished(a) ELSE a
    BY <1>3 DEF PollDelivers, Applies
  <2>2. /\ a \in Apps /\ a.outcome = app.outcome /\ a.verify = app.verify
        /\ a.run = app.run /\ a.mode = app.mode
    BY <1>1 DEF Apps, Documents
  <2> HIDE DEF a
  <2>3. poll.doc.run = app.run /\ app.run # NoRun
    BY <1>3 DEF IInv, Workers, Acknowledges
  <2>4. CASE poll.doc.failed
    BY <2>1, <2>2, <2>4, FailedIs
  <2>5. CASE ~poll.doc.failed /\ poll.doc.phase = "done"
    <3>1. app' = Finished(a) /\ app.run \in finished \ {NoRun}
      BY <2>1, <2>3, <2>5 DEF IInv, Honest
    <3>2. a.mode \in {"first", "re"}
      BY <2>2 DEF Apps, Modes
    <3> QED
      BY <2>2, <3>1, <3>2, FinishedIs
  <2>6. CASE ~poll.doc.failed /\ poll.doc.phase # "done"
    BY <2>1, <2>2, <2>6
  <2> QED
    BY <2>4, <2>5, <2>6
<1> QED
  BY <1>2, <1>3

\* What the app calls done has ended well: the status it has read says so of the
\* run it follows or has on record.
THEOREM DoneIsDone == Spec => ConcludesOwnRun
<1> DEFINE Concludes == \/ app.outcome # "done" /\ app'.outcome = "done"
                        \/ ~app.verify /\ app'.verify
           Ended == \E r \in {app.run, app'.run} \ {NoRun} : r \in finished
<1>1. ASSUME IInv, StartsWithRecord, Concludes
      PROVE  Ended
  BY <1>1, StartsTruly
<1>2. ASSUME IInv, PollDelivers, Concludes
      PROVE  Ended
  BY <1>2, PollTruly
<1>3. ASSUME IInv, [Next]_vars, Concludes
      PROVE  Ended
  BY <1>1, <1>2, <1>3, MayConclude
<1>4. IInv /\ [Next]_vars => [Concludes => Ended]_vars
  BY <1>3
<1> QED
  BY <1>4, Invariant, PTL DEF Spec, ConcludesOwnRun

-----------------------------------------------------------------------------
(* Host and guest keep SetupRuns.                                          *)

\* What is reported as done is done, and stays so.
Told == app.outcome = "done" => app.run \in finished

Report == {r \in {app.run} : app.outcome = "done"}
Executed == {r \in {exec.run} : exec.step \in Working}
Provided == {r \in {exec.run} : exec.step = "creating-share"}
Ready == {inbox.secret} \ {NoRun}

LEMMA FinishedGrows ==
    ASSUME [Next]_vars
    PROVE  finished \subseteq finished'
<1>1. UNCHANGED finished => finished \subseteq finished'
  OBVIOUS
<1>2. CASE Starts \/ Creates \/ Asks \/ AppEnds
  BY <1>1, <1>2
  DEF Starts, StartsPlainly, StartsWithRecord, Creates, Rechecks, AskCreate, CreatesRecord,
      Composes, OrphanComposes, CreatedRecord, CreationFails, Discard,
      Asks, AskProvision, AskReprovision, AskRetry, AppEnds, guest
<1>3. CASE Stages \/ Follows
  BY <1>1, <1>3
  DEF Stages, RecordsIntent, ProbeAnswers, RecordsRun, EnsuresChannel, Checks, ResetsInbox,
      CopiesPayload, WritesTrigger, CommandFails, Follows, PollBegins, PollDelivers, guest
<1>4. CASE Delivers \/ CleansUp \/ Connecting
  BY <1>1, <1>4
  DEF Delivers, SelectsEnv, SecretAsks, SecretTests, SecretSends, SecretFails, CleansUp,
      CleanupReads, CleanupRemoves, CleanupFails, Connecting, Connects, ConnectSucceeds,
      ConnectFails, Verifies, guest
<1>5. CASE Guest \/ Reboots \/ UNCHANGED vars
  BY <1>1, <1>5
  DEF Guest, WatcherReads, RunStarts, MarkFails, CopyFails, GuestAsks, GuestTakes,
      GuestEnds, Reboots,
      vars, guest
<1> QED
  BY <1>2, <1>3, <1>4, <1>5 DEF Next

\* The report stays, ends, or is of a run that ended well.  The worker that draws
\* an id does so while there is none.
LEMMA ReportMoves ==
    ASSUME IInv, Told, [Next]_vars
    PROVE  /\ Told'
           /\ \/ Report' = Report \/ Report' = {}
              \/ \E r \in finished : Report' = {r}
<1>1. CASE app'.outcome # "done"
  BY <1>1 DEF Told, Report
<1>2. CASE app'.outcome = "done" /\ app'.run \in finished
  BY <1>2, FinishedGrows DEF Told, Report
<1>3. CASE app'.outcome = app.outcome /\ app'.run = app.run
  BY <1>3, FinishedGrows DEF Told, Report
<1>4. CASE ProbeAnswers
  <2>1. CASE job.live
    <3>1. job.next = "probe" /\ app.outcome = "none"
      BY <1>4, <2>1 DEF ProbeAnswers, IInv, Workers, Preparing
    <3>2. app' = [app EXCEPT !.run = app'.run]
      BY <1>4, <2>1 DEF ProbeAnswers, IInv, Shapes, Apps
    <3>3. app'.outcome = app.outcome
      BY <3>2 DEF IInv, Shapes, Apps
    <3> QED
      BY <1>1, <3>1, <3>3
  <2>2. CASE ~job.live
    BY <1>3, <1>4, <2>2 DEF ProbeAnswers
  <2> QED
    BY <2>1, <2>2
<1>5. CASE StartsWithRecord
  BY <1>1, <1>2, <1>5, StartsTruly
<1>6. CASE PollDelivers
  BY <1>1, <1>2, <1>3, <1>6, PollTruly
<1> QED
  BY <1>1, <1>3, <1>4, <1>5, <1>6, MayConclude

\* The commands of the host that the guest does not see the end of.
LEMMA QuietIsReport ==
    ASSUME IInv, Told, [Next]_vars,
           UNCHANGED <<minted, accepted, exec, finished>>, inbox'.secret = inbox.secret
    PROVE  Setup!Tell \/ Setup!Recant \/ UNCHANGED Setup!vars
<1>1. UNCHANGED <<1 .. minted, 1 .. accepted, Executed, Provided, Ready, finished>>
  BY DEF Executed, Provided, Ready
<1>2. CASE Report' = Report
  BY <1>1, <1>2 DEF Setup!vars, Report, Executed, Provided, Ready
<1>3. CASE Report' = {}
  BY <1>1, <1>3 DEF Setup!Recant, Report, Executed, Provided, Ready
<1>4. CASE \E r \in finished : Report' = {r}
  BY <1>1, <1>4 DEF Setup!Tell, Report, Executed, Provided, Ready
<1> QED
  BY <1>2, <1>3, <1>4, ReportMoves

LEMMA DrawsIs ==
    ASSUME IInv, ProbeAnswers
    PROVE  Setup!Draw \/ UNCHANGED Setup!vars
<1>1. UNCHANGED <<accepted, exec, finished, inbox>>
  BY DEF ProbeAnswers, guest
<1>2. CASE ~job.live
  BY <1>1, <1>2 DEF ProbeAnswers, Setup!vars
<1>3. CASE job.live
  <2>1. PICK run \in Runs : /\ run = IF job.run = NoRun THEN minted + 1 ELSE job.run
                            /\ app' = [app EXCEPT !.run = run] /\ minted' = run
    BY <1>3, ProvisioningAssumption
    DEF ProbeAnswers, IInv, Shapes, Newest, Preparing, Jobs, Runs, NoRun, Ids
  <2>2. app.outcome = "none" /\ app'.outcome = "none"
    BY <1>3, <2>1 DEF ProbeAnswers, IInv, Workers, Preparing, Shapes, Apps
  <2>3. UNCHANGED <<1 .. accepted, Executed, Provided, Ready, finished, Report>>
    BY <1>1, <2>2 DEF Executed, Provided, Ready, Report
  <2>4. CASE job.run # NoRun
    <3>1. minted' = minted
      BY <2>1, <2>4 DEF IInv, Newest
    <3> QED
      BY <2>3, <3>1 DEF Setup!vars, Executed, Provided, Ready, Report
  <2>5. CASE job.run = NoRun
    <3>1. minted' = run /\ run = minted + 1 /\ minted \in Nat
      BY <2>1, <2>5 DEF IInv, Shapes
    <3>2. (1 .. minted') = (1 .. minted) \cup {run}
      BY <3>1
    <3>3. \A s \in 1 .. minted : s < run
      BY <3>1
    <3> QED
      BY <2>3, <3>2, <3>3 DEF Setup!Draw, Executed, Provided, Ready, Report
  <2> QED
    BY <2>4, <2>5
<1> QED
  BY <1>2, <1>3

\* Whatever empties the inbox, and what puts a password there.
LEMMA PasswordIs ==
    ASSUME IInv, UNCHANGED <<minted, accepted, exec, finished>>, Report' = Report,
           \/ inbox'.secret = NoRun
           \/ inbox'.secret = accepted /\ accepted # NoRun
    PROVE  Setup!Withdraw \/ Setup!Leave
<1>1. UNCHANGED <<1 .. minted, 1 .. accepted, Executed, Provided, finished, Report>>
  BY DEF Executed, Provided
<1>2. CASE inbox'.secret = NoRun
  BY <1>1, <1>2 DEF Setup!Withdraw, Report, Executed, Provided
<1>3. CASE inbox'.secret = accepted /\ accepted # NoRun
  <2>1. accepted \in 1 .. accepted
    BY <1>3 DEF IInv, Shapes, Ids, Runs, NoRun
  <2>2. {inbox.secret}' \ {NoRun} = {accepted}
    BY <1>3
  <2> QED
    BY <1>1, <2>1, <2>2 DEF Setup!Leave, Report, Executed, Provided
<1> QED
  BY <1>2, <1>3

\* The run that the guest turns to is newer than what it has turned to before.
LEMMA Settles ==
    ASSUME IInv, exec.step = "copying", accepted' = exec.run, UNCHANGED minted
    PROVE  /\ exec.run \in 1 .. minted /\ Setup!Settle(exec.run)
           /\ (1 .. minted)' = 1 .. minted
<1>1. /\ exec.run \in Nat /\ accepted \in Nat /\ minted \in Nat
      /\ accepted < exec.run /\ exec.run \leq minted
  BY ProvisioningAssumption DEF IInv, Shapes, Accepted, Ids, Runs, NoRun
<1>2. (1 .. accepted)' = (1 .. accepted) \cup {s \in 1 .. minted : s <= exec.run}
  BY <1>1
<1>3. Executed = {}
  BY DEF Executed, Working
<1> QED
  BY <1>1, <1>2, <1>3 DEF Setup!Settle, Executed

LEMMA GuestIsRun ==
    ASSUME IInv, Guest
    PROVE  \/ Setup!Start \/ Setup!Skip \/ Setup!Take \/ Setup!End
           \/ UNCHANGED Setup!vars
<1>1. UNCHANGED <<minted, app, inbox>>
  BY DEF Guest, WatcherReads, RunStarts, MarkFails, CopyFails, GuestAsks, GuestTakes,
         GuestEnds, host
<1>2. UNCHANGED <<1 .. minted, Report, Ready>>
  BY <1>1 DEF Report, Ready
<1>3. CASE WatcherReads \/ GuestAsks
  <2>1. UNCHANGED <<accepted, finished>>
    BY <1>3 DEF WatcherReads, GuestAsks
  <2>2. UNCHANGED <<Executed, Provided>>
    <3>1. CASE WatcherReads
      <4>1. exec.step = "idle" /\ exec'.step = "copying"
        BY <3>1 DEF WatcherReads, Idle
      <4> QED
        BY <4>1 DEF Executed, Provided, Working
    <3>2. CASE GuestAsks
      <4>1. /\ exec.step = "working" /\ exec'.step = "waiting-for-secret"
            /\ exec'.run = exec.run
        BY <3>2 DEF GuestAsks, IInv, Shapes
      <4> QED
        BY <4>1 DEF Executed, Provided, Working
    <3> QED
      BY <1>3, <3>1, <3>2
  <2> QED
    BY <1>2, <2>1, <2>2 DEF Setup!vars, Report, Ready, Executed, Provided
<1>4. CASE RunStarts
  <2>1. exec.run \in 1 .. minted /\ Setup!Settle(exec.run)
    BY <1>1, <1>4, Settles DEF RunStarts
  <2>2. Executed' = {exec.run} /\ UNCHANGED <<Provided, finished>>
    BY <1>4 DEF RunStarts, IInv, Shapes, Executed, Provided, Working
  <2> QED
    BY <1>2, <2>1, <2>2 DEF Setup!Start, Report, Ready, Executed, Provided
<1>4a. CASE MarkFails
  <2>1. exec.step = "copying" /\ exec'.step = "idle" /\ UNCHANGED <<accepted, finished>>
    BY <1>4a DEF MarkFails, Idle
  <2>2. UNCHANGED <<Executed, Provided>>
    BY <2>1 DEF Executed, Provided, Working
  <2> QED
    BY <1>2, <2>1, <2>2 DEF Setup!vars, Report, Ready, Executed, Provided
<1>5. CASE CopyFails
  <2>1. exec.run \in 1 .. minted /\ Setup!Settle(exec.run)
    BY <1>1, <1>5, Settles DEF CopyFails
  <2>2. UNCHANGED <<Executed, Provided, finished>>
    BY <1>5 DEF CopyFails, Executed, Provided, Working, Idle
  <2> QED
    BY <1>2, <2>1, <2>2 DEF Setup!Skip, Report, Ready, Executed, Provided
<1>6. CASE GuestTakes
  <2>1. exec.step \in Working /\ inbox.secret = exec.run /\ exec.run \in Runs
    BY <1>6 DEF GuestTakes, Wants, Working, IInv, Shapes, Accepted, Secrets
  <2>2. Executed = {exec.run} /\ Ready = {exec.run}
    BY <2>1 DEF Executed, Ready, Runs, NoRun
  <2>3. Provided' = {exec.run} /\ UNCHANGED <<Executed, accepted, finished>>
    BY <1>6, <2>1 DEF GuestTakes, IInv, Shapes, Executed, Provided, Working
  <2> QED
    BY <1>2, <2>2, <2>3 DEF Setup!Take, Report, Ready, Executed, Provided
<1>7. CASE GuestEnds
  <2>1. exec.step \in Working
    BY <1>7 DEF GuestEnds, Working
  <2>2. Executed = {exec.run} /\ Executed' = {} /\ Provided' = {} /\ UNCHANGED accepted
    BY <1>7, <2>1 DEF GuestEnds, Idle, Executed, Provided, Working
  <2>3. finished' = finished \/ finished' = finished \cup {exec.run}
    BY <1>7 DEF GuestEnds
  <2> QED
    BY <1>2, <2>2, <2>3 DEF Setup!End, Report, Ready, Executed, Provided
<1> QED
  BY <1>3, <1>4, <1>4a, <1>5, <1>6, <1>7 DEF Guest

LEMMA RebootIsEnd ==
    ASSUME IInv, Reboots
    PROVE  Setup!End
<1>1. UNCHANGED <<minted, app, accepted, finished>>
  BY DEF Reboots, host
<1>2. Executed' = {} /\ Provided' = {} /\ UNCHANGED Report
  BY <1>1 DEF Reboots, Idle, Executed, Provided, Working, Report
<1>3. Ready' = Ready \/ Ready' = {}
  BY DEF Reboots, NoInbox, Ready
<1> QED
  BY <1>1, <1>2, <1>3 DEF Setup!End, Executed, Provided, Ready, Report

\* The commands that change what lies in the inbox for the guest.
LEMMA InboxIsPassword ==
    ASSUME IInv,
           ResetsInbox \/ SecretSends \/ SecretFails \/ \E c \in cleaning : CleanupRemoves(c)
    PROVE  Setup!Withdraw \/ Setup!Leave \/ UNCHANGED Setup!vars
<1>1. UNCHANGED <<minted, accepted, exec, finished>>
  BY DEF ResetsInbox, SecretSends, SecretFails, CleanupRemoves, guest
<1>2. Report' = Report
  BY DEF ResetsInbox, SecretSends, SecretFails, CleanupRemoves, Sent, Report, IInv, Shapes,
         Apps
<1>3. job.next = "send" => job.run = accepted /\ accepted # NoRun
  BY DEF IInv, Newest, Secrets, Sending
<1>4. \/ inbox'.secret = NoRun \/ inbox'.secret = inbox.secret
      \/ inbox'.secret = accepted /\ accepted # NoRun
  <2>1. CASE ResetsInbox
    BY <2>1, InboxIs DEF ResetsInbox
  <2>2. CASE SecretSends
    BY <1>3, <2>2 DEF SecretSends, IInv, Shapes, Inboxes
  <2>3. CASE SecretFails
    BY <1>3, <2>3 DEF SecretFails, IInv, Shapes, Inboxes
  <2>4. CASE \E c \in cleaning : CleanupRemoves(c)
    BY <2>4, InboxIs DEF CleanupRemoves, Inboxes
  <2> QED
    BY <2>1, <2>2, <2>3, <2>4
<1>5. CASE inbox'.secret = inbox.secret
  <2>1. UNCHANGED <<1 .. minted, 1 .. accepted, Executed, Provided, Ready, finished, Report>>
    BY <1>1, <1>2, <1>5 DEF Executed, Provided, Ready
  <2> QED
    BY <2>1 DEF Setup!vars, Executed, Provided, Ready, Report
<1> QED
  BY <1>1, <1>2, <1>4, <1>5, PasswordIs

LEMMA StepKeepsRuns ==
    ASSUME IInv, Told, [Next]_vars
    PROVE  [Setup!Next]_(Setup!vars)
<1> DEFINE Quiet == /\ UNCHANGED <<minted, accepted, exec, finished>>
                    /\ inbox'.secret = inbox.secret
           Kept == Setup!Next \/ UNCHANGED Setup!vars
<1> SUFFICES Kept
  OBVIOUS
<1>1. ASSUME Quiet PROVE Kept
  BY <1>1, QuietIsReport DEF Setup!Next
<1>2. CASE AppEnds \/ Starts \/ Creates \/ Asks
  <2>1. Quiet
    BY <1>2
    DEF Starts, StartsPlainly, StartsWithRecord, Creates, Rechecks, AskCreate, CreatesRecord,
        Composes, OrphanComposes, CreatedRecord, CreationFails, Discard,
        Asks, AskProvision, AskReprovision, AskRetry, AppEnds, guest,
        host
  <2> QED
    BY <1>1, <2>1
<1>3. CASE Stages
  <2>1. CASE ProbeAnswers \/ ResetsInbox
    BY <2>1, DrawsIs, InboxIsPassword DEF Setup!Next
  <2>2. CASE RecordsIntent \/ RecordsRun \/ Checks
    <3>1. Quiet
      BY <2>2 DEF RecordsIntent, RecordsRun, Checks, guest
    <3> QED
      BY <1>1, <3>1
  <2>3. CASE EnsuresChannel \/ CopiesPayload \/ WritesTrigger \/ CommandFails
    <3>1. UNCHANGED <<minted, accepted, exec, finished>>
      BY <2>3 DEF EnsuresChannel, CopiesPayload, WritesTrigger, CommandFails, guest
    <3>2. inbox'.secret = inbox.secret
      BY <2>3
      DEF EnsuresChannel, CopiesPayload, WritesTrigger, CommandFails, IInv, Shapes, Inboxes
    <3> QED
      BY <1>1, <3>1, <3>2
  <2> QED
    BY <1>3, <2>1, <2>2, <2>3 DEF Stages
<1>4. CASE Follows \/ Connecting
  <2>1. Quiet
    BY <1>4
    DEF Follows, PollBegins, PollDelivers, Connecting, Connects, ConnectSucceeds, ConnectFails,
        Verifies, guest
  <2> QED
    BY <1>1, <2>1
<1>5. CASE Delivers
  <2>1. CASE SecretSends \/ SecretFails
    BY <2>1, InboxIsPassword DEF Setup!Next
  <2>2. CASE SelectsEnv \/ SecretAsks \/ SecretTests
    <3>1. Quiet
      BY <2>2 DEF SelectsEnv, SecretAsks, SecretTests, guest
    <3> QED
      BY <1>1, <3>1
  <2> QED
    BY <1>5, <2>1, <2>2 DEF Delivers
<1>6. CASE CleansUp
  <2>1. CASE \E c \in cleaning : CleanupRemoves(c)
    BY <2>1, InboxIsPassword DEF Setup!Next
  <2>2. CASE \E c \in cleaning : CleanupReads(c) \/ CleanupFails(c)
    <3>1. Quiet
      BY <2>2 DEF CleanupReads, CleanupFails, guest
    <3> QED
      BY <1>1, <3>1
  <2> QED
    BY <1>6, <2>1, <2>2 DEF CleansUp
<1>7. CASE Guest \/ Reboots
  BY <1>7, GuestIsRun, RebootIsEnd DEF Setup!Next
<1>8. CASE UNCHANGED vars
  <2>1. Quiet
    BY <1>8 DEF vars, guest, host
  <2> QED
    BY <1>1, <2>1
<1> HIDE DEF Kept
<1> QED
  BY <1>2, <1>3, <1>4, <1>5, <1>6, <1>7, <1>8 DEF Next

\* A fresh app, guest and VM: no run was begun.
LEMMA NoRunsYet ==
    ASSUME Init
    PROVE  Setup!Init /\ Told
<1>1. app.outcome = "none"
  BY DEF Init, Closed
<1>2. /\ minted = 0 /\ accepted = 0 /\ exec.step = "idle" /\ inbox.secret = NoRun
      /\ finished = {}
  BY DEF Init, NoRun, Idle, NoInbox
<1> QED
  BY <1>1, <1>2 DEF Setup!Init, Told, Working

\* Whatever crashes, restarts, late polls and leftovers come in between, a run is
\* settled once and in its turn, with its own password, and reported done only if
\* it is.
THEOREM RunsAreKept == Spec => KeepsRuns
<1>1. IInv /\ Told /\ [Next]_vars => Told'
  BY ReportMoves
<1>2. IInv /\ Told /\ [Next]_vars => [Setup!Next]_(Setup!vars)
  BY StepKeepsRuns
<1>3. Init => Setup!Init /\ Told
  BY NoRunsYet
<1> QED
  BY <1>1, <1>2, <1>3, Invariant, PTL DEF Spec, KeepsRuns, Setup!Spec

=============================================================================
