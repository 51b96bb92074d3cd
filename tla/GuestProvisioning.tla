--------------------------- MODULE GuestProvisioning ---------------------------
(***************************************************************************)
(* Creating the Windows VM and setting it up from the app: the record on   *)
(* the host that a run survives a crash by (firstrun.py), the workers that *)
(* create the VM, stage a run into the container's inbox, poll its status, *)
(* deliver the share password and clean up (guestprov.py, __main__.py),    *)
(* and the watcher and the run in the guest (provision/*.ps1).             *)
(*                                                                         *)
(* The host and the guest share only the inbox, which the guest reads, and *)
(* the status, which the guest writes.  A worker is a sequence of docker   *)
(* commands, of which each is a step here: between two of them the guest   *)
(* moves, the app may be closed, the VM may restart.                       *)
(***************************************************************************)
EXTENDS Integers, FiniteSets

CONSTANTS
    MaxRuns,    \* bound: run ids
    MaxEvents   \* bound: ends of the app, restarts of the guest, failures of commands

ASSUME ProvisioningAssumption ==
    MaxRuns \in Nat /\ MaxEvents \in Nat

Runs == 1 .. MaxRuns    \* the ids, which are random, in order of use
NoRun == 0

VARIABLES
    container,  \* the container exists, and runs
    orphan,     \* a "docker compose up" outlives the app that ran it
    boot,       \* its State.StartedAt
    channel,    \* Samba in the container serves [Provision], read-only
    inbox,      \* /run/.../inbox: its directory, payload, trigger and secret
    accepted,   \* the watcher's accepted-run.txt
    exec,       \* what the watcher executes: a run, and how far it is
    status,     \* the status document of the guest
    record,     \* the provisioning record of the host
    app,        \* what the controller has in memory
    job,        \* the worker behind _setup_busy and _prov_busy: its next command
    poll,       \* the poll in flight, and the document it has read
    cleaning,   \* the cleanups in flight
    minted,     \* the run ids used
    ran,        \* history: the runs whose guest-setup.ps1 was started
    finished,   \* history: the runs that ended well
    connected,  \* history: a connect to this VM has succeeded
    forgotten,  \* history: its note was discarded while it was there, or on its way
    spent       \* crashes, reboots and faults so far

docker == <<container, orphan, boot, channel>>
guest == <<accepted, exec, status, ran, finished>>
host == <<app, job, poll, cleaning, minted>>
vm == <<connected, forgotten>>
vars == <<docker, inbox, guest, record, host, vm, spent>>

-----------------------------------------------------------------------------
(* Records.                                                                *)

NoRecord == [phase |-> "absent", run |-> NoRun, mode |-> "first", boot |-> 0]

Record(phase, run, mode, started) ==
    [phase |-> phase, run |-> run, mode |-> mode, boot |-> started]

NoInbox == [there |-> FALSE, payload |-> FALSE, trigger |-> NoRun, secret |-> NoRun]
EmptyInbox == [NoInbox EXCEPT !.there = TRUE]

NoStatus == [run |-> NoRun, phase |-> "absent", failed |-> FALSE]
Status(run, phase, failed) == [run |-> run, phase |-> phase, failed |-> failed]

Idle == [run |-> NoRun, step |-> "idle"]

\* The controller of an app that is not running; "away" is monitoring and what
\* may come after it, "connecting" the start that follows CONNECT_READY.  What it
\* has read of Docker it keeps: "absent" that there was no container, "gone" that
\* the record it found had none.
Closed == [phase |-> "closed", mode |-> "first", run |-> NoRun, following |-> FALSE,
           seen |-> "absent", sent |-> FALSE, outcome |-> "none", offer |-> FALSE,
           verify |-> FALSE, absent |-> FALSE, gone |-> FALSE]

In(phase) == [Closed EXCEPT !.phase = phase]

NoJob == [next |-> "none", run |-> NoRun, live |-> FALSE]
Job(next, run) == [next |-> next, run |-> run, live |-> TRUE]
NoPoll == [run |-> NoRun, live |-> FALSE, doc |-> NoStatus]

\* Every dispatch increments the token: what is in flight is no longer accepted.
Superseded(worker) == [worker EXCEPT !.live = FALSE]

\* A status of another run is no acknowledgement.
Acknowledges(doc, run) == run # NoRun /\ doc.run = run

\* Status.active_run
Active(doc) == doc.run # NoRun /\ doc.phase # "done" /\ ~doc.failed

Spend(event) ==
    /\ spent[event] = 0 /\ spent.crashes + spent.reboots + spent.faults < MaxEvents
    /\ spent' = [spent EXCEPT ![event] = @ + 1]

Fault == Spend("faults")

Init ==
    /\ container \in BOOLEAN /\ connected = container
    /\ orphan = FALSE /\ forgotten = FALSE
    /\ boot = 1 /\ channel = FALSE /\ inbox = NoInbox
    /\ accepted = NoRun /\ exec = Idle /\ status = NoStatus
    /\ record = NoRecord
    /\ app = Closed /\ job = NoJob /\ poll = NoPoll /\ cleaning = {}
    /\ minted = 0 /\ ran = {} /\ finished = {}
    /\ spent = [crashes |-> 0, reboots |-> 0, faults |-> 0]

-----------------------------------------------------------------------------
(* A run begins, or the one in the record is staged again.                 *)

CanRun(run) == run # NoRun \/ minted < MaxRuns

BeginRun(mode, run) ==
    /\ app' = [In("provisioning") EXCEPT !.mode = mode, !.run = run]
    /\ job' = Job("intent", run)
    /\ poll' = Superseded(poll)

\* A worker whose token has gone by has done what it did; nobody hears of it.
Proceed(next, run) == job' = IF job.live THEN Job(next, run) ELSE NoJob

Failed(a) == [a EXCEPT !.outcome = "failed", !.offer = TRUE, !.following = FALSE]

-----------------------------------------------------------------------------
(* The app is started, and closed.                                         *)

\* The app is closed, or dies, between any two steps; its Compose goes on.
AppEnds ==
    /\ app.phase # "closed"
    /\ Spend("crashes")
    /\ app' = Closed /\ job' = NoJob /\ poll' = NoPoll /\ cleaning' = {}
    /\ orphan' = (orphan \/ job.next = "composing")
    /\ UNCHANGED <<container, boot, channel, inbox, guest, record, minted, vm>>

\* No record, or one whose container is gone: the ordinary plan, or Setup.
StartsPlainly ==
    /\ app.phase = "closed"
    /\ record = NoRecord \/ ~container
    /\ app' = IF container THEN In("away")
              ELSE [In("setup") EXCEPT !.absent = TRUE, !.gone = record # NoRecord]
    /\ UNCHANGED <<docker, inbox, guest, record, job, poll, cleaning, minted, vm, spent>>

\* container_restarted: a token that was not recorded is no evidence.
Restarted == record.boot # 0 /\ record.boot # boot

\* classify_resume, of the record and one reading of the status.
Resume(doc) ==
    CASE record.run = NoRun -> "no-run"
      [] Acknowledges(doc, record.run) /\ doc.failed -> "failed"
      [] Acknowledges(doc, record.run) /\ ~doc.failed ->
           IF doc.phase = "done" THEN "done" ELSE "poll"
      [] ~Acknowledges(doc, record.run) /\ record.run # NoRun ->
           IF record.phase = "staging" THEN "retry-stage"
           ELSE IF Restarted THEN "confirm-new-run" ELSE "poll-or-abandon"

\* Mutant: a password sent by an earlier app is taken for sent.
ResumedSent(doc) ==
    [In("provisioning") EXCEPT !.mode = record.mode, !.run = record.run, !.seen = doc.phase,
                               !.following = TRUE, !.sent = TRUE]

Resumed(doc) ==
    LET a == [In("provisioning") EXCEPT
                 !.mode = record.mode, !.run = record.run,
                 !.seen = IF Acknowledges(doc, record.run) THEN doc.phase ELSE "absent"]
        how == Resume(doc)
    IN  CASE how = "no-run" -> In("provisioning")
          [] how = "failed" -> Failed(a)
          [] how = "done" -> [a EXCEPT !.outcome = "done"]
          [] how = "confirm-new-run" -> [a EXCEPT !.offer = TRUE]
          [] how = "poll-or-abandon" -> [a EXCEPT !.following = TRUE, !.offer = TRUE]
          [] how = "poll" -> [a EXCEPT !.following = TRUE]

\* The record, Docker and the status are read, and the plan is followed before
\* any share is: the status may not be readable.
StartsWithRecord ==
    /\ app.phase = "closed"
    /\ record # NoRecord /\ container
    /\ \E doc \in {status, NoStatus} :
          /\ (doc = status /\ UNCHANGED spent) \/ (doc # status /\ Fault)
          /\ IF Resume(doc) = "retry-stage"
             THEN BeginRun(record.mode, record.run)
             ELSE app' = Resumed(doc) /\ UNCHANGED <<job, poll>>
    /\ UNCHANGED <<docker, inbox, guest, record, cleaning, minted, vm>>

-----------------------------------------------------------------------------
(* The VM is created: the record goes down before Compose runs.            *)

\* Docker is asked again; the record is not classified again.
Rechecks ==
    /\ app.phase = "setup" /\ job = NoJob
    /\ app' = [app EXCEPT !.absent = ~container]
    /\ UNCHANGED <<docker, inbox, guest, record, job, poll, cleaning, minted, vm, spent>>

AskCreate ==
    /\ app.phase = "setup" /\ app.absent /\ job = NoJob
    /\ job' = Job("creating", NoRun)
    /\ UNCHANGED <<docker, inbox, guest, record, app, poll, cleaning, minted, vm, spent>>

\* Mutant: the record is left to the second write.
CreatesUnrecorded ==
    /\ job.next = "creating"
    /\ job' = Job("composing", NoRun)
    /\ UNCHANGED <<docker, inbox, guest, record, app, poll, cleaning, minted, vm, spent>>

CreatesRecord ==
    /\ job.next = "creating"
    /\ record' = Record("creating", NoRun, "first", 0) /\ forgotten' = FALSE
    /\ job' = Job("composing", NoRun)
    /\ UNCHANGED <<docker, inbox, guest, app, poll, cleaning, minted, connected, spent>>

\* "docker compose up -d": it may fail, with or without a container.
Composes ==
    /\ job.next = "composing"
    /\ \/ container' = TRUE /\ job' = Job("created", NoRun) /\ UNCHANGED spent
       \/ container' \in {container, TRUE} /\ job' = NoJob /\ Fault
    /\ UNCHANGED <<orphan, boot, channel, inbox, guest, record, app, poll, cleaning, minted, vm>>

\* The Compose of an app that has ended comes to an end of its own.
OrphanComposes ==
    /\ orphan /\ orphan' = FALSE
    /\ container' \in {container, TRUE}
    /\ UNCHANGED <<boot, channel, inbox, guest, record, host, vm, spent>>

\* The record cannot be written: there is no Compose, or none that is recorded.
CreationFails ==
    /\ job.next \in {"creating", "created"}
    /\ Fault
    /\ job' = NoJob
    /\ UNCHANGED <<docker, inbox, guest, record, app, poll, cleaning, minted, vm>>

CreatedRecord ==
    /\ job.next = "created"
    /\ CanRun(NoRun)
    /\ record' = Record("provisioning", NoRun, "first", 0)
    /\ BeginRun("first", NoRun)
    /\ UNCHANGED <<docker, inbox, guest, cleaning, minted, vm, spent>>

\* The note of an interrupted setup is discarded: Docker had disproved it when the
\* app was started.  A file that cannot be removed is left alone.
Discard ==
    /\ app.phase = "setup" /\ app.gone /\ job = NoJob
    /\ \/ record' = NoRecord /\ forgotten' = (container \/ orphan) /\ UNCHANGED spent
       \/ Fault /\ UNCHANGED <<record, forgotten>>
    /\ app' = [app EXCEPT !.gone = FALSE]
    /\ UNCHANGED <<docker, inbox, guest, job, poll, cleaning, minted, connected>>

-----------------------------------------------------------------------------
(* The operator starts a run.                                              *)

AskProvision ==
    /\ app.phase = "provisioning" /\ container
    /\ job = NoJob /\ app.run = NoRun
    /\ CanRun(NoRun)
    /\ BeginRun("first", NoRun)
    /\ UNCHANGED <<docker, inbox, guest, record, cleaning, minted, vm, spent>>

\* From monitoring, or, as a first run, after a start that found no shares.
AskReprovision ==
    /\ app.phase \in {"away", "start_failed"} /\ container
    /\ job = NoJob
    /\ CanRun(NoRun)
    /\ \E mode \in {"first"} \union IF app.phase = "away" THEN {"re"} ELSE {} :
          BeginRun(mode, NoRun)
    /\ UNCHANGED <<docker, inbox, guest, record, cleaning, minted, vm, spent>>

\* A fresh run, in the mode of the record, instead of one that failed or that
\* is given up.
AskRetry ==
    /\ app.phase = "provisioning" /\ app.offer
    /\ job = NoJob
    /\ CanRun(NoRun)
    /\ BeginRun(IF record = NoRecord THEN app.mode ELSE record.mode, NoRun)
    /\ cleaning' = cleaning \union {[run |-> r, checked |-> FALSE] : r \in {app.run} \ {NoRun}}
    /\ UNCHANGED <<docker, inbox, guest, record, minted, vm, spent>>

-----------------------------------------------------------------------------
(* The worker of a run: its intent is recorded, Windows probed, the run    *)
(* recorded, the channel built, the payload staged and, last, the trigger. *)

\* The intent replaces the record, whatever run that names.
RecordsIntent ==
    /\ job.next = "intent"
    /\ record' = Record("provisioning", NoRun, app.mode, boot)
    /\ Proceed("probe", job.run)
    /\ UNCHANGED <<docker, inbox, guest, app, poll, cleaning, minted, vm, spent>>

\* Windows answers: until it does, the probe is repeated.
ProbeAnswers ==
    /\ job.next = "probe"
    /\ LET run == IF job.run = NoRun THEN minted + 1 ELSE job.run
       IN  IF job.live
           THEN /\ job' = Job("record", run)
                /\ app' = [app EXCEPT !.run = run]
                /\ minted' = IF run > minted THEN run ELSE minted
           ELSE job' = NoJob /\ UNCHANGED <<app, minted>>
    /\ UNCHANGED <<docker, inbox, guest, record, poll, cleaning, vm, spent>>

\* A worker goes on whether or not its token has.
Onward(next) == job' = [job EXCEPT !.next = next]

RecordsRun ==
    /\ job.next = "record"
    /\ record' = Record("staging", job.run, app.mode, boot)
    /\ Onward("channel")
    /\ UNCHANGED <<docker, inbox, guest, app, poll, cleaning, minted, vm, spent>>

EnsuresChannel ==
    /\ job.next = "channel"
    /\ channel' = TRUE
    /\ inbox' = [inbox EXCEPT !.there = TRUE]
    /\ Onward("check")
    /\ UNCHANGED <<container, orphan, boot, guest, record, app, poll, cleaning, minted, vm, spent>>

StageFails ==
    /\ job' = NoJob
    /\ IF job.live THEN app' = Failed(app) /\ poll' = Superseded(poll)
                   ELSE UNCHANGED <<app, poll>>

\* The channel is verified, and another run that is at work refused to be staged
\* over; a status that cannot be read refuses nothing.
Checks ==
    /\ job.next = "check"
    /\ \E doc \in {status, NoStatus} :
          /\ (doc = status /\ UNCHANGED spent) \/ (doc # status /\ Fault)
          /\ IF channel /\ (Active(doc) => Acknowledges(doc, job.run))
             THEN Onward("reset") /\ UNCHANGED <<app, poll>>
             ELSE StageFails
    /\ UNCHANGED <<docker, inbox, guest, record, cleaning, minted, vm>>

\* Mutant: the directory is made, but not emptied.
KeepsInbox ==
    /\ job.next = "reset"
    /\ inbox' = [inbox EXCEPT !.there = TRUE, !.trigger = NoRun, !.payload = FALSE]
    /\ Onward("copy")
    /\ UNCHANGED <<docker, guest, record, app, poll, cleaning, minted, vm, spent>>

ResetsInbox ==
    /\ job.next = "reset"
    /\ inbox' = EmptyInbox
    /\ Onward("copy")
    /\ UNCHANGED <<docker, guest, record, app, poll, cleaning, minted, vm, spent>>

\* Copied under temporary names, then renamed.
CopiesPayload ==
    /\ job.next = "copy"
    /\ IF inbox.there
       THEN inbox' = [inbox EXCEPT !.payload = TRUE] /\ Onward("trigger") /\ UNCHANGED <<app, poll>>
       ELSE StageFails /\ UNCHANGED inbox
    /\ UNCHANGED <<docker, guest, record, cleaning, minted, vm, spent>>

WritesTrigger ==
    /\ job.next = "trigger"
    /\ IF inbox.there
       THEN /\ inbox' = [inbox EXCEPT !.trigger = job.run]
            /\ job' = NoJob
            /\ app' = [app EXCEPT !.following = @ \/ job.live]
            /\ UNCHANGED poll
       ELSE StageFails /\ UNCHANGED inbox
    /\ UNCHANGED <<docker, guest, record, cleaning, minted, vm, spent>>

\* A command fails, or times out after it did what it was to do.
CommandFails ==
    /\ job.next \in {"intent", "record", "channel", "check", "reset", "copy", "trigger"}
    /\ Fault
    /\ StageFails
    /\ inbox' \in {inbox} \union
          {[inbox EXCEPT !.trigger = job.run] : x \in {"trigger"} \cap {job.next}}
    /\ UNCHANGED <<docker, guest, record, cleaning, minted, vm>>

-----------------------------------------------------------------------------
(* Following a run: one poll at a time, its result checked by token.       *)

PollBegins ==
    /\ app.phase = "provisioning" /\ app.following
    /\ poll = NoPoll
    /\ poll' = [run |-> app.run, live |-> TRUE,
                doc |-> IF Acknowledges(status, app.run) THEN status ELSE NoStatus]
    /\ UNCHANGED <<docker, inbox, guest, record, app, job, cleaning, minted, vm, spent>>

\* record_after_status, and the write of what it makes of the record.
RecordAfter(doc) ==
    IF record # NoRecord /\ Acknowledges(doc, record.run)
    THEN [record EXCEPT !.phase = "triggered"] ELSE record

\* _on_provision_done: a re-provisioning goes back to monitoring, and its record
\* waits for a look at the agent; a first run waits for the connect.
Finished(a) ==
    IF a.mode = "re" THEN [In("away") EXCEPT !.verify = TRUE]
                     ELSE [a EXCEPT !.outcome = "done", !.following = FALSE]

\* _on_provision_status, of an acknowledgement.
Applies(doc) ==
    LET a == [app EXCEPT !.seen = doc.phase] IN
    /\ record' = RecordAfter(doc)
    /\ app' = IF doc.failed THEN Failed(a)
              ELSE IF doc.phase = "done" THEN Finished(a) ELSE a
    /\ IF doc.failed \/ doc.phase = "done"
       THEN /\ cleaning' = cleaning \union {[run |-> doc.run, checked |-> FALSE]}
            /\ job' = Superseded(job)
       ELSE UNCHANGED <<cleaning, job>>

\* Mutant: a completion is taken for current whatever its token.
AnyPollDelivers ==
    /\ poll # NoPoll
    /\ poll' = NoPoll
    /\ IF app.phase = "provisioning" /\ Acknowledges(poll.doc, poll.run)
       THEN Applies(poll.doc)
       ELSE UNCHANGED <<record, app, job, cleaning>>
    /\ UNCHANGED <<docker, inbox, guest, minted, vm, spent>>

PollDelivers ==
    /\ poll # NoPoll
    /\ poll' = NoPoll
    /\ IF poll.live /\ Acknowledges(poll.doc, poll.run)
       THEN Applies(poll.doc)
       ELSE /\ app' = IF poll.live THEN [app EXCEPT !.seen = "absent"] ELSE app
            /\ UNCHANGED <<record, job, cleaning>>
    /\ UNCHANGED <<docker, inbox, guest, minted, vm, spent>>

-----------------------------------------------------------------------------
(* The share password: asked for by the guest, selected by the operator.   *)

Wants(phase) == phase = "waiting-for-secret"

SelectsEnv ==
    /\ app.phase = "provisioning" /\ app.run # NoRun /\ job = NoJob
    /\ ~app.sent /\ Wants(app.seen)
    /\ job' = Job("ask", app.run)
    /\ UNCHANGED <<docker, inbox, guest, record, app, poll, cleaning, minted, vm, spent>>

\* deliver_secret polls again: nothing is sent to a run that is not waiting.
SecretAsks ==
    /\ job.next = "ask"
    /\ IF Acknowledges(status, job.run) /\ Wants(status.phase)
       THEN Onward("test") ELSE job' = NoJob
    /\ UNCHANGED <<docker, inbox, guest, record, app, poll, cleaning, minted, vm, spent>>

Sent == app' = IF job.live THEN [app EXCEPT !.sent = TRUE] ELSE app

\* A secret that is there is never overwritten.
SecretTests ==
    /\ job.next = "test"
    /\ IF inbox.secret # NoRun
       THEN job' = NoJob /\ Sent
       ELSE Onward("send") /\ UNCHANGED app
    /\ UNCHANGED <<docker, inbox, guest, record, poll, cleaning, minted, vm, spent>>

SecretSends ==
    /\ job.next = "send"
    /\ job' = NoJob
    /\ IF inbox.there
       THEN inbox' = [inbox EXCEPT !.secret = job.run] /\ Sent
       ELSE UNCHANGED <<inbox, app>>
    /\ UNCHANGED <<docker, guest, record, poll, cleaning, minted, vm, spent>>

\* It was not delivered, as far as the app can tell.
SecretFails ==
    /\ job.next \in {"ask", "test", "send"}
    /\ Fault
    /\ job' = NoJob
    /\ inbox' \in {inbox} \union {[inbox EXCEPT !.secret = job.run] : x \in {"send"} \cap {job.next}}
    /\ UNCHANGED <<docker, guest, record, app, poll, cleaning, minted, vm>>

-----------------------------------------------------------------------------
(* Cleanup: the trigger is read, and unless it is another run's, removed   *)
(* with the payload and the secret.                                        *)

CleanupReads(c) ==
    /\ c \in cleaning /\ ~c.checked
    /\ cleaning' = (cleaning \ {c}) \union
          {[c EXCEPT !.checked = TRUE] : x \in {inbox.trigger} \cap {NoRun, c.run}}
    /\ UNCHANGED <<docker, inbox, guest, record, app, job, poll, minted, vm, spent>>

CleanupRemoves(c) ==
    /\ c \in cleaning /\ c.checked
    /\ cleaning' = cleaning \ {c}
    /\ inbox' = [NoInbox EXCEPT !.there = inbox.there]
    /\ UNCHANGED <<docker, guest, record, app, job, poll, minted, vm, spent>>

CleanupFails(c) ==
    /\ c \in cleaning
    /\ Fault
    /\ cleaning' = cleaning \ {c}
    /\ UNCHANGED <<docker, inbox, guest, record, app, job, poll, minted, vm>>

-----------------------------------------------------------------------------
(* "Check setup and connect", and the look at a finished re-provisioning.  *)

Connects ==
    /\ app.phase = "provisioning" /\ container
    /\ app' = [app EXCEPT !.phase = "connecting", !.following = FALSE]
    /\ job' = Superseded(job) /\ poll' = Superseded(poll)
    /\ UNCHANGED <<docker, inbox, guest, record, cleaning, minted, vm, spent>>

\* There are shares to mount once a run has made them, or one did long ago.
ConnectSucceeds ==
    /\ app.phase = "connecting"
    /\ connected \/ finished # {}
    /\ connected' = TRUE
    /\ record' = NoRecord
    /\ app' = [In("away") EXCEPT !.verify = app.verify]
    /\ UNCHANGED <<docker, inbox, guest, job, poll, cleaning, minted, forgotten, spent>>

\* The password is refused, and may be set again; or anything else went wrong.
ConnectFails ==
    /\ app.phase = "connecting"
    /\ app' \in {[app EXCEPT !.phase = "provisioning", !.offer = TRUE],
                 [In("start_failed") EXCEPT !.mode = app.mode]}
    /\ UNCHANGED <<docker, inbox, guest, record, job, poll, cleaning, minted, vm, spent>>

\* _verify_reprovision: the agent is the one this app ships, or it is not.
Verifies ==
    /\ app.phase = "away" /\ app.verify
    /\ app' = [app EXCEPT !.verify = FALSE]
    /\ record' \in {NoRecord, record}
    /\ UNCHANGED <<docker, inbox, guest, job, poll, cleaning, minted, vm, spent>>

-----------------------------------------------------------------------------
(* The guest: its watcher, and guest-setup.ps1.                            *)

\* The watcher looks every 30 s: a cleanup is not that long between its commands.
WatcherReads ==
    /\ exec = Idle /\ channel
    /\ inbox.trigger \notin {NoRun, accepted}
    /\ \A c \in cleaning : ~c.checked
    /\ exec' = [run |-> inbox.trigger, step |-> "copying"]
    /\ UNCHANGED <<docker, inbox, accepted, status, ran, finished, record, host, vm, spent>>

\* Mutant: the run is marked as accepted once it has ended.
RunsUnmarked ==
    /\ exec.step = "copying" /\ channel /\ inbox.payload
    /\ exec' = [exec EXCEPT !.step = "working"]
    /\ ran' = ran \union {exec.run}
    /\ status' = Status(exec.run, "working", FALSE)
    /\ UNCHANGED <<docker, inbox, accepted, finished, record, host, vm, spent>>

\* Mutant: the mark is read from the inbox once more.
MarksTrigger ==
    /\ exec.step = "copying" /\ channel /\ inbox.payload
    /\ accepted' = inbox.trigger
    /\ exec' = [exec EXCEPT !.step = "working"]
    /\ ran' = ran \union {exec.run}
    /\ status' = Status(exec.run, "working", FALSE)
    /\ UNCHANGED <<docker, inbox, finished, record, host, vm, spent>>

\* The payload is in the protected directory, the run is marked as accepted, and
\* only then started.
RunStarts ==
    /\ exec.step = "copying" /\ channel /\ inbox.payload
    /\ accepted' = exec.run
    /\ exec' = [exec EXCEPT !.step = "working"]
    /\ ran' = ran \union {exec.run}
    /\ status' = Status(exec.run, "working", FALSE)
    /\ UNCHANGED <<docker, inbox, finished, record, host, vm, spent>>

\* The mark cannot be written: the host is told, and the run not started, yet.
MarkFails ==
    /\ exec.step = "copying" /\ channel /\ inbox.payload
    /\ Fault
    /\ exec' = Idle
    /\ status' = Status(exec.run, "working", TRUE)
    /\ UNCHANGED <<docker, inbox, accepted, ran, finished, record, host, vm>>

\* The payload was taken away while it was being copied.
CopyFails ==
    /\ exec.step = "copying" /\ ~(channel /\ inbox.payload)
    /\ accepted' = exec.run
    /\ exec' = Idle
    /\ status' = Status(exec.run, "working", TRUE)
    /\ UNCHANGED <<docker, inbox, ran, finished, record, host, vm, spent>>

\* Iff the account or its password is to be made.
GuestAsks ==
    /\ exec.step = "working"
    /\ exec' = [exec EXCEPT !.step = "waiting-for-secret"]
    /\ status' = Status(exec.run, exec'.step, FALSE)
    /\ UNCHANGED <<docker, inbox, accepted, ran, finished, record, host, vm, spent>>

GuestTakes ==
    /\ Wants(exec.step)
    /\ channel /\ inbox.secret # NoRun
    /\ exec' = [exec EXCEPT !.step = "creating-share"]
    /\ status' = Status(exec.run, exec'.step, FALSE)
    /\ UNCHANGED <<docker, inbox, accepted, ran, finished, record, host, vm, spent>>

\* A run ends; what fails while it waits is the copy of the secret.
GuestEnds ==
    /\ exec.step \in {"working", "waiting-for-secret", "creating-share"}
    /\ \E how \in {"done", "failed"} :
          /\ Wants(exec.step) => how = "failed" /\ channel /\ inbox.secret # NoRun
          /\ finished' = finished \union {r \in {exec.run} : how = "done"}
          /\ status' = IF how = "done" THEN Status(exec.run, "done", FALSE)
                                       ELSE Status(exec.run, exec.step, TRUE)
    /\ exec' = Idle
    /\ UNCHANGED <<docker, inbox, accepted, ran, record, host, vm, spent>>

\* Windows restarts, or the whole container does: /run is made anew, and so is
\* smb.conf.  The watcher comes back, guest-setup.ps1 does not.
Reboots ==
    /\ container
    /\ Spend("reboots")
    /\ exec' = Idle
    /\ \/ UNCHANGED <<boot, channel, inbox>>
       \/ boot' = boot + 1 /\ channel' = FALSE /\ inbox' = NoInbox
    /\ UNCHANGED <<container, orphan, accepted, status, ran, finished, record, host, vm>>

-----------------------------------------------------------------------------
(* The specification.                                                      *)

Starts == StartsPlainly \/ StartsWithRecord

Creates ==
    \/ Rechecks \/ AskCreate \/ CreatesRecord \/ Composes \/ OrphanComposes \/ CreatedRecord
    \/ CreationFails \/ Discard

Asks == AskProvision \/ AskReprovision \/ AskRetry

Stages ==
    \/ RecordsIntent \/ ProbeAnswers \/ RecordsRun \/ EnsuresChannel \/ Checks
    \/ ResetsInbox \/ CopiesPayload \/ WritesTrigger \/ CommandFails

Follows == PollBegins \/ PollDelivers

Delivers == SelectsEnv \/ SecretAsks \/ SecretTests \/ SecretSends \/ SecretFails

CleansUp == \E c \in cleaning : CleanupReads(c) \/ CleanupRemoves(c) \/ CleanupFails(c)

Connecting == Connects \/ ConnectSucceeds \/ ConnectFails \/ Verifies

Guest ==
    WatcherReads \/ RunStarts \/ MarkFails \/ CopyFails \/ GuestAsks \/ GuestTakes \/ GuestEnds

Next ==
    \/ AppEnds \/ Starts \/ Creates \/ Asks \/ Stages \/ Follows \/ Delivers
    \/ CleansUp \/ Connecting \/ Guest \/ Reboots

Spec == Init /\ [][Next]_vars

\* The app polls every three seconds and its workers are bounded, the operator
\* selects the file when asked for it, and what runs in the guest gets on.
FairSpec ==
    /\ Spec
    /\ WF_vars(PollBegins \/ PollDelivers)
    /\ WF_vars(SelectsEnv \/ SecretAsks \/ SecretTests \/ SecretSends)
    /\ WF_vars(GuestTakes \/ GuestEnds)

-----------------------------------------------------------------------------
(* Properties.                                                             *)

Phases == {"closed", "setup", "provisioning", "connecting", "start_failed", "away"}

TypeOK ==
    /\ container \in BOOLEAN /\ orphan \in BOOLEAN /\ channel \in BOOLEAN
    /\ connected \in BOOLEAN /\ forgotten \in BOOLEAN
    /\ boot \in Nat \ {0}
    /\ inbox \in [there: BOOLEAN, payload: BOOLEAN, trigger: Runs \union {NoRun},
                  secret: Runs \union {NoRun}]
    /\ accepted \in Runs \union {NoRun} /\ ran \subseteq Runs /\ finished \subseteq ran
    /\ exec.run \in Runs <=> exec.step # "idle"
    /\ status.run \in Runs \union {NoRun}
    /\ record.run # NoRun => record.phase \in {"staging", "triggered"}
    /\ app.phase \in Phases
    /\ app.following => app.phase = "provisioning" /\ app.run \in Runs
    /\ job.live => app.phase \in {"setup", "provisioning"}
    /\ \A c \in cleaning : c.run \in Runs

\* "A crash mid-run must not re-execute the same run" (watcher.ps1:501), nor does
\* staging it again under its id, or a trigger that stays in the inbox.
RunsOnce ==
    [][exec.step = "copying" /\ exec'.step = "working" => exec.run \notin ran]_vars

\* The password a run sets is the one that was selected for this run: none is
\* left over from a run before it.
OwnSecret == [][GuestTakes => inbox.secret = exec.run]_vars

Working == {"working", "waiting-for-secret", "creating-share"}

Setup == INSTANCE SetupRuns WITH
    drawn <- 1 .. minted,
    settled <- 1 .. accepted,
    running <- {r \in {exec.run} : exec.step \in Working},
    given <- {r \in {exec.run} : exec.step = "creating-share"},
    password <- {inbox.secret} \ {NoRun},
    done <- finished,
    told <- {r \in {app.run} : app.outcome = "done"}

\* Host and guest together keep SetupRuns: runs are settled in the order of their
\* ids, each with its own password, and what the operator reads as done is done,
\* whoever restarts between the trigger, the mark of the watcher and the status.
KeepsRuns == Setup!Spec

\* What the app takes for finished has finished: whatever polls are late, and
\* whichever run they read, no run is called done that is not.
ConcludesOwnRun ==
    [][\/ app.outcome # "done" /\ app'.outcome = "done"
       \/ ~app.verify /\ app'.verify
       => \E r \in {app.run, app'.run} \ {NoRun} : r \in finished]_vars

\* A VM that this app created is known to be half made until a connect to it has
\* succeeded: a restarted app never mounts it meanwhile.  The operator may discard
\* "a record Docker has disproved" (__main__.py:786), and makes it unknown if it is
\* there or on its way by then; nothing else does.
VmIsRemembered ==
    /\ TypeOK
    /\ container /\ ~connected => record # NoRecord \/ forgotten

\* The app follows a run that has acknowledged it; every new run begins with
\* none, so no other run takes over from it unseen.
Believes == app.following /\ app.seen # "absent"

\* An acknowledged run is believed "because the watcher records the accepted run
\* locally and survives a reboot on the same run" (firstrun.py:822), and followed
\* to its end: there is one, unless Windows restarts under the run.
UndisturbedRunEnds == Believes ~> (~Believes \/ spent.reboots > 0)

=============================================================================
