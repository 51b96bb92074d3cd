---------------------------- MODULE ListRequests ----------------------------
(***************************************************************************)
(* The listings of single folders in the Selective Sync tab: the requests  *)
(* that gui/icloud_bridge_gui/listing.py keeps the books of, the workers   *)
(* that write, poll and cancel them (bridge.py), the poll timer and the    *)
(* rows of window.py, and the agent that answers, fails to, or never does. *)
(*                                                                         *)
(* A folder is asked for by its first page, which it shows as "loading",   *)
(* and page by page from a "Load more" row.  A reload builds the tree anew *)
(* as a new generation; quiescing for a power off forgets all requests but *)
(* leaves the rows.  A request of an earlier generation must do nothing.   *)
(***************************************************************************)
EXTENDS Integers

CONSTANTS
    Folders,
    MaxRequests,\* bound: requests
    LastPage,   \* the pages of a folder are 0 .. LastPage
    MaxEvents   \* bound: reloads, power offs

ASSUME ListAssumption ==
    Folders # {} /\ MaxRequests \in Nat /\ LastPage \in Nat /\ MaxEvents \in Nat

Requests == 1 .. MaxRequests    \* the ids, which are random, in order of use
Pages == 0 .. LastPage
NoRow == 0      \* there is no "Load more" row; page 0 is never asked for by one
Busy == -1      \* it is disabled, as "Loading..."

VARIABLES
    generation, \* FolderRequests._generation
    state,      \* FolderRequests._state
    req,        \* the requests; those that are "pending" are _pending
    inflight,   \* _polls_in_flight
    timer,      \* the poll timer runs
    paused,     \* _io_paused
    tree,       \* the folders that have a row
    rows,       \* the pages of a folder that are shown
    more,       \* its "Load more" row: NoRow, Busy, or the page it asks for
    poll,       \* the worker that polls for a request, and what it has read
    disk,       \* the request, then the response, on the share
    doubled,    \* history: folders that show a page twice
    spoiled,    \* history: what has been done to this tree on behalf of another
    events

requests == <<generation, state, req>>
polling == <<inflight, timer, poll>>
shown == <<tree, rows, more, doubled, spoiled>>
vars == <<requests, polling, paused, shown, disk, events>>

-----------------------------------------------------------------------------
(* FolderRequests.                                                         *)

Pending == {r \in Requests : req[r].place = "pending"}
IsFirst(r) == req[r].page = 0
IsOld(r) == req[r].born # generation

Unused == [place |-> "unused", folder |-> CHOOSE f \in Folders : TRUE, page |-> 0,
           born |-> 0, tag |-> 0]
Gone == [Unused EXCEPT !.place = "gone"]

\* What lies on the share for a request that is forgotten, is cancelled or is
\* deleted by the agent after ten minutes: nobody reads it.
Forget(some) ==
    /\ req' = [r \in Requests |-> IF r \in some THEN Gone ELSE req[r]]
    /\ disk' = [r \in Requests |-> IF r \in some THEN "none" ELSE disk[r]]

\* reset: a new generation, no states and no requests.
Reset ==
    /\ generation' = generation + 1
    /\ state' = [f \in Folders |-> "idle"]
    /\ Forget(Pending)

\* _sync_poll_timer.
SyncTimer ==
    timer' = (~paused' /\ (inflight' # {} \/ \E r \in Requests : req'[r].place = "pending"))

-----------------------------------------------------------------------------
(* Asking.                                                                 *)

Happens == events < MaxEvents /\ events' = events + 1

\* _request_files; under the gate it undoes what the caller claimed, and
\* nothing has happened.
Ask(f, page, r) ==
    /\ ~paused
    /\ req[r].place = "unused" /\ \A s \in 1 .. r - 1 : req[s].place # "unused"
    /\ req' = [req EXCEPT ![r] = [place |-> "writing", folder |-> f, page |-> page,
                                  born |-> generation, tag |-> 0]]
    /\ UNCHANGED <<generation, polling, paused, tree, rows, doubled, spoiled, disk, events>>

\* Mutant: a folder that is loading is asked for again.
MayBegin(f) == state[f] # "loaded"

\* begin_first_page.
Begins(f) == state[f] = "idle"

\* _on_item_expanded, and again after it was collapsed.
Expand(f, r) ==
    /\ f \in tree /\ Begins(f)
    /\ state' = [state EXCEPT ![f] = "loading"]
    /\ Ask(f, 0, r)
    /\ UNCHANGED more

\* _on_item_activated: the row is consumed by the first of several signals.
Activate(f, r) ==
    /\ f \in tree /\ more[f] \notin {NoRow, Busy}
    /\ more' = [more EXCEPT ![f] = Busy]
    /\ Ask(f, more[f], r)
    /\ UNCHANGED state

\* The worker: the request is on the share, or it is not.
Write(r) ==
    /\ req[r].place = "writing"
    /\ \/ /\ req' = [req EXCEPT ![r].place = "written"]
          /\ disk' = [disk EXCEPT ![r] = "asked"]
       \/ /\ req' = [req EXCEPT ![r].place = "refused"]
          /\ UNCHANGED disk
    /\ UNCHANGED <<generation, state, polling, paused, shown, events>>

\* dispatched: the tag is the generation of now.
Dispatched(r) ==
    /\ req[r].place = "written"
    /\ req' = [req EXCEPT ![r].place = "pending", ![r].tag = generation]
    /\ UNCHANGED <<generation, state, inflight, poll, paused, shown, disk, events>>
    /\ SyncTimer

\* What these requests claimed is given back: the folder can be expanded again,
\* or the row is restored with its page.
GiveBack(some) ==
    /\ state' = [f \in Folders |->
                   IF \E r \in some : IsFirst(r) /\ req[r].folder = f THEN "idle" ELSE state[f]]
    /\ more' = [f \in Folders |->
                  IF f \in tree /\ \E r \in some : ~IsFirst(r) /\ req[r].folder = f
                  THEN req[CHOOSE r \in some : ~IsFirst(r) /\ req[r].folder = f].page
                  ELSE more[f]]
    /\ spoiled' = IF <<state', more'>> # <<state, more>> /\ \E r \in some : IsOld(r)
                  THEN spoiled \cup {"release"} ELSE spoiled
    /\ UNCHANGED <<generation, tree, rows, doubled>>

\* _on_request_dropped: the generation is not looked at.
Refused(r) ==
    /\ req[r].place = "refused"
    /\ Forget({r})
    /\ GiveBack({r})
    /\ UNCHANGED <<polling, paused, events>>

-----------------------------------------------------------------------------
(* Polling.                                                                *)

\* Mutant: what has expired is forgotten without more.
ForgetExpired(expired) == UNCHANGED <<generation, state, tree, rows, more, doubled, spoiled>>

\* fail: for each request whose deadline has passed.
FailExpired(expired) == GiveBack(expired)

\* _poll_pending; the deadline of any pending request may have passed.
Tick(expired) ==
    /\ timer /\ ~paused
    /\ expired \subseteq Pending
    /\ FailExpired({r \in expired : req[r].tag = generation})
    /\ Forget(expired)
    /\ LET polled == (Pending \ expired) \ inflight
       IN  /\ inflight' = inflight \cup polled
           /\ poll' = [r \in Requests |-> IF r \in polled THEN "reading" ELSE poll[r]]
    /\ UNCHANGED <<paused, events>>
    /\ SyncTimer

Answers == {"page", "error"}    \* a malformed listing ends as an error does

\* poll_response: what is read is also removed, readable or not.
PollReads(r) ==
    /\ poll[r] = "reading"
    /\ IF disk[r] \in Answers
       THEN /\ \E result \in {disk[r], "failed"} : poll' = [poll EXCEPT ![r] = result]
            /\ disk' = [disk EXCEPT ![r] = "none"]
       ELSE poll' = [poll EXCEPT ![r] = "nothing"] /\ UNCHANGED disk
    /\ UNCHANGED <<requests, inflight, timer, paused, shown, events>>

\* The row that was there goes, and comes back if there is a next page.
NextRow(f, page) == IF page < LastPage THEN page + 1 ELSE NoRow

\* _apply_response, from where the page is put into the tree.
Show(r) ==
    LET f == req[r].folder
        page == req[r].page
    IN  /\ doubled' = IF page \in rows[f] THEN doubled \cup {f} ELSE doubled
        /\ rows' = [rows EXCEPT ![f] = @ \cup {page}]
        /\ more' = [more EXCEPT ![f] = NextRow(f, page)]
        /\ state' = IF IsFirst(r) THEN [state EXCEPT ![f] = "loaded"] ELSE state
        /\ spoiled' = IF IsOld(r) THEN spoiled \cup {"answer"} ELSE spoiled
        /\ UNCHANGED <<generation, tree>>

\* _on_response and _on_response_failed.  A request that is no longer pending,
\* or of another generation by its tag, is left alone.
PollReturns(r) ==
    /\ poll[r] \notin {"off", "reading"}
    /\ poll' = [poll EXCEPT ![r] = "off"]
    /\ inflight' = inflight \ {r}
    /\ IF poll[r] = "nothing" \/ r \notin Pending
       THEN UNCHANGED <<requests, shown, disk>>
       ELSE /\ Forget({r})
            /\ IF req[r].tag # generation THEN UNCHANGED <<generation, state, shown>>
               ELSE IF poll[r] = "page" /\ req[r].folder \in tree THEN Show(r)
               ELSE GiveBack({r})
    /\ UNCHANGED <<paused, events>>
    /\ SyncTimer

-----------------------------------------------------------------------------
(* The agent, and what happens around the requests.                        *)

\* Invoke-ListRequests: an answer, or none when it cannot be written.
Answer(r) ==
    /\ disk[r] = "asked"
    /\ \E answer \in Answers \cup {"none"} : disk' = [disk EXCEPT ![r] = answer]
    /\ UNCHANGED <<requests, polling, paused, shown, events>>

\* _rebuild_tree, from the result of a reload, also of one begun before a
\* pause; a folder may have gone.
Rebuild ==
    /\ Happens
    /\ Reset
    /\ inflight' = {}
    /\ UNCHANGED paused /\ SyncTimer
    /\ tree' \in SUBSET Folders
    /\ rows' = [f \in Folders |-> {}]
    /\ more' = [f \in Folders |-> NoRow]
    /\ doubled' = {} /\ spoiled' = {}
    /\ UNCHANGED poll

\* quiesce: the timer is stopped by the gate, the rows stay as they are.
Quiesce ==
    /\ Happens
    /\ ~paused /\ paused' = TRUE
    /\ timer' = FALSE
    /\ Reset
    /\ spoiled' = spoiled \cup {"reset"}
    /\ UNCHANGED <<inflight, poll, tree, rows, more, doubled>>

Resume ==
    /\ paused /\ paused' = FALSE
    /\ UNCHANGED <<requests, inflight, poll, shown, disk, events>>
    /\ SyncTimer

-----------------------------------------------------------------------------
Init ==
    /\ generation = 0
    /\ state = [f \in Folders |-> "idle"]
    /\ req = [r \in Requests |-> Unused]
    /\ inflight = {} /\ timer = FALSE /\ paused = FALSE
    /\ tree = Folders
    /\ rows = [f \in Folders |-> {}]
    /\ more = [f \in Folders |-> NoRow]
    /\ poll = [r \in Requests |-> "off"]
    /\ disk = [r \in Requests |-> "none"]
    /\ doubled = {} /\ spoiled = {} /\ events = 0

Worker(r) == Write(r) \/ PollReads(r)
Result(r) == Dispatched(r) \/ Refused(r) \/ PollReturns(r)
Operator(r) == \E f \in Folders : Expand(f, r) \/ Activate(f, r)

Next ==
    \/ \E r \in Requests : Worker(r) \/ Result(r) \/ Operator(r) \/ Answer(r)
    \/ \E expired \in SUBSET Requests : Tick(expired)
    \/ Rebuild \/ Quiesce \/ Resume

Spec == Init /\ [][Next]_vars

TimesOut(r) == \E expired \in SUBSET Requests : r \in expired /\ Tick(expired)

\* Workers end, their results are delivered, a running timer fires and finds a
\* deadline passed at last.  The agent owes no answer, and nobody has to resume.
FairSpec ==
    /\ Spec
    /\ \A r \in Requests : WF_vars(Write(r)) /\ WF_vars(Result(r)) /\ WF_vars(TimesOut(r))

-----------------------------------------------------------------------------
TypeOK ==
    /\ generation \in Nat
    /\ state \in [Folders -> {"idle", "loading", "loaded"}]
    /\ req \in [Requests -> [place : {"unused", "writing", "written", "refused", "pending", "gone"},
                             folder : Folders, page : Pages, born : Nat, tag : Nat]]
    /\ inflight \subseteq {r \in Requests : poll[r] # "off"}
    /\ timer \in BOOLEAN /\ paused \in BOOLEAN
    /\ tree \subseteq Folders
    /\ rows \in [Folders -> SUBSET Pages]
    /\ more \in [Folders -> {Busy} \cup Pages]
    /\ poll \in [Requests -> {"off", "reading", "nothing", "failed"} \cup Answers]
    /\ disk \in [Requests -> {"none", "asked"} \cup Answers]
    /\ doubled \subseteq Folders /\ spoiled \subseteq {"release", "answer", "reset"}
    /\ events \in 0 .. MaxEvents

\* Who is being asked, and still owes the window an outcome.
Asked(r) == req[r].place \in {"writing", "written", "refused", "pending"}

\* "Run the response poll exactly while there is something to poll for.  Every
\* path that changes one of those calls this" (window.py:2821): no path forgets.
TimerFollows == timer <=> ~paused /\ (Pending # {} \/ inflight # {})

\* "Mark a folder loaded before its request is even dispatched and a failure
\* leaves it permanently empty with no way to retry" (listing.py:5): a folder is
\* "loading" only while a request of its own, which the timer polls, will end
\* that; a "Load more" row is busy likewise, in a tree that no request of another
\* has touched.
ClaimsAreHeld ==
    /\ TypeOK
    /\ TimerFollows
    /\ \A f \in Folders :
          /\ state[f] = "loading" =>
                \E r \in Requests : Asked(r) /\ req[r].folder = f /\ IsFirst(r) /\ ~IsOld(r)
          /\ more[f] = Busy /\ spoiled = {} =>
                \E r \in Requests : Asked(r) /\ req[r].folder = f /\ ~IsFirst(r) /\ ~IsOld(r)

\* However expansions, activations, failures, timeouts and late answers follow
\* each other, the folder is not filled twice: the claims, the ids and the
\* removal of what is read work together.  Unless requests outlive their tree.
PagesOnce == spoiled = {} => doubled = {}

\* Whether or not the agent ever answers, a folder does not stay "loading" and a
\* row does not stay busy.
Settles ==
    \A f \in Folders :
        /\ state[f] = "loading" ~> state[f] # "loading"
        /\ more[f] = Busy ~> (more[f] # Busy \/ spoiled # {})

=============================================================================
