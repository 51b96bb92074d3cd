------------------------ MODULE ListRequests_proofs ------------------------
(***************************************************************************)
(* The books of the list requests, for any folders, pages, requests and    *)
(* reloads: what is claimed is held by a request that will end the claim,  *)
(* the poll timer follows, and a tree that no request of another tree has  *)
(* touched shows no page twice.                                            *)
(***************************************************************************)
EXTENDS ListRequests, TLAPS

(* The inductive invariant.                                                *)

\* A request of the tree that is shown.
Current(r) == Asked(r) /\ ~IsOld(r)

\* Generations only grow, and what is recorded is recorded under the one of
\* now, since a new generation forgets all that is pending.
TagsFit ==
    /\ \A r \in Requests : req[r].born <= generation
    /\ \A r \in Pending : req[r].tag = generation

\* Only a folder of the tree has a row.
RowsFit == \A f \in Folders : f \notin tree => more[f] = NoRow

\* A claim has its request ...
Held ==
    \A f \in Folders :
        /\ state[f] = "loading" =>
              \E r \in Requests : Current(r) /\ req[r].folder = f /\ IsFirst(r)
        /\ more[f] = Busy /\ spoiled = {} =>
              \E r \in Requests : Current(r) /\ req[r].folder = f /\ ~IsFirst(r)

\* ... and a request its claim ...
Claimed ==
    \A r \in Requests : Current(r) =>
        /\ IsFirst(r) => state[req[r].folder] = "loading"
        /\ ~IsFirst(r) => /\ more[req[r].folder] = Busy
                          /\ \A page \in rows[req[r].folder] : page < req[r].page

\* ... which is why there is one at most ...
Alone ==
    \A r, s \in Requests :
        Current(r) /\ Current(s) /\ req[r].folder = req[s].folder => r = s

\* ... and what is shown is what came before the page that may be asked for.
InOrder ==
    \A f \in Folders :
        /\ state[f] # "loaded" => rows[f] = {} /\ more[f] = NoRow
        /\ more[f] \notin {NoRow, Busy} => \A page \in rows[f] : page < more[f]

Orderly == Claimed /\ Alone /\ InOrder /\ doubled = {}

\* The types, of the books and of the polls.
Books ==
    /\ generation \in Nat
    /\ state \in [Folders -> {"idle", "loading", "loaded"}]
    /\ req \in [Requests -> [place : {"unused", "writing", "written", "refused", "pending", "gone"},
                             folder : Folders, page : Pages, born : Nat, tag : Nat]]
    /\ tree \subseteq Folders
    /\ rows \in [Folders -> SUBSET Pages]
    /\ more \in [Folders -> {Busy} \cup Pages]
    /\ disk \in [Requests -> {"none", "asked"} \cup Answers]
    /\ doubled \subseteq Folders /\ spoiled \subseteq {"release", "answer", "reset"}

Polls ==
    /\ inflight \subseteq {r \in Requests : poll[r] # "off"}
    /\ timer \in BOOLEAN /\ paused \in BOOLEAN
    /\ poll \in [Requests -> {"off", "reading", "nothing", "failed"} \cup Answers]
    /\ events \in 0 .. MaxEvents

Good == Books /\ TagsFit /\ RowsFit /\ Held /\ (spoiled = {} => Orderly)

IInv == Good /\ Polls /\ TimerFollows

LEMMA Types == TypeOK <=> Books /\ Polls
BY DEF TypeOK, Books, Polls

-----------------------------------------------------------------------------
(* What the actions do to single requests.                                 *)

LEMMA Kept ==
    ASSUME NEW s \in Requests, req'[s] = req[s], generation' = generation
    PROVE  /\ Current(s)' <=> Current(s)
           /\ IsFirst(s)' <=> IsFirst(s)
           /\ Asked(s)' <=> Asked(s)
           /\ IsOld(s)' <=> IsOld(s)
BY DEF Current, Asked, IsOld, IsFirst

LEMMA GoneType ==
    ASSUME Books
    PROVE  /\ Gone \in [place : {"gone"}, folder : Folders, page : {0}, born : {0}, tag : {0}]
           /\ Unused \in [place : {"unused"}, folder : Folders, page : {0}, born : {0}, tag : {0}]
<1>1. (CHOOSE f \in Folders : TRUE) \in Folders
  BY ListAssumption
<1> QED
  BY <1>1 DEF Gone, Unused

\* What is forgotten is not asked any more, the rest is as it was.
LEMMA Forgotten ==
    ASSUME Books, NEW some \in SUBSET Requests, Forget(some)
    PROVE  /\ req' \in [Requests -> [place : {"unused", "writing", "written", "refused", "pending", "gone"},
                                     folder : Folders, page : Pages, born : Nat, tag : Nat]]
           /\ disk' \in [Requests -> {"none", "asked"} \cup Answers]
           /\ \A r \in some : ~Asked(r)' /\ req'[r].place = "gone" /\ req'[r].born = 0
           /\ \A r \in Requests \ some : req'[r] = req[r]
<1>1. 0 \in Pages
  BY ListAssumption DEF Pages
<1>2. \A r \in Requests : req'[r] = IF r \in some THEN Gone ELSE req[r]
  BY DEF Forget
<1>3. Gone.place = "gone" /\ Gone.born = 0
  BY GoneType
<1>4. req' \in [Requests -> [place : {"unused", "writing", "written", "refused", "pending", "gone"},
                             folder : Folders, page : Pages, born : Nat, tag : Nat]]
  BY <1>1, GoneType DEF Forget, Books
<1>5. disk' \in [Requests -> {"none", "asked"} \cup Answers]
  BY DEF Forget, Books
<1> QED
  BY <1>2, <1>3, <1>4, <1>5 DEF Asked

\* A step that leaves every request, folder and row as current as it was.
LEMMA SameBooks ==
    ASSUME Good, Books',
           UNCHANGED <<generation, state, shown>>,
           \A s \in Requests : /\ Current(s)' <=> Current(s)
                               /\ req'[s].folder = req[s].folder /\ req'[s].page = req[s].page
                               /\ req'[s].born = req[s].born,
           \A s \in Requests : req'[s].place = "pending" => req'[s].tag = generation
    PROVE  Good'
<1> USE DEF shown
<1>1. TagsFit'
  BY DEF Good, TagsFit, Pending
<1>2. RowsFit'
  BY DEF Good, RowsFit
<1>3. \A s \in Requests : IsFirst(s)' <=> IsFirst(s)
  BY DEF IsFirst
<1>4. Held'
  BY <1>3 DEF Good, Held
<1>5. ASSUME spoiled' = {} PROVE Orderly'
  <2>1. Orderly
    BY <1>5 DEF Good
  <2>2. Claimed'
    BY <1>3, <2>1 DEF Orderly, Claimed
  <2>3. Alone' /\ InOrder' /\ doubled' = {}
    BY <2>1 DEF Orderly, Alone, InOrder
  <2> QED
    BY <2>2, <2>3 DEF Orderly
<1> QED
  BY <1>1, <1>2, <1>4, <1>5 DEF Good

\* Requests are forgotten: the rest is as current as it was.
LEMMA Remaining ==
    ASSUME Good, NEW some \in SUBSET Requests, Forget(some), generation' = generation
    PROVE  /\ \A s \in some : ~Current(s)'
           /\ \A s \in Requests \ some : /\ Current(s)' <=> Current(s)
                                         /\ IsFirst(s)' <=> IsFirst(s)
                                         /\ req'[s] = req[s]
           /\ TagsFit'
<1>1. Books
  BY DEF Good
<1>2. /\ \A r \in some : ~Asked(r)' /\ req'[r].place = "gone" /\ req'[r].born = 0
      /\ \A r \in Requests \ some : req'[r] = req[r]
  BY <1>1, Forgotten
<1>3. \A s \in Requests \ some : (Current(s)' <=> Current(s)) /\ (IsFirst(s)' <=> IsFirst(s))
  BY <1>2, Kept
<1>4. \A r \in Requests : req'[r].born <= generation'
  BY <1>1, <1>2 DEF Good, TagsFit, Books
<1>5. \A r \in Requests : req'[r].place = "pending" => req'[r].tag = generation'
  BY <1>2 DEF Good, TagsFit, Pending
<1> QED
  BY <1>2, <1>3, <1>4, <1>5 DEF Current, TagsFit, Pending

\* What GiveBack makes of the "Load more" rows.
LEMMA RowsGivenBack ==
    ASSUME Books, NEW some \in SUBSET Requests, GiveBack(some), NEW f \in Folders
    PROVE  \/ more'[f] = more[f]
              /\ ~(f \in tree /\ \E r \in some : ~IsFirst(r) /\ req[r].folder = f)
           \/ \E r \in some : ~IsFirst(r) /\ req[r].folder = f /\ more'[f] = req[r].page
<1>1. CASE f \in tree /\ \E r \in some : ~IsFirst(r) /\ req[r].folder = f
  <2> DEFINE given == CHOOSE r \in some : ~IsFirst(r) /\ req[r].folder = f
  <2>1. given \in some /\ ~IsFirst(given) /\ req[given].folder = f
    BY <1>1
  <2>2. more'[f] = req[given].page
    BY <1>1 DEF GiveBack
  <2> HIDE DEF given
  <2> QED
    BY <2>1, <2>2
<1>2. CASE ~(f \in tree /\ \E r \in some : ~IsFirst(r) /\ req[r].folder = f)
  BY <1>2 DEF GiveBack
<1> QED
  BY <1>1, <1>2

\* Requests end, and give back what they claimed: what anybody else claims is
\* not theirs, and what an old request would give back spoils the tree.
LEMMA GivesBack ==
    ASSUME Good, NEW some \in SUBSET Requests, \A r \in some : Asked(r),
           Forget(some), GiveBack(some)
    PROVE  Good'
<1>1. Books
  BY DEF Good
<1>2. UNCHANGED <<generation, tree, rows, doubled>>
  BY DEF GiveBack
<1>3. /\ \A s \in some : ~Current(s)'
      /\ \A s \in Requests \ some : /\ Current(s)' <=> Current(s)
                                    /\ IsFirst(s)' <=> IsFirst(s)
                                    /\ req'[s] = req[s]
      /\ TagsFit'
  BY <1>2, Remaining
<1>4. \A f \in Folders :
         \/ more'[f] = more[f]
            /\ ~(f \in tree /\ \E r \in some : ~IsFirst(r) /\ req[r].folder = f)
         \/ \E r \in some : ~IsFirst(r) /\ req[r].folder = f /\ more'[f] = req[r].page
  BY <1>1, RowsGivenBack
<1>5. \A f \in Folders : state'[f] = IF \E r \in some : IsFirst(r) /\ req[r].folder = f
                                   THEN "idle" ELSE state[f]
  BY DEF GiveBack
<1>6. \A r \in Requests : ~IsFirst(r) => req[r].page \in Pages \ {NoRow, Busy}
  BY <1>1, ListAssumption DEF IsFirst, Books, Pages, NoRow, Busy
<1>7. Books'
  <2>1. state' \in [Folders -> {"idle", "loading", "loaded"}]
    BY <1>1 DEF GiveBack, Books
  <2>2. \A f \in Folders : more'[f] \in {Busy} \cup Pages
    BY <1>1, <1>4, <1>6 DEF Books
  <2>3. more' \in [Folders -> {Busy} \cup Pages]
    BY <2>2 DEF GiveBack
  <2>4. spoiled' \subseteq {"release", "answer", "reset"}
    BY <1>1 DEF GiveBack, Books
  <2>5. generation' \in Nat /\ tree' \subseteq Folders /\ rows' \in [Folders -> SUBSET Pages]
        /\ doubled' \subseteq Folders
    BY <1>1, <1>2 DEF Books
  <2>6. /\ req' \in [Requests -> [place : {"unused", "writing", "written", "refused", "pending", "gone"},
                                  folder : Folders, page : Pages, born : Nat, tag : Nat]]
        /\ disk' \in [Requests -> {"none", "asked"} \cup Answers]
    BY <1>1, Forgotten
  <2> QED
    BY <2>1, <2>3, <2>4, <2>5, <2>6 DEF Books
<1>8. RowsFit'
  BY <1>2 DEF Good, RowsFit, GiveBack
<1>9. spoiled' = {} => spoiled = {}
  BY DEF GiveBack
<1>10. Held'
  <2>1. ASSUME NEW f \in Folders, state'[f] = "loading"
        PROVE  \E r \in Requests : (Current(r) /\ req[r].folder = f /\ IsFirst(r))'
    <3>1. state[f] = "loading" /\ ~\E r \in some : IsFirst(r) /\ req[r].folder = f
      BY <1>5, <2>1
    <3>2. PICK s \in Requests : Current(s) /\ req[s].folder = f /\ IsFirst(s)
      BY <3>1 DEF Good, Held
    <3> QED
      BY <3>1, <3>2, <1>3
  <2>2. ASSUME NEW f \in Folders, more'[f] = Busy, spoiled' = {}
        PROVE  \E r \in Requests : (Current(r) /\ req[r].folder = f /\ ~IsFirst(r))'
    <3>1. more[f] = Busy /\ ~(f \in tree /\ \E r \in some : ~IsFirst(r) /\ req[r].folder = f)
      BY <1>4, <1>6, <2>2
    <3>2. f \in tree
      BY <3>1 DEF Good, RowsFit, Busy, NoRow
    <3>3. PICK s \in Requests : Current(s) /\ req[s].folder = f /\ ~IsFirst(s)
      BY <1>9, <2>2, <3>1 DEF Good, Held
    <3>4. s \in Requests \ some
      BY <3>1, <3>2, <3>3
    <3> QED
      BY <3>3, <3>4, <1>3 DEF Current, Asked, IsOld, IsFirst
  <2> QED
    BY <2>1, <2>2 DEF Held
<1>11. ASSUME spoiled' = {} PROVE Orderly'
  <2>1. Orderly
    BY <1>9, <1>11 DEF Good
  <2>2. Alone' /\ doubled' = {}
    <3>1. ASSUME NEW r \in Requests, NEW s \in Requests,
                 Current(r)', Current(s)', req'[r].folder = req'[s].folder
          PROVE  r = s
      <4>1. r \notin some /\ s \notin some
        BY <1>3, <3>1
      <4>2. Current(r) /\ Current(s) /\ req'[r] = req[r] /\ req'[s] = req[s]
        BY <1>3, <3>1, <4>1 DEF Current, Asked, IsOld, IsFirst
      <4> QED
        BY <2>1, <3>1, <4>2 DEF Orderly, Alone
    <3> QED
      BY <1>2, <2>1, <3>1 DEF Orderly, Alone
  <2>3. CASE state' = state /\ more' = more
    <3>1. ASSUME NEW s \in Requests, Current(s)'
          PROVE  /\ IsFirst(s)' => state'[req'[s].folder] = "loading"
                 /\ ~IsFirst(s)' => /\ more'[req'[s].folder] = Busy
                                    /\ \A page \in rows'[req'[s].folder] : page < req'[s].page
      <4>1. s \in Requests \ some
        BY <1>3, <3>1
      <4>2. Current(s) /\ req'[s] = req[s] /\ (IsFirst(s)' <=> IsFirst(s))
        BY <1>3, <3>1, <4>1 DEF Current, Asked, IsOld, IsFirst
      <4> QED
        BY <1>2, <2>1, <2>3, <4>2 DEF Orderly, Claimed
    <3>2. InOrder'
      BY <1>2, <2>1, <2>3 DEF Orderly, InOrder
    <3>3. Claimed'
      BY <3>1 DEF Claimed
    <3> QED
      BY <2>2, <3>2, <3>3 DEF Orderly
  <2>4. CASE ~(state' = state /\ more' = more)
    <3>1. \A r \in some : Current(r)
      BY <1>11, <2>4 DEF GiveBack, Current
    <3>2. ASSUME NEW s \in Requests, Current(s)'
          PROVE  /\ IsFirst(s)' => state'[req'[s].folder] = "loading"
                 /\ ~IsFirst(s)' => /\ more'[req'[s].folder] = Busy
                                    /\ \A page \in rows'[req'[s].folder] : page < req'[s].page
      <4>0. s \in Requests \ some
        BY <1>3, <3>2
      <4>1. Current(s) /\ req'[s] = req[s] /\ (IsFirst(s)' <=> IsFirst(s))
        BY <1>3, <3>2, <4>0 DEF Current, Asked, IsOld, IsFirst
      <4>2. ~\E r \in some : req[r].folder = req[s].folder
        BY <2>1, <3>1, <4>0, <4>1 DEF Orderly, Alone
      <4>3. req[s].folder \in Folders
        BY <1>1 DEF Books
      <4>4. more'[req[s].folder] = more[req[s].folder] /\ state'[req[s].folder] = state[req[s].folder]
        BY <1>4, <1>5, <4>2, <4>3
      <4> QED
        BY <1>2, <2>1, <4>1, <4>4 DEF Orderly, Claimed
    <3>3. Claimed'
      BY <3>2 DEF Claimed
    <3>4. ASSUME NEW f \in Folders
          PROVE  /\ state'[f] # "loaded" => rows'[f] = {} /\ more'[f] = NoRow
                 /\ more'[f] \notin {NoRow, Busy} => \A page \in rows'[f] : page < more'[f]
      <4>1. \A r \in some : req[r].folder = f =>
               /\ IsFirst(r) => state[f] = "loading"
               /\ ~IsFirst(r) => more[f] = Busy /\ \A page \in rows[f] : page < req[r].page
        BY <2>1, <3>1 DEF Orderly, Claimed
      <4>2. /\ state[f] # "loaded" => rows[f] = {} /\ more[f] = NoRow
            /\ more[f] \notin {NoRow, Busy} => \A page \in rows[f] : page < more[f]
        BY <2>1 DEF Orderly, InOrder
      <4>3. state'[f] # "loaded" => state[f] # "loaded"
        BY <1>5, <4>1
      <4>4. CASE more'[f] = more[f]
        BY <1>2, <4>2, <4>3, <4>4
      <4>5. CASE \E r \in some : ~IsFirst(r) /\ req[r].folder = f /\ more'[f] = req[r].page
        BY <1>2, <4>1, <4>2, <4>3, <4>5 DEF Busy, NoRow
      <4> QED
        BY <1>4, <4>4, <4>5
    <3>5. InOrder'
      BY <3>4 DEF InOrder
    <3> QED
      BY <2>2, <3>3, <3>5 DEF Orderly
  <2> QED
    BY <2>3, <2>4
<1> QED
  BY <1>3, <1>7, <1>8, <1>10, <1>11 DEF Good

\* A page is shown: the folder's only request has it, and it comes after all
\* that is shown.
LEMMA Shows ==
    ASSUME Good, NEW r \in Requests, Asked(r), req[r].folder \in tree, Forget({r}), Show(r)
    PROVE  Good'
<1> DEFINE f == req[r].folder
           page == req[r].page
<1>1. Books
  BY DEF Good
<1>2. UNCHANGED <<generation, tree>>
  BY DEF Show
<1>3. /\ ~Current(r)'
      /\ \A s \in Requests \ {r} : /\ Current(s)' <=> Current(s)
                                   /\ IsFirst(s)' <=> IsFirst(s)
                                   /\ req'[s] = req[s]
      /\ TagsFit'
  BY <1>2, Remaining
<1>4. /\ f \in Folders /\ page \in Pages /\ page \in Nat
      /\ NextRow(f, page) \in Pages /\ NextRow(f, page) \in {NoRow, page + 1}
  BY <1>1, ListAssumption DEF Books, Pages, NextRow, NoRow
<1>5. /\ rows' = [rows EXCEPT ![f] = @ \cup {page}]
      /\ more' = [more EXCEPT ![f] = NextRow(f, page)]
      /\ state' = IF IsFirst(r) THEN [state EXCEPT ![f] = "loaded"] ELSE state
      /\ doubled' = IF page \in rows[f] THEN doubled \cup {f} ELSE doubled
      /\ spoiled' = {} => spoiled = {} /\ ~IsOld(r)
  BY DEF Show
<1>6. spoiled' \subseteq {"release", "answer", "reset"}
  BY <1>1 DEF Show, Books
<1> HIDE DEF f, page
<1>7. Books'
  <2>1. state' \in [Folders -> {"idle", "loading", "loaded"}] /\ doubled' \subseteq Folders
    BY <1>1, <1>4, <1>5 DEF Books
  <2>2. rows' \in [Folders -> SUBSET Pages] /\ more' \in [Folders -> {Busy} \cup Pages]
    BY <1>1, <1>4, <1>5 DEF Books
  <2>3. generation' \in Nat /\ tree' \subseteq Folders
    BY <1>1, <1>2 DEF Books
  <2>4. /\ req' \in [Requests -> [place : {"unused", "writing", "written", "refused", "pending", "gone"},
                                  folder : Folders, page : Pages, born : Nat, tag : Nat]]
        /\ disk' \in [Requests -> {"none", "asked"} \cup Answers]
    BY <1>1, Forgotten
  <2> QED
    BY <1>6, <2>1, <2>2, <2>3, <2>4 DEF Books
<1>8. RowsFit'
  BY <1>1, <1>2, <1>5 DEF Good, RowsFit, Books, f
<1>9. \A g \in Folders \ {f} : state'[g] = state[g] /\ more'[g] = more[g] /\ rows'[g] = rows[g]
  BY <1>1, <1>5 DEF Books
<1>10. more'[f] = NextRow(f, page) /\ rows'[f] = rows[f] \cup {page}
       /\ (IsFirst(r) => state'[f] = "loaded") /\ (~IsFirst(r) => state'[f] = state[f])
  BY <1>1, <1>4, <1>5 DEF Books
<1>11. Held'
  <2>1. ASSUME NEW g \in Folders, state'[g] = "loading"
        PROVE  \E s \in Requests : (Current(s) /\ req[s].folder = g /\ IsFirst(s))'
    <3>1. state[g] = "loading" /\ (g = f => ~IsFirst(r))
      BY <1>9, <1>10, <2>1
    <3>2. PICK s \in Requests : Current(s) /\ req[s].folder = g /\ IsFirst(s)
      BY <3>1 DEF Good, Held
    <3>3. s # r
      BY <3>1, <3>2 DEF f
    <3> QED
      BY <3>2, <3>3, <1>3
  <2>2. ASSUME NEW g \in Folders, more'[g] = Busy, spoiled' = {}
        PROVE  \E s \in Requests : (Current(s) /\ req[s].folder = g /\ ~IsFirst(s))'
    <3>1. g # f
      BY <1>4, <1>10, <2>2 DEF Pages, Busy
    <3>2. more[g] = Busy /\ spoiled = {}
      BY <1>5, <1>9, <2>2, <3>1
    <3>3. PICK s \in Requests : Current(s) /\ req[s].folder = g /\ ~IsFirst(s)
      BY <3>2 DEF Good, Held
    <3>4. s # r
      BY <3>1, <3>3 DEF f
    <3> QED
      BY <3>3, <3>4, <1>3
  <2> QED
    BY <2>1, <2>2 DEF Held
<1>12. ASSUME spoiled' = {} PROVE Orderly'
  <2>1. Orderly /\ Current(r)
    BY <1>5, <1>12 DEF Good, Current
  <2>2. \A s \in Requests : Current(s)' => s # r /\ Current(s) /\ req[s].folder # f
    BY <1>3, <2>1 DEF Orderly, Alone, f
  <2>3. Alone'
    <3>1. ASSUME NEW s \in Requests, NEW t \in Requests,
                 Current(s)', Current(t)', req'[s].folder = req'[t].folder
          PROVE  s = t
      BY <1>3, <2>1, <2>2, <3>1 DEF Orderly, Alone
    <3> QED
      BY <3>1 DEF Alone
  <2>4. ASSUME NEW s \in Requests, Current(s)'
        PROVE  /\ IsFirst(s)' => state'[req'[s].folder] = "loading"
               /\ ~IsFirst(s)' => /\ more'[req'[s].folder] = Busy
                                  /\ \A p \in rows'[req'[s].folder] : p < req'[s].page
    <3>1. s # r /\ Current(s) /\ req[s].folder \in Folders \ {f}
      BY <1>1, <2>2, <2>4 DEF Books
    <3>2. req'[s] = req[s] /\ (IsFirst(s)' <=> IsFirst(s))
      BY <1>3, <3>1
    <3>3. /\ state'[req[s].folder] = state[req[s].folder]
          /\ more'[req[s].folder] = more[req[s].folder]
          /\ rows'[req[s].folder] = rows[req[s].folder]
      BY <1>9, <3>1
    <3> QED
      BY <2>1, <3>1, <3>2, <3>3 DEF Orderly, Claimed
  <2>5. Claimed'
    BY <2>4 DEF Claimed
  <2>6. state'[f] = "loaded" /\ \A p \in rows[f] : p < page
    <3>1. /\ state[f] # "loaded" => rows[f] = {} /\ more[f] = NoRow
          /\ IsFirst(r) => state[f] = "loading"
          /\ ~IsFirst(r) => more[f] = Busy /\ \A p \in rows[f] : p < page
      BY <1>4, <2>1 DEF Orderly, InOrder, Claimed, f, page
    <3> QED
      BY <1>10, <3>1 DEF Busy, NoRow
  <2>7. doubled' = {}
    <3>1. page \notin rows[f]
      BY <1>4, <2>6
    <3> QED
      BY <1>5, <2>1, <3>1 DEF Orderly
  <2>8. ASSUME NEW g \in Folders
        PROVE  /\ state'[g] # "loaded" => rows'[g] = {} /\ more'[g] = NoRow
               /\ more'[g] \notin {NoRow, Busy} => \A p \in rows'[g] : p < more'[g]
    <3>1. CASE g = f
      <4>1. rows[f] \subseteq Pages
        BY <1>1, <1>4 DEF Books
      <4>2. \A p \in rows'[f] : p < page + 1
        BY <1>4, <1>10, <2>6, <4>1, ListAssumption DEF Pages
      <4> QED
        BY <1>4, <1>10, <2>6, <3>1, <4>2
    <3>2. CASE g # f
      BY <1>9, <2>1, <3>2 DEF Orderly, InOrder
    <3> QED
      BY <3>1, <3>2
  <2> QED
    BY <2>1, <2>3, <2>5, <2>7, <2>8 DEF Orderly, InOrder
<1> QED
  BY <1>3, <1>7, <1>8, <1>11, <1>12 DEF Good

-----------------------------------------------------------------------------
(* Asking.                                                                 *)

\* The new request is a current one, and no other changes.
LEMMA Asks ==
    ASSUME Good, NEW f \in Folders, NEW page \in Pages, NEW r \in Requests, Ask(f, page, r)
    PROVE  /\ req' \in [Requests -> [place : {"unused", "writing", "written", "refused", "pending", "gone"},
                                     folder : Folders, page : Pages, born : Nat, tag : Nat]]
           /\ ~Current(r) /\ Current(r)' /\ req'[r].folder = f /\ req'[r].page = page
           /\ \A s \in Requests \ {r} : /\ Current(s)' <=> Current(s)
                                        /\ IsFirst(s)' <=> IsFirst(s)
                                        /\ req'[s] = req[s]
           /\ TagsFit'
<1> DEFINE new == [place |-> "writing", folder |-> f, page |-> page, born |-> generation, tag |-> 0]
<1>1. Books /\ TagsFit
  BY DEF Good
<1>2. new \in [place : {"unused", "writing", "written", "refused", "pending", "gone"},
               folder : Folders, page : Pages, born : Nat, tag : Nat]
  BY <1>1 DEF Books
<1>3. req' = [req EXCEPT ![r] = new] /\ req[r].place = "unused" /\ generation' = generation
  BY DEF Ask
<1>4. new.place = "writing" /\ new.folder = f /\ new.page = page /\ new.born = generation
  OBVIOUS
<1> HIDE DEF new
<1>5. req'[r] = new /\ \A s \in Requests \ {r} : req'[s] = req[s]
  BY <1>1, <1>3 DEF Books
<1>6. req' \in [Requests -> [place : {"unused", "writing", "written", "refused", "pending", "gone"},
                             folder : Folders, page : Pages, born : Nat, tag : Nat]]
  BY <1>1, <1>2, <1>3 DEF Books
<1>7. ~Current(r) /\ Current(r)'
  BY <1>3, <1>4, <1>5 DEF Current, Asked, IsOld
<1>8. \A s \in Requests \ {r} : (Current(s)' <=> Current(s)) /\ (IsFirst(s)' <=> IsFirst(s))
  BY <1>3, <1>5, Kept
<1>9. TagsFit'
  BY <1>1, <1>3, <1>4, <1>5 DEF TagsFit, Pending, Books
<1> QED
  BY <1>4, <1>5, <1>6, <1>7, <1>8, <1>9

LEMMA ExpandKeeps ==
    ASSUME Good, NEW f \in Folders, NEW r \in Requests, Expand(f, r)
    PROVE  Good'
<1>1. Books /\ 0 \in Pages /\ Ask(f, 0, r)
  BY ListAssumption DEF Good, Pages, Expand
<1>2. /\ req' \in [Requests -> [place : {"unused", "writing", "written", "refused", "pending", "gone"},
                                folder : Folders, page : Pages, born : Nat, tag : Nat]]
      /\ ~Current(r) /\ Current(r)' /\ req'[r].folder = f /\ req'[r].page = 0
      /\ \A s \in Requests \ {r} : /\ Current(s)' <=> Current(s)
                                   /\ IsFirst(s)' <=> IsFirst(s)
                                   /\ req'[s] = req[s]
      /\ TagsFit'
  BY <1>1, Asks
<1>3. UNCHANGED <<generation, tree, rows, more, doubled, spoiled, disk>>
  BY DEF Expand, Ask
<1>4. f \in tree /\ state[f] = "idle" /\ state' = [state EXCEPT ![f] = "loading"]
  BY DEF Expand, Begins
<1>5. state'[f] = "loading" /\ \A g \in Folders \ {f} : state'[g] = state[g]
  BY <1>1, <1>4 DEF Books
<1>6. Books'
  BY <1>1, <1>2, <1>3, <1>4 DEF Books
<1>7. RowsFit'
  BY <1>3 DEF Good, RowsFit
<1>8. IsFirst(r)'
  BY <1>2 DEF IsFirst
<1>9. Held'
  <2>1. ASSUME NEW g \in Folders, state'[g] = "loading"
        PROVE  \E s \in Requests : (Current(s) /\ req[s].folder = g /\ IsFirst(s))'
    <3>1. CASE g = f
      BY <1>2, <1>8, <3>1
    <3>2. CASE g # f
      <4>1. PICK s \in Requests : Current(s) /\ req[s].folder = g /\ IsFirst(s)
        BY <1>5, <2>1, <3>2 DEF Good, Held
      <4>2. s # r
        BY <1>2, <4>1
      <4> QED
        BY <1>2, <4>1, <4>2
    <3> QED
      BY <3>1, <3>2
  <2>2. ASSUME NEW g \in Folders, more'[g] = Busy, spoiled' = {}
        PROVE  \E s \in Requests : (Current(s) /\ req[s].folder = g /\ ~IsFirst(s))'
    <3>1. PICK s \in Requests : Current(s) /\ req[s].folder = g /\ ~IsFirst(s)
      BY <1>3, <2>2 DEF Good, Held
    <3>2. s # r
      BY <1>2, <3>1
    <3> QED
      BY <1>2, <3>1, <3>2
  <2> QED
    BY <2>1, <2>2 DEF Held
<1>10. ASSUME spoiled' = {} PROVE Orderly'
  <2>1. Orderly
    BY <1>3, <1>10 DEF Good
  <2>2. rows[f] = {} /\ more[f] = NoRow
    BY <1>4, <2>1 DEF Orderly, InOrder
  <2>3. \A s \in Requests : Current(s)' /\ s # r => Current(s) /\ req[s].folder # f
    BY <1>2, <1>4, <2>1, <2>2 DEF Orderly, Claimed, Busy, NoRow
  <2>4. ASSUME NEW s \in Requests, Current(s)'
        PROVE  /\ IsFirst(s)' => state'[req'[s].folder] = "loading"
               /\ ~IsFirst(s)' => /\ more'[req'[s].folder] = Busy
                                  /\ \A p \in rows'[req'[s].folder] : p < req'[s].page
    <3>1. CASE s = r
      BY <1>2, <1>5, <1>8, <3>1
    <3>2. CASE s # r
      <4>1. Current(s) /\ req[s].folder \in Folders \ {f}
        BY <1>1, <2>3, <2>4, <3>2 DEF Books
      <4>2. req'[s] = req[s] /\ (IsFirst(s)' <=> IsFirst(s))
        BY <1>2, <3>2
      <4> QED
        BY <1>3, <1>5, <2>1, <4>1, <4>2 DEF Orderly, Claimed
    <3> QED
      BY <3>1, <3>2
  <2>5. ASSUME NEW s \in Requests, NEW t \in Requests,
               Current(s)', Current(t)', req'[s].folder = req'[t].folder
        PROVE  s = t
    <3>1. CASE s # r /\ t # r
      BY <1>2, <2>1, <2>5, <3>1 DEF Orderly, Alone
    <3>2. CASE s = r \/ t = r
      BY <1>2, <2>3, <2>5, <3>2
    <3> QED
      BY <3>1, <3>2
  <2>6. InOrder'
    BY <1>3, <1>5, <2>1, <2>2 DEF Orderly, InOrder
  <2> QED
    BY <1>3, <2>1, <2>4, <2>5, <2>6 DEF Orderly, Claimed, Alone
<1> QED
  BY <1>2, <1>6, <1>7, <1>9, <1>10 DEF Good

LEMMA ActivateKeeps ==
    ASSUME Good, NEW f \in Folders, NEW r \in Requests, Activate(f, r)
    PROVE  Good'
<1>1. Books /\ f \in tree /\ more[f] \notin {NoRow, Busy} /\ Ask(f, more[f], r)
  BY DEF Good, Activate
<1>2. more[f] \in Pages /\ more[f] # 0
  BY <1>1 DEF Books, NoRow
<1>3. /\ req' \in [Requests -> [place : {"unused", "writing", "written", "refused", "pending", "gone"},
                                folder : Folders, page : Pages, born : Nat, tag : Nat]]
      /\ ~Current(r) /\ Current(r)' /\ req'[r].folder = f /\ req'[r].page = more[f]
      /\ \A s \in Requests \ {r} : /\ Current(s)' <=> Current(s)
                                   /\ IsFirst(s)' <=> IsFirst(s)
                                   /\ req'[s] = req[s]
      /\ TagsFit'
  BY <1>1, <1>2, Asks
<1>4. UNCHANGED <<generation, tree, rows, state, doubled, spoiled, disk>>
  BY DEF Activate, Ask
<1>5. more' = [more EXCEPT ![f] = Busy]
  BY DEF Activate
<1>6. more'[f] = Busy /\ \A g \in Folders \ {f} : more'[g] = more[g]
  BY <1>1, <1>5 DEF Books
<1>7. Books'
  BY <1>1, <1>3, <1>4, <1>5 DEF Books
<1>8. RowsFit'
  BY <1>1, <1>4, <1>6 DEF Good, RowsFit
<1>9. ~IsFirst(r)'
  BY <1>2, <1>3 DEF IsFirst
<1>10. Held'
  <2>1. ASSUME NEW g \in Folders, state'[g] = "loading"
        PROVE  \E s \in Requests : (Current(s) /\ req[s].folder = g /\ IsFirst(s))'
    <3>1. PICK s \in Requests : Current(s) /\ req[s].folder = g /\ IsFirst(s)
      BY <1>4, <2>1 DEF Good, Held
    <3>2. s # r
      BY <1>3, <3>1
    <3> QED
      BY <1>3, <3>1, <3>2
  <2>2. ASSUME NEW g \in Folders, more'[g] = Busy, spoiled' = {}
        PROVE  \E s \in Requests : (Current(s) /\ req[s].folder = g /\ ~IsFirst(s))'
    <3>1. CASE g = f
      BY <1>3, <1>9, <3>1
    <3>2. CASE g # f
      <4>1. PICK s \in Requests : Current(s) /\ req[s].folder = g /\ ~IsFirst(s)
        BY <1>4, <1>6, <2>2, <3>2 DEF Good, Held
      <4>2. s # r
        BY <1>3, <4>1
      <4> QED
        BY <1>3, <4>1, <4>2
    <3> QED
      BY <3>1, <3>2
  <2> QED
    BY <2>1, <2>2 DEF Held
<1>11. ASSUME spoiled' = {} PROVE Orderly'
  <2>1. Orderly
    BY <1>4, <1>11 DEF Good
  <2>2. state[f] = "loaded" /\ \A p \in rows[f] : p < more[f]
    BY <1>1, <2>1 DEF Orderly, InOrder
  <2>3. \A s \in Requests : Current(s)' /\ s # r => Current(s) /\ req[s].folder # f
    BY <1>1, <1>3, <2>1, <2>2 DEF Orderly, Claimed
  <2>4. ASSUME NEW s \in Requests, Current(s)'
        PROVE  /\ IsFirst(s)' => state'[req'[s].folder] = "loading"
               /\ ~IsFirst(s)' => /\ more'[req'[s].folder] = Busy
                                  /\ \A p \in rows'[req'[s].folder] : p < req'[s].page
    <3>1. CASE s = r
      BY <1>3, <1>4, <1>6, <1>9, <2>2, <3>1
    <3>2. CASE s # r
      <4>1. Current(s) /\ req[s].folder \in Folders \ {f}
        BY <1>1, <2>3, <2>4, <3>2 DEF Books
      <4>2. req'[s] = req[s] /\ (IsFirst(s)' <=> IsFirst(s))
        BY <1>3, <3>2
      <4> QED
        BY <1>4, <1>6, <2>1, <4>1, <4>2 DEF Orderly, Claimed
    <3> QED
      BY <3>1, <3>2
  <2>5. ASSUME NEW s \in Requests, NEW t \in Requests,
               Current(s)', Current(t)', req'[s].folder = req'[t].folder
        PROVE  s = t
    <3>1. CASE s # r /\ t # r
      BY <1>3, <2>1, <2>5, <3>1 DEF Orderly, Alone
    <3>2. CASE s = r \/ t = r
      BY <1>3, <2>3, <2>5, <3>2
    <3> QED
      BY <3>1, <3>2
  <2>6. InOrder'
    BY <1>4, <1>6, <2>1, <2>2 DEF Orderly, InOrder
  <2> QED
    BY <1>4, <2>1, <2>4, <2>5, <2>6 DEF Orderly, Claimed, Alone
<1> QED
  BY <1>3, <1>7, <1>8, <1>10, <1>11 DEF Good

-----------------------------------------------------------------------------
(* Writing and polling.                                                    *)

LEMMA WriteKeeps ==
    ASSUME Good, NEW r \in Requests, Write(r)
    PROVE  Good'
<1>1. Books /\ TagsFit
  BY DEF Good
<1>2. PICK place \in {"written", "refused"} : req' = [req EXCEPT ![r].place = place]
  BY DEF Write
<1>3. disk' \in {disk, [disk EXCEPT ![r] = "asked"]} /\ req[r].place = "writing"
  BY DEF Write
<1>4. UNCHANGED <<generation, state, shown>>
  BY DEF Write
<1>5. /\ \A s \in Requests \ {r} : req'[s] = req[s]
      /\ req'[r] = [req[r] EXCEPT !.place = place]
  BY <1>1, <1>2 DEF Books
<1>6. req' \in [Requests -> [place : {"unused", "writing", "written", "refused", "pending", "gone"},
                             folder : Folders, page : Pages, born : Nat, tag : Nat]]
  BY <1>1, <1>2 DEF Books
<1>7. disk' \in [Requests -> {"none", "asked"} \cup Answers]
  BY <1>1, <1>3 DEF Books
<1>8. Books'
  BY <1>1, <1>4, <1>6, <1>7 DEF Books, shown
<1>9. /\ req'[r].place = place /\ req'[r].folder = req[r].folder /\ req'[r].page = req[r].page
      /\ req'[r].born = req[r].born
  BY <1>1, <1>5 DEF Books
<1>10. \A s \in Requests : /\ Current(s)' <=> Current(s)
                           /\ req'[s].folder = req[s].folder /\ req'[s].page = req[s].page
                           /\ req'[s].born = req[s].born
  BY <1>3, <1>4, <1>5, <1>9 DEF Current, Asked, IsOld
<1>11. \A s \in Requests : req'[s].place = "pending" => req'[s].tag = generation
  BY <1>1, <1>5, <1>9 DEF TagsFit, Pending
<1> QED
  BY <1>4, <1>8, <1>10, <1>11, SameBooks

LEMMA DispatchedKeeps ==
    ASSUME Good, NEW r \in Requests, Dispatched(r)
    PROVE  Good'
<1>1. Books /\ TagsFit
  BY DEF Good
<1>2. /\ req' = [req EXCEPT ![r] = [@ EXCEPT !.place = "pending", !.tag = generation]]
      /\ req[r].place = "written"
  BY DEF Dispatched
<1>3. UNCHANGED <<generation, state, shown, disk>>
  BY DEF Dispatched
<1>4. /\ \A s \in Requests \ {r} : req'[s] = req[s]
      /\ req'[r] = [req[r] EXCEPT !.place = "pending", !.tag = generation]
  BY <1>1, <1>2 DEF Books
<1>5. req' \in [Requests -> [place : {"unused", "writing", "written", "refused", "pending", "gone"},
                             folder : Folders, page : Pages, born : Nat, tag : Nat]]
  BY <1>1, <1>2 DEF Books
<1>6. Books'
  BY <1>1, <1>3, <1>5 DEF Books, shown
<1>7. /\ req'[r].place = "pending" /\ req'[r].folder = req[r].folder /\ req'[r].page = req[r].page
      /\ req'[r].born = req[r].born /\ req'[r].tag = generation
  BY <1>1, <1>4 DEF Books
<1>8. \A s \in Requests : /\ Current(s)' <=> Current(s)
                          /\ req'[s].folder = req[s].folder /\ req'[s].page = req[s].page
                          /\ req'[s].born = req[s].born
  BY <1>2, <1>3, <1>4, <1>7 DEF Current, Asked, IsOld
<1>9. \A s \in Requests : req'[s].place = "pending" => req'[s].tag = generation
  BY <1>1, <1>4, <1>7 DEF TagsFit, Pending
<1> QED
  BY <1>3, <1>6, <1>8, <1>9, SameBooks

\* What only happens on the share, or to a poll.
LEMMA Elsewhere ==
    ASSUME Good, UNCHANGED <<requests, shown>>,
           disk' \in [Requests -> {"none", "asked"} \cup Answers]
    PROVE  Good'
<1>1. Books /\ TagsFit
  BY DEF Good
<1>2. UNCHANGED <<generation, state, req, shown>>
  BY DEF requests
<1>3. Books'
  BY <1>1, <1>2 DEF Books, shown
<1>4. \A s \in Requests : Current(s)' <=> Current(s)
  BY <1>2 DEF Current, Asked, IsOld
<1>5. \A s \in Requests : req'[s].place = "pending" => req'[s].tag = generation
  BY <1>1, <1>2 DEF TagsFit, Pending
<1> QED
  BY <1>2, <1>3, <1>4, <1>5, SameBooks

\* What is pending was asked, and recorded under the generation of now.
LEMMA PendingIsAsked ==
    ASSUME Good, NEW r \in Pending
    PROVE  r \in Requests /\ Asked(r) /\ req[r].tag = generation
BY DEF Good, TagsFit, Pending, Asked

LEMMA TickKeeps ==
    ASSUME Good, NEW expired \in SUBSET Requests, Tick(expired)
    PROVE  Good'
<1>1. expired \subseteq Pending /\ Forget(expired)
      /\ FailExpired({r \in expired : req[r].tag = generation})
  BY DEF Tick
<1>2. {r \in expired : req[r].tag = generation} = expired
  BY <1>1, PendingIsAsked
<1>3. GiveBack(expired)
  BY <1>1, <1>2 DEF FailExpired
<1>4. \A r \in expired : Asked(r)
  BY <1>1, PendingIsAsked
<1> QED
  BY <1>1, <1>3, <1>4, GivesBack

LEMMA ReturnKeeps ==
    ASSUME Good, NEW r \in Requests, PollReturns(r)
    PROVE  Good'
<1>1. CASE poll[r] = "nothing" \/ r \notin Pending
  <2>1. UNCHANGED <<requests, shown, disk>>
    BY <1>1 DEF PollReturns
  <2> QED
    BY <2>1, Elsewhere DEF Good, Books
<1>2. CASE ~(poll[r] = "nothing" \/ r \notin Pending)
  <2>1. Asked(r) /\ req[r].tag = generation
    BY <1>2, PendingIsAsked
  <2>2. Forget({r})
        /\ IF poll[r] = "page" /\ req[r].folder \in tree THEN Show(r) ELSE GiveBack({r})
    BY <1>2, <2>1 DEF PollReturns
  <2>3. CASE poll[r] = "page" /\ req[r].folder \in tree
    BY <2>1, <2>2, <2>3, Shows
  <2>4. CASE ~(poll[r] = "page" /\ req[r].folder \in tree)
    <3>1. GiveBack({r}) /\ {r} \in SUBSET Requests
      BY <2>2, <2>4
    <3> QED
      BY <2>1, <2>2, <3>1, GivesBack
  <2> QED
    BY <2>3, <2>4
<1> QED
  BY <1>1, <1>2

LEMMA RefusedKeeps ==
    ASSUME Good, NEW r \in Requests, Refused(r)
    PROVE  Good'
<1>1. Asked(r) /\ Forget({r}) /\ GiveBack({r}) /\ {r} \in SUBSET Requests
  BY DEF Refused, Asked
<1> QED
  BY <1>1, GivesBack

\* A new generation: every request is an old one.
LEMMA NewGeneration ==
    ASSUME Good, Reset, tree' \subseteq Folders,
           rows' \in [Folders -> SUBSET Pages], more' \in [Folders -> {Busy} \cup Pages],
           doubled' \subseteq Folders, spoiled' \subseteq {"release", "answer", "reset"}
    PROVE  /\ Books' /\ TagsFit'
           /\ \A s \in Requests : ~Current(s)'
           /\ \A f \in Folders : state'[f] = "idle"
<1>1. Books /\ TagsFit /\ Pending \in SUBSET Requests
  BY DEF Good, Pending
<1>2. generation' = generation + 1 /\ state' = [f \in Folders |-> "idle"] /\ Forget(Pending)
  BY DEF Reset
<1>3. /\ req' \in [Requests -> [place : {"unused", "writing", "written", "refused", "pending", "gone"},
                                folder : Folders, page : Pages, born : Nat, tag : Nat]]
      /\ disk' \in [Requests -> {"none", "asked"} \cup Answers]
      /\ \A r \in Pending : ~Asked(r)' /\ req'[r].place = "gone" /\ req'[r].born = 0
      /\ \A r \in Requests \ Pending : req'[r] = req[r]
  BY <1>1, <1>2, Forgotten
<1>4. Books'
  BY <1>1, <1>2, <1>3 DEF Books
<1>5. \A r \in Requests : req'[r].born \in Nat /\ req'[r].born <= generation
  BY <1>1, <1>3 DEF TagsFit, Books
<1>6. \A r \in Requests : req'[r].place # "pending"
  BY <1>3 DEF Pending
<1>7. generation \in Nat
  BY <1>1 DEF Books
<1>8. TagsFit'
  BY <1>2, <1>5, <1>6, <1>7 DEF TagsFit, Pending
<1>9. \A s \in Requests : ~Current(s)'
  BY <1>2, <1>5, <1>7 DEF Current, IsOld
<1> QED
  BY <1>2, <1>4, <1>8, <1>9

LEMMA RebuildKeeps ==
    ASSUME Good, Rebuild
    PROVE  Good'
<1>1. /\ tree' \subseteq Folders
      /\ rows' = [f \in Folders |-> {}] /\ more' = [f \in Folders |-> NoRow]
      /\ doubled' = {} /\ spoiled' = {} /\ Reset
  BY DEF Rebuild
<1>2. rows' \in [Folders -> SUBSET Pages] /\ more' \in [Folders -> {Busy} \cup Pages]
  BY <1>1, ListAssumption DEF Pages, NoRow
<1>3. /\ Books' /\ TagsFit'
      /\ \A s \in Requests : ~Current(s)'
      /\ \A f \in Folders : state'[f] = "idle"
  BY <1>1, <1>2, NewGeneration
<1>4. RowsFit' /\ Held'
  BY <1>1, <1>3 DEF RowsFit, Held, Busy, NoRow
<1>5. Orderly'
  BY <1>1, <1>3 DEF Orderly, Claimed, Alone, InOrder
<1> QED
  BY <1>3, <1>4, <1>5 DEF Good

LEMMA QuiesceKeeps ==
    ASSUME Good, Quiesce
    PROVE  Good'
<1>1. /\ UNCHANGED <<tree, rows, more, doubled>>
      /\ spoiled' = spoiled \cup {"reset"} /\ Reset
  BY DEF Quiesce
<1>2. Books
  BY DEF Good
<1>3. /\ Books' /\ TagsFit'
      /\ \A s \in Requests : ~Current(s)'
      /\ \A f \in Folders : state'[f] = "idle"
  BY <1>1, <1>2, NewGeneration DEF Books
<1>4. RowsFit' /\ Held' /\ spoiled' # {}
  BY <1>1, <1>3 DEF Good, RowsFit, Held
<1> QED
  BY <1>3, <1>4 DEF Good

\* Every step of the specification.
LEMMA GoodKept ==
    ASSUME Good, Next
    PROVE  Good'
<1>1. ASSUME NEW r \in Requests, Worker(r)
      PROVE  Good'
  <2>1. CASE Write(r)
    BY <2>1, WriteKeeps
  <2>2. CASE PollReads(r)
    <3>1. disk' \in [Requests -> {"none", "asked"} \cup Answers] /\ UNCHANGED <<requests, shown>>
      BY <2>2 DEF PollReads, Good, Books
    <3> QED
      BY <3>1, Elsewhere
  <2> QED
    BY <1>1, <2>1, <2>2 DEF Worker
<1>2. ASSUME NEW r \in Requests, Result(r)
      PROVE  Good'
  BY <1>2, DispatchedKeeps, RefusedKeeps, ReturnKeeps DEF Result
<1>3. ASSUME NEW r \in Requests, Operator(r)
      PROVE  Good'
  BY <1>3, ExpandKeeps, ActivateKeeps DEF Operator
<1>4. ASSUME NEW r \in Requests, Answer(r)
      PROVE  Good'
  <2>1. disk' \in [Requests -> {"none", "asked"} \cup Answers] /\ UNCHANGED <<requests, shown>>
    BY <1>4 DEF Answer, Good, Books
  <2> QED
    BY <2>1, Elsewhere
<1>5. ASSUME NEW expired \in SUBSET Requests, Tick(expired)
      PROVE  Good'
  BY <1>5, TickKeeps
<1>6. CASE Resume
  <2>1. disk' \in [Requests -> {"none", "asked"} \cup Answers] /\ UNCHANGED <<requests, shown>>
    BY <1>6 DEF Resume, Good, Books
  <2> QED
    BY <2>1, Elsewhere
<1> QED
  BY <1>1, <1>2, <1>3, <1>4, <1>5, <1>6, RebuildKeeps, QuiesceKeeps DEF Next

-----------------------------------------------------------------------------
(* The polls and their timer.                                              *)

LEMMA SyncFollows ==
    ASSUME SyncTimer
    PROVE  TimerFollows' /\ timer' \in BOOLEAN
<1> DEFINE pends == \E r \in Requests : req'[r].place = "pending"
           polls == inflight' # {}
<1>1. (Pending' # {}) <=> pends
  BY DEF Pending
<1>2. timer' = (~paused' /\ (polls \/ pends))
  BY DEF SyncTimer
<1>3. TimerFollows' <=> (timer' <=> ~paused' /\ (Pending' # {} \/ polls))
  BY Zenon DEF TimerFollows
<1> HIDE DEF pends, polls
<1>4. TimerFollows'
  BY <1>1, <1>2, <1>3, Zenon
<1>5. timer' \in BOOLEAN
  BY <1>2, Zenon
<1> QED
  BY <1>4, <1>5

\* A step that leaves the timer alone leaves alone what it follows.
LEMMA TimerKept ==
    ASSUME TimerFollows, UNCHANGED <<timer, paused, inflight>>, Pending' = Pending
    PROVE  TimerFollows'
<1> DEFINE follows == Pending # {} \/ inflight # {}
<1>1. UNCHANGED timer /\ UNCHANGED paused /\ UNCHANGED inflight
  OBVIOUS
<1>2. follows' <=> follows
  BY <1>1
<1>3. TimerFollows <=> (timer <=> ~paused /\ follows)
  BY Zenon DEF TimerFollows
<1>4. TimerFollows' <=> (timer' <=> ~paused' /\ follows')
  BY Zenon DEF TimerFollows
<1>5. (timer' <=> timer) /\ (paused' <=> paused)
  BY <1>1
<1> HIDE DEF follows
<1> QED
  BY <1>2, <1>3, <1>4, <1>5, Zenon

\* The parts of Polls.
LEMMA PollsStep ==
    ASSUME inflight' \subseteq {r \in Requests : poll'[r] # "off"},
           poll' \in [Requests -> {"off", "reading", "nothing", "failed"} \cup Answers],
           events' \in 0 .. MaxEvents, timer' \in BOOLEAN, paused' \in BOOLEAN
    PROVE  Polls'
BY DEF Polls

\* A step after which the timer is not looked at.
LEMMA AsItWas ==
    ASSUME Polls, TimerFollows, UNCHANGED <<inflight, timer, paused, events>>, Pending' = Pending,
           \A r \in Requests : poll[r] # "off" => poll'[r] # "off",
           poll' \in [Requests -> {"off", "reading", "nothing", "failed"} \cup Answers]
    PROVE  Polls' /\ TimerFollows'
<1>1. UNCHANGED timer /\ UNCHANGED paused /\ timer \in BOOLEAN /\ paused \in BOOLEAN
  BY DEF Polls
<1>2. timer' \in BOOLEAN /\ paused' \in BOOLEAN
  BY <1>1, Zenon
<1>3. events' \in 0 .. MaxEvents /\ inflight' \subseteq {r \in Requests : poll'[r] # "off"}
  BY DEF Polls
<1>4. Polls'
  BY <1>2, <1>3, PollsStep
<1> QED
  BY <1>4, TimerKept

\* What is pending after a request that is not has changed.
LEMMA OthersPend ==
    ASSUME Books, NEW r \in Requests, req[r].place # "pending", req'[r].place # "pending",
           \A s \in Requests \ {r} : req'[s] = req[s]
    PROVE  Pending' = Pending
BY DEF Pending

LEMMA AskPolls ==
    ASSUME Books, Polls, TimerFollows,
           NEW f \in Folders, NEW page, NEW r \in Requests, Ask(f, page, r)
    PROVE  Polls' /\ TimerFollows'
<1> DEFINE new == [place |-> "writing", folder |-> f, page |-> page, born |-> generation, tag |-> 0]
<1>1. req' = [req EXCEPT ![r] = new] /\ req[r].place = "unused" /\ new.place = "writing"
  BY DEF Ask
<1> HIDE DEF new
<1>2. req'[r] = new /\ \A s \in Requests \ {r} : req'[s] = req[s]
  BY <1>1 DEF Books
<1>3. Pending' = Pending
  BY <1>1, <1>2, OthersPend
<1>4. UNCHANGED <<inflight, timer, paused, events, poll>>
  BY DEF Ask, polling
<1> QED
  BY <1>3, <1>4, AsItWas DEF Polls

LEMMA WorkerPolls ==
    ASSUME Books, Polls, TimerFollows, NEW r \in Requests, Worker(r)
    PROVE  Polls' /\ TimerFollows'
<1>1. CASE Write(r)
  <2>1. PICK place \in {"written", "refused"} : req' = [req EXCEPT ![r].place = place]
    BY <1>1 DEF Write
  <2>2. req[r].place = "writing" /\ UNCHANGED <<inflight, timer, paused, events, poll>>
    BY <1>1 DEF Write, polling
  <2>3. req'[r].place = place /\ \A s \in Requests \ {r} : req'[s] = req[s]
    BY <2>1 DEF Books
  <2>4. Pending' = Pending
    BY <2>2, <2>3, OthersPend
  <2> QED
    BY <2>2, <2>4, AsItWas DEF Polls
<1>2. CASE PollReads(r)
  <2>1. UNCHANGED <<inflight, timer, paused, events, req>> /\ poll[r] = "reading"
    BY <1>2 DEF PollReads, requests
  <2>2. \E result \in {"nothing", "failed"} \cup Answers : poll' = [poll EXCEPT ![r] = result]
    BY <1>2 DEF PollReads
  <2>3. /\ poll' \in [Requests -> {"off", "reading", "nothing", "failed"} \cup Answers]
        /\ \A s \in Requests : poll[s] # "off" => poll'[s] # "off"
    BY <2>2 DEF Polls, Answers
  <2>4. Pending' = Pending
    BY <2>1 DEF Pending
  <2> QED
    BY <2>1, <2>3, <2>4, AsItWas
<1> QED
  BY <1>1, <1>2 DEF Worker

LEMMA RefusedPolls ==
    ASSUME Books, Polls, TimerFollows, NEW r \in Requests, Refused(r)
    PROVE  Polls' /\ TimerFollows'
<1>1. Forget({r}) /\ {r} \in SUBSET Requests /\ req[r].place = "refused"
      /\ UNCHANGED <<inflight, timer, paused, events, poll>>
  BY DEF Refused, polling
<1>2. req'[r].place = "gone" /\ \A s \in Requests \ {r} : req'[s] = req[s]
  BY <1>1, Forgotten
<1>3. Pending' = Pending
  BY <1>1, <1>2, OthersPend
<1> QED
  BY <1>1, <1>3, AsItWas DEF Polls

LEMMA TickPolls ==
    ASSUME Books, Polls, NEW expired \in SUBSET Requests, Tick(expired)
    PROVE  Polls' /\ TimerFollows'
<1>1. SyncTimer /\ UNCHANGED paused /\ UNCHANGED events
  BY DEF Tick
<1>2. TimerFollows' /\ timer' \in BOOLEAN
  BY <1>1, SyncFollows
<1>3. paused' \in BOOLEAN
  BY <1>1, Zenon DEF Polls
<1> DEFINE polled == (Pending \ expired) \ inflight
<1>4. /\ inflight' = inflight \cup polled /\ polled \subseteq Requests
      /\ poll' = [r \in Requests |-> IF r \in polled THEN "reading" ELSE poll[r]]
  BY DEF Tick, Pending
<1> HIDE DEF polled
<1>5. /\ inflight' \subseteq {r \in Requests : poll'[r] # "off"}
      /\ poll' \in [Requests -> {"off", "reading", "nothing", "failed"} \cup Answers]
  BY <1>4 DEF Polls
<1>6. events' \in 0 .. MaxEvents
  BY <1>1 DEF Polls
<1> QED
  BY <1>2, <1>3, <1>5, <1>6, PollsStep

LEMMA ReturnPolls ==
    ASSUME Polls, NEW r \in Requests, PollReturns(r)
    PROVE  Polls' /\ TimerFollows'
<1>1. SyncTimer /\ UNCHANGED paused /\ UNCHANGED events
      /\ poll' = [poll EXCEPT ![r] = "off"] /\ inflight' = inflight \ {r}
  BY DEF PollReturns
<1>2. TimerFollows' /\ timer' \in BOOLEAN
  BY <1>1, SyncFollows
<1>3. paused' \in BOOLEAN
  BY <1>1, Zenon DEF Polls
<1>4. /\ inflight' \subseteq {s \in Requests : poll'[s] # "off"}
      /\ poll' \in [Requests -> {"off", "reading", "nothing", "failed"} \cup Answers]
      /\ events' \in 0 .. MaxEvents
  BY <1>1 DEF Polls
<1> QED
  BY <1>2, <1>3, <1>4, PollsStep

LEMMA DispatchedPolls ==
    ASSUME Polls, NEW r \in Requests, Dispatched(r)
    PROVE  Polls' /\ TimerFollows'
<1>1. SyncTimer /\ UNCHANGED paused /\ UNCHANGED <<events, poll, inflight>>
  BY DEF Dispatched
<1>2. TimerFollows' /\ timer' \in BOOLEAN
  BY <1>1, SyncFollows
<1>3. paused' \in BOOLEAN
  BY <1>1, Zenon DEF Polls
<1>4. /\ inflight' \subseteq {s \in Requests : poll'[s] # "off"}
      /\ poll' \in [Requests -> {"off", "reading", "nothing", "failed"} \cup Answers]
      /\ events' \in 0 .. MaxEvents
  BY <1>1 DEF Polls
<1> QED
  BY <1>2, <1>3, <1>4, PollsStep

LEMMA AnswerPolls ==
    ASSUME Polls, TimerFollows, NEW r \in Requests, Answer(r)
    PROVE  Polls' /\ TimerFollows'
<1>1. UNCHANGED <<inflight, timer, paused, events, poll, req>>
  BY DEF Answer, polling, requests
<1>2. Pending' = Pending
  BY <1>1 DEF Pending
<1> QED
  BY <1>1, <1>2, AsItWas DEF Polls

LEMMA Counted ==
    ASSUME Polls, Happens
    PROVE  events' \in 0 .. MaxEvents
BY ListAssumption DEF Polls, Happens

LEMMA RebuildPolls ==
    ASSUME Polls, Rebuild
    PROVE  Polls' /\ TimerFollows'
<1>1. SyncTimer /\ UNCHANGED paused /\ inflight' = {} /\ UNCHANGED poll /\ Happens
  BY DEF Rebuild
<1>2. TimerFollows' /\ timer' \in BOOLEAN
  BY <1>1, SyncFollows
<1>3. paused' \in BOOLEAN
  BY <1>1, Zenon DEF Polls
<1>4. /\ inflight' \subseteq {s \in Requests : poll'[s] # "off"}
      /\ poll' \in [Requests -> {"off", "reading", "nothing", "failed"} \cup Answers]
      /\ events' \in 0 .. MaxEvents
  BY <1>1, Counted DEF Polls
<1> QED
  BY <1>2, <1>3, <1>4, PollsStep

LEMMA QuiescePolls ==
    ASSUME Polls, Quiesce
    PROVE  Polls' /\ TimerFollows'
<1>1. paused' = TRUE /\ timer' = FALSE /\ UNCHANGED <<poll, inflight>> /\ Happens
  BY DEF Quiesce
<1>2. TimerFollows' /\ timer' \in BOOLEAN /\ paused' \in BOOLEAN
  BY <1>1, Zenon DEF TimerFollows
<1>3. /\ inflight' \subseteq {s \in Requests : poll'[s] # "off"}
      /\ poll' \in [Requests -> {"off", "reading", "nothing", "failed"} \cup Answers]
      /\ events' \in 0 .. MaxEvents
  BY <1>1, Counted DEF Polls
<1> QED
  BY <1>2, <1>3, PollsStep

LEMMA ResumePolls ==
    ASSUME Polls, Resume
    PROVE  Polls' /\ TimerFollows'
<1>1. SyncTimer /\ paused' = FALSE /\ UNCHANGED <<events, poll, inflight>>
  BY DEF Resume
<1>2. TimerFollows' /\ timer' \in BOOLEAN /\ paused' \in BOOLEAN
  BY <1>1, SyncFollows, Zenon
<1>3. /\ inflight' \subseteq {s \in Requests : poll'[s] # "off"}
      /\ poll' \in [Requests -> {"off", "reading", "nothing", "failed"} \cup Answers]
      /\ events' \in 0 .. MaxEvents
  BY <1>1 DEF Polls
<1> QED
  BY <1>2, <1>3, PollsStep

LEMMA PollsKept ==
    ASSUME Books, Polls, TimerFollows, Next
    PROVE  Polls' /\ TimerFollows'
<1>1. ASSUME NEW r \in Requests, Worker(r) \/ Result(r) \/ Operator(r) \/ Answer(r)
      PROVE  Polls' /\ TimerFollows'
  <2>1. CASE Worker(r)
    BY <2>1, WorkerPolls
  <2>2. CASE Result(r)
    BY <2>2, DispatchedPolls, RefusedPolls, ReturnPolls DEF Result
  <2>3. CASE Operator(r)
    BY <2>3, AskPolls DEF Operator, Expand, Activate
  <2>4. CASE Answer(r)
    BY <2>4, AnswerPolls
  <2> QED
    BY <1>1, <2>1, <2>2, <2>3, <2>4
<1> QED
  BY <1>1, TickPolls, RebuildPolls, QuiescePolls, ResumePolls DEF Next

-----------------------------------------------------------------------------
(* The invariant, and what follows from it.                                *)

LEMMA Initially == Init => IInv
<1> SUFFICES ASSUME Init PROVE IInv
  OBVIOUS
<1>1. \A r \in Requests : req[r] = Unused
  BY DEF Init
<1>2. Unused.place = "unused" /\ Unused.born = 0
  BY DEF Unused
<1>3. 0 \in Pages /\ generation = 0 /\ generation \in Nat
  BY ListAssumption DEF Pages, Init
<1>4. (CHOOSE f \in Folders : TRUE) \in Folders
  BY ListAssumption
<1>5. Unused \in [place : {"unused", "writing", "written", "refused", "pending", "gone"},
                  folder : Folders, page : Pages, born : Nat, tag : Nat]
  BY <1>3, <1>4 DEF Unused
<1>6. req \in [Requests -> [place : {"unused", "writing", "written", "refused", "pending", "gone"},
                            folder : Folders, page : Pages, born : Nat, tag : Nat]]
  BY <1>5 DEF Init
<1>7. Books
  BY <1>3, <1>6 DEF Init, Books, NoRow
<1>8. Pending = {} /\ \A r \in Requests : ~Current(r) /\ req[r].born <= generation
  BY <1>1, <1>2, <1>3 DEF Pending, Current, Asked
<1>9. TagsFit /\ RowsFit /\ Held
  BY <1>8 DEF TagsFit, RowsFit, Held, Init, NoRow, Busy
<1>10. Orderly
  BY <1>8 DEF Orderly, Claimed, Alone, InOrder, Init
<1>11. timer = FALSE /\ paused = FALSE /\ inflight = {} /\ events = 0
       /\ poll = [r \in Requests |-> "off"]
  BY DEF Init
<1>12. timer \in BOOLEAN /\ paused \in BOOLEAN
  BY <1>11
<1>13. Polls
  BY <1>11, <1>12, ListAssumption DEF Polls
<1>14. TimerFollows
  BY <1>8, <1>11 DEF TimerFollows
<1> QED
  BY <1>7, <1>9, <1>10, <1>13, <1>14 DEF IInv, Good

LEMMA Stutters ==
    ASSUME IInv, UNCHANGED vars
    PROVE  IInv'
<1>1. UNCHANGED <<requests, shown, inflight, timer, poll, paused, disk, events, req>>
  BY DEF vars, polling, requests
<1>2. Good'
  BY <1>1, Elsewhere DEF IInv, Good, Books
<1>3. Pending' = Pending
  BY <1>1 DEF Pending
<1>4. Polls' /\ TimerFollows'
  BY <1>1, <1>3, AsItWas DEF IInv, Polls
<1> QED
  BY <1>2, <1>4 DEF IInv

LEMMA Inductive == Spec => []IInv
<1>1. IInv /\ [Next]_vars => IInv'
  BY GoodKept, PollsKept, Stutters DEF IInv, Good
<1> QED
  BY Initially, <1>1, PTL DEF Spec

\* A folder is "loading", and a "Load more" row busy, only while a request of its
\* own will end that, and the poll timer runs exactly while there is something to
\* poll for: for any folders, pages, requests, reloads and power offs.
THEOREM ClaimsHeld == Spec => []ClaimsAreHeld
<1>1. IInv => ClaimsAreHeld
  BY Types DEF IInv, Good, Held, Current, ClaimsAreHeld
<1> QED
  BY Inductive, <1>1, PTL

\* Whatever the order of expansions, continuations, refusals, timeouts and
\* answers, no page is shown twice in a tree that no request of another touched.
THEOREM PagesShownOnce == Spec => []PagesOnce
<1>1. IInv => PagesOnce
  BY DEF IInv, Good, Orderly, PagesOnce
<1> QED
  BY Inductive, <1>1, PTL

=============================================================================
