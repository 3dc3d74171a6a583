---------------------------- MODULE PageCapture ----------------------------
(***************************************************************************)
(* The queue of web pages to save behind stash items (the item_pages       *)
(* table), the edits of a stash that feed it, and the background worker    *)
(* that empties it: app/db/repositories/pages.py, app/services/pages.py    *)
(* and the calls items.py and services/stash.py make to them.              *)
(*                                                                         *)
(* A page's text, preview and title are abstracted to the address of what  *)
(* was read, and whether a client sent it.  Its `not_before` is kept as    *)
(* the time left until then, so that the clock needs no bound; one tick is *)
(* about a minute.                                                         *)
(***************************************************************************)
EXTENDS Integers, FiniteSets, FiniteSetsExt

CONSTANTS MaxId,       \* item ids are 1..MaxId
          Urls,        \* web addresses an item can have
          MaxAttempts, \* MAX_ATTEMPTS
          Delay,       \* RETRY_DELAYS: after the first and the second failure
          StaleWork,   \* STALE_WORK_SECONDS: a "working" row is due again after
          Deadline,    \* DEADLINE_SECONDS of one fetch, rounded up to ticks
          BatchSize,   \* BATCH_SIZE: the rows one claim takes
          MaxEdits,    \* bound: requests by the user
          MaxFaults,   \* bound: restarts, and results that could not be stored
          NoItem, NotWeb, NoPage, NoCopy

ASSUME Parameters ==
    /\ MaxId \in Nat \ {0}
    /\ MaxAttempts \in Nat \ {0}
    /\ Delay \in [1..2 -> Nat]
    /\ StaleWork \in Nat /\ Deadline \in Nat
    /\ Deadline < StaleWork
    /\ BatchSize \in Nat \ {0}
    /\ MaxEdits \in Nat /\ MaxFaults \in Nat

Ids == 1..MaxId
Waiting == {"pending", "working"}
Settled == {"ready", "skipped", "failed"}

\* The address a copy is of, and whether it came with the save of its item
Copies == [of : Urls, sent : BOOLEAN]

Rows == [url : Urls, status : Waiting \cup Settled, attempts : Nat, wait : Nat,
         copy : Copies \cup {NoCopy}]

\* What can be seen of a row
Views == [url : Urls, state : {"waiting", "settled"}, copy : Copies \cup {NoCopy}]

ASSUME Distinct ==
    /\ {NoItem, NotWeb} \cap Urls = {} /\ NoItem # NotWeb
    /\ NoCopy \notin Copies
    /\ NoPage \notin Rows \cup Views

VARIABLES
    item,    \* the primary address of each item, NotWeb, or NoItem
    page,    \* the item_pages row of each item, or NoPage
    batch,   \* the fetches run_once is waiting for
    strays,  \* fetches still running after their run_once gave up on them
    worker,  \* the worker's task: "off" with the server, "starting", "looping" or "ended"
    edits, faults

vars == <<item, page, batch, strays, worker, edits, faults>>
bounds == <<edits, faults>>

\* PageJob, with the time its fetch may still take
Jobs == [id : Ids, url : Urls, attempts : Nat \ {0}, left : 0..Deadline]

Running == batch \cup strays
Items == {i \in Ids : item[i] # NoItem}
Up == worker # "off"

\* INTEGER PRIMARY KEY without AUTOINCREMENT: one more than the largest id in use
NextId == 1 + Max(Items \cup {0})

Fresh(u) == [url |-> u, status |-> "pending", attempts |-> 0, wait |-> 0, copy |-> NoCopy]

\* Slip: keeps the row an item has, whatever address it was for
QueuedKeepsRow(i, u) ==
    IF u \notin Urls THEN NoPage ELSE IF page[i] # NoPage THEN page[i] ELSE Fresh(u)

\* Slip: the new address takes over the copy of the old one
QueuedKeepsCopy(i, u) ==
    IF u \notin Urls THEN NoPage
    ELSE IF page[i] = NoPage THEN Fresh(u)
    ELSE IF page[i].url = u THEN page[i] ELSE [Fresh(u) EXCEPT !.copy = page[i].copy]

\* What `queue` leaves in the row of an item whose address is now `u`
Queued(i, u) ==
    IF u \notin Urls THEN NoPage
    ELSE IF page[i] # NoPage /\ page[i].url = u THEN page[i]
    ELSE Fresh(u)

-----------------------------------------------------------------------------
(* The user's requests, each one write transaction                         *)

Edit == Up /\ edits < MaxEdits /\ edits' = edits + 1 /\ UNCHANGED <<worker, batch, strays, faults>>

\* POST /api/items, with `u` the first of the new item's links.  Its page is queued, or
\* stored at once when the client sent one: of the save's `url`, which needn't be the first
\* link, since with_primary leaves it where it is among them.
Capture(u, of) ==
    /\ Edit
    /\ NextId \in Ids
    /\ item' = [item EXCEPT ![NextId] = u]
    /\ page' = [page EXCEPT ![NextId] =
                   IF u \in Urls /\ of \in Urls
                   THEN [Fresh(u) EXCEPT !.status = "ready", !.copy = [of |-> of, sent |-> TRUE]]
                   ELSE Queued(NextId, u)]

\* PATCH /api/items/{id} with `url` or `links`
ChangeAddress(i, u) ==
    /\ Edit
    /\ i \in Items
    /\ item' = [item EXCEPT ![i] = u]
    /\ page' = [page EXCEPT ![i] = Queued(i, u)]

\* DELETE /api/items/{id}: item_pages goes with the item (ON DELETE CASCADE)
Remove(i) ==
    /\ Edit
    /\ i \in Items
    /\ item' = [item EXCEPT ![i] = NoItem]
    /\ page' = [page EXCEPT ![i] = NoPage]

\* POST /api/items/{id}/page/refresh
Requeue(i) ==
    /\ Edit
    /\ page[i] # NoPage
    /\ page' = [page EXCEPT ![i] = [@ EXCEPT !.status = "pending", !.attempts = 0, !.wait = 0]]
    /\ UNCHANGED item

-----------------------------------------------------------------------------
(* The worker                                                              *)

\* Slip: work that a restart interrupted is never taken up again
DueUnlessWorking == {i \in Ids : page[i] # NoPage /\ page[i].status = "pending" /\ page[i].wait = 0}

Due == {i \in Ids : page[i] # NoPage /\ page[i].status \in Waiting /\ page[i].wait = 0}

Claimed(i) == [page[i] EXCEPT !.status = "working", !.attempts = @ + 1, !.wait = StaleWork]

\* run_once starts once the last batch is done with: up to `limit` due rows
\* become "working".  Which of more than `limit` rows (the ones due longest) is left open.
Claim ==
    /\ worker = "looping"
    /\ batch = {}
    /\ \E S \in SUBSET Due :
        /\ S # {} /\ Cardinality(S) = Min({BatchSize, Cardinality(Due)})
        /\ page' = [i \in Ids |-> IF i \in S THEN Claimed(i) ELSE page[i]]
        /\ batch' = {[id |-> i, url |-> page[i].url, attempts |-> page[i].attempts + 1,
                      left |-> Deadline] : i \in S}
    /\ UNCHANGED <<item, strays, worker, bounds>>

\* Slip: WHERE item_id = ? alone
MatchesIdAlone(j) == page[j.id] # NoPage

\* WHERE item_id = ? AND url = ?
Matches(j) == page[j.id] # NoPage /\ page[j.id].url = j.url

Retried(j) == [page[j.id] EXCEPT !.status = "pending", !.wait = Delay[Min({j.attempts, 2})]]
GivenUp(j) == [page[j.id] EXCEPT !.status = "failed"]

\* The row after a fetch ended: its page stored, not a web page, refused (or the
\* server's storage is full), or an error that may pass
Ready(j)   == [page[j.id] EXCEPT !.status = "ready", !.copy = [of |-> j.url, sent |-> FALSE]]
Skipped(j) == [page[j.id] EXCEPT !.status = "skipped"]
Failed(j)  == IF j.attempts >= MaxAttempts THEN GivenUp(j) ELSE Retried(j)
Outcomes(j) == {Ready(j), Skipped(j), GivenUp(j), Failed(j)}

Store(j, row) == page' = IF Matches(j) THEN [page EXCEPT ![j.id] = row] ELSE page

\* _handle: the result of one fetch is written in a transaction of its own
Finish(j) ==
    /\ \E row \in (IF Matches(j) THEN Outcomes(j) ELSE {NoPage}) : Store(j, row)
    /\ batch' = batch \ {j}
    /\ strays' = strays \ {j}
    /\ UNCHANGED <<item, worker, bounds>>

\* The result can't be written ("database is locked"): gather raises, run_once
\* ends, and the rest of its batch goes on without anyone waiting for it
LoseResult(j) ==
    /\ faults < MaxFaults
    /\ faults' = faults + 1
    /\ \/ /\ j \in batch
          /\ batch' = {}
          /\ strays' = (strays \cup batch) \ {j}
       \/ /\ j \notin batch
          /\ strays' = strays \ {j}
          /\ UNCHANGED batch
    /\ UNCHANGED <<item, page, worker, edits>>

-----------------------------------------------------------------------------
(* Time, and the server going down and up                                  *)

Later(n) == IF n = 0 THEN 0 ELSE n - 1

\* Downloads end by their deadline: none is still running when its time is up
Tick ==
    /\ \A j \in Running : j.left > 0
    /\ \E i \in Ids : page[i] # NoPage /\ page[i].status \in Waiting /\ page[i].wait > 0
    /\ page' = [i \in Ids |-> IF page[i] # NoPage /\ page[i].status \in Waiting
                   THEN [page[i] EXCEPT !.wait = Later(@)] ELSE page[i]]
    /\ batch' = {[j EXCEPT !.left = Later(@)] : j \in batch}
    /\ strays' = {[j EXCEPT !.left = Later(@)] : j \in strays}
    /\ UNCHANGED <<item, worker, bounds>>

Stop ==
    /\ Up
    /\ faults < MaxFaults
    /\ faults' = faults + 1
    /\ worker' = "off"
    /\ batch' = {} /\ strays' = {}
    /\ UNCHANGED <<item, page, edits>>

Missing == {i \in Items : item[i] \in Urls /\ page[i] = NoPage}

\* Database.initialize: pages of items from before there was a queue join it
Start ==
    /\ ~Up
    /\ worker' = "starting"
    /\ page' = [i \in Ids |-> IF i \in Missing THEN Fresh(item[i]) ELSE page[i]]
    /\ UNCHANGED <<item, batch, strays, bounds>>

\* _run, up to its loop: _reset_interrupted is done, which is about full text only (FullText)
BeginLoop ==
    /\ worker = "starting"
    /\ worker' = "looping"
    /\ UNCHANGED <<item, page, batch, strays, bounds>>

\* or raises, outside the `try` of the loop: the worker's task has ended
ResetFails ==
    /\ worker = "starting"
    /\ faults < MaxFaults
    /\ faults' = faults + 1
    /\ worker' = "ended"
    /\ UNCHANGED <<item, page, batch, strays, edits>>

-----------------------------------------------------------------------------
\* A database from before saved pages, about to be opened by this version
Init ==
    /\ item \in [Ids -> Urls \cup {NotWeb, NoItem}]
    /\ page = [i \in Ids |-> NoPage]
    /\ batch = {} /\ strays = {}
    /\ worker = "off"
    /\ edits = 0 /\ faults = 0

User ==
    \/ \E u \in Urls \cup {NotWeb}, of \in Urls \cup {NoCopy} : Capture(u, of)
    \/ \E i \in Ids : \/ \E u \in Urls \cup {NotWeb} : ChangeAddress(i, u)
                      \/ Remove(i)
                      \/ Requeue(i)

Next ==
    \/ User
    \/ Claim
    \/ \E j \in Running : Finish(j) \/ LoseResult(j)
    \/ Tick \/ Stop \/ Start \/ BeginLoop \/ ResetFails

\* Once in its loop the worker goes on whatever run_once raises, fetches end by their
\* deadline, the clock goes on and a stopped server is started again; a worker that ended
\* stays so until then, and nothing makes a user do anything.
Fairness ==
    /\ WF_vars(Claim)
    /\ WF_vars(\E j \in Running : Finish(j))
    /\ WF_vars(Tick)
    /\ WF_vars(Start)
    /\ WF_vars(BeginLoop)

Spec == Init /\ [][Next]_vars /\ Fairness

-----------------------------------------------------------------------------
TypeOK ==
    /\ item \in [Ids -> Urls \cup {NotWeb, NoItem}]
    /\ page \in [Ids -> Rows \cup {NoPage}]
    /\ batch \subseteq Jobs /\ strays \subseteq Jobs
    /\ worker \in {"off", "starting", "looping", "ended"}
    /\ edits \in 0..MaxEdits /\ faults \in 0..MaxFaults

\* While the server runs, an item has a row in the queue exactly when it has a
\* web address, and the row is for that address: no edit, deletion, reuse of an
\* id or late result of a fetch leaves the two tables apart.
PageMatchesItem ==
    Up => \A i \in Ids : IF item[i] \in Urls THEN page[i] # NoPage /\ page[i].url = item[i]
                                             ELSE page[i] = NoPage

\* A copy the server made is always of the address its item has now: a result that
\* arrives after the address changed never shows under the new one.  Only a copy that a
\* client sent with the save may be of another address (Capture).  A ready row has one.
CopyIsOfItsAddress ==
    \A i \in Ids : page[i] # NoPage =>
        /\ page[i].copy # NoCopy => page[i].copy.of = page[i].url \/ page[i].copy.sent
        /\ page[i].status = "ready" => page[i].copy # NoCopy

\* What a row amounts to: the address it is for, whether it waits, and its copy's address
StateOf(row) == IF row.status \in Waiting THEN "waiting" ELSE "settled"
View(row) ==
    IF row = NoPage THEN NoPage
    ELSE [url |-> row.url, state |-> StateOf(row), copy |-> row.copy]

Queue == INSTANCE PageQueue WITH page <- [i \in Ids |-> View(page[i])]

\* With its leases, attempts, late results and restarts the queue is one of PageQueue: a
\* copy, sent or fetched, goes when the address it was stored under changes, and a failed
\* fetch leaves the copy there was.
ImplementsPageQueue == Queue!Spec

\* Every page that waits is settled in the end, through retries, lost results and restarts,
\* unless the worker's task ended as it started.
EveryPageSettles == \A i \in Ids : Queue!Waits(i) ~> (~Queue!Waits(i) \/ worker = "ended")
=============================================================================
