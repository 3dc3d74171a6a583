------------------------- MODULE PageCapture_proofs -------------------------
(***************************************************************************)
(* Proofs about PageCapture for any number of items, addresses, attempts,  *)
(* requests and faults: the queue and the items table never come apart,    *)
(* and no copy the server made shows under another address.  Then          *)
(* about SignIn, after the line of dashes that says so.                    *)
(***************************************************************************)
EXTENDS PageCapture, SignIn, Largest, TLAPS

\* A row's address is its item's, also while the server is down (what Start
\* needs in order to bring the two tables together by only adding rows).
RowIsOfItem == \A i \in Ids : page[i] # NoPage => item[i] \in Urls /\ page[i].url = item[i]

\* What CopyIsOfItsAddress says of a row
GoodCopy(row) ==
    /\ row.copy # NoCopy => row.copy.of = row.url \/ row.copy.sent
    /\ row.status = "ready" => row.copy # NoCopy

IInv == TypeOK /\ RowIsOfItem /\ PageMatchesItem /\ CopyIsOfItsAddress

-----------------------------------------------------------------------------
\* The index that save_failure reads RETRY_DELAYS with is one it has.
LEMMA DelayIndex ==
    ASSUME NEW a \in Nat \ {0}
    PROVE  Min({a, 2}) \in 1..2
<1>1. \E x \in {a, 2} : \A y \in {a, 2} : x <= y
  <2>1. CASE a <= 2
    BY <2>1
  <2>2. CASE ~(a <= 2)
    BY <2>2
  <2> QED BY <2>1, <2>2
<1>2. Min({a, 2}) \in {a, 2} /\ \A y \in {a, 2} : Min({a, 2}) <= y
  BY <1>1 DEF Min
<1> QED BY <1>2

\* What `queue` leaves in a row is a row of the new address, with a copy only
\* if it is of that address; no row when the address is no web address.
LEMMA QueuedRow ==
    ASSUME IInv, NEW i \in Ids, NEW u \in Urls \cup {NotWeb}
    PROVE  /\ u \in Urls => /\ Queued(i, u) \in Rows
                            /\ Queued(i, u) # NoPage
                            /\ Queued(i, u).url = u
                            /\ GoodCopy(Queued(i, u))
           /\ u \notin Urls => Queued(i, u) = NoPage
<1>1. Fresh(u) = [url |-> u, status |-> "pending", attempts |-> 0, wait |-> 0, copy |-> NoCopy]
  BY DEF Fresh
<1>2. CASE u \notin Urls
  BY <1>2 DEF Queued
<1>3. CASE u \in Urls /\ page[i] # NoPage /\ page[i].url = u
  <2>1. Queued(i, u) = page[i]
    BY <1>3 DEF Queued
  <2> QED BY <2>1, <1>3 DEF IInv, TypeOK, CopyIsOfItsAddress, GoodCopy
<1>4. CASE u \in Urls /\ ~(page[i] # NoPage /\ page[i].url = u)
  <2>1. Queued(i, u) = Fresh(u)
    BY <1>4 DEF Queued
  <2>2. Fresh(u) \in Rows
    BY <1>1, <1>4 DEF Rows, Waiting
  <2> QED BY <2>1, <2>2, <1>1, <1>4, Distinct DEF GoodCopy
<1> QED BY <1>2, <1>3, <1>4

\* So is what Capture leaves of a page that was sent.
LEMMA SentRow ==
    ASSUME NEW u \in Urls, NEW of \in Urls
    PROVE  LET copy == [of |-> of, sent |-> TRUE]
               row == [Fresh(u) EXCEPT !.status = "ready", !.copy = copy]
           IN /\ row \in Rows /\ row # NoPage /\ row.url = u /\ GoodCopy(row)
              /\ row = [url |-> u, status |-> "ready", attempts |-> 0, wait |-> 0, copy |-> copy]
<1> DEFINE copy == [of |-> of, sent |-> TRUE]
           row == [Fresh(u) EXCEPT !.status = "ready", !.copy = copy]
<1>1. copy \in Copies /\ copy.sent = TRUE
  BY DEF Copies
<1>6. row = [url |-> u, status |-> "ready", attempts |-> 0, wait |-> 0, copy |-> copy]
  <2> DEFINE start == [Fresh(u) EXCEPT !.status = "ready"]
  <2>1. start = [url |-> u, status |-> "ready", attempts |-> 0, wait |-> 0, copy |-> NoCopy]
    BY DEF Fresh
  <2> HIDE DEF start, copy
  <2>2. [start EXCEPT !.copy = copy]
          = [url |-> u, status |-> "ready", attempts |-> 0, wait |-> 0, copy |-> copy]
    BY <2>1
  <2>3. row = [start EXCEPT !.copy = copy]
    BY DEF start
  <2> QED BY <2>2, <2>3
<1> HIDE DEF copy, row
<1>3. row \in Rows
  BY <1>1, <1>6 DEF Rows, Settled
<1>4. row # NoPage /\ GoodCopy(row)
  BY <1>1, <1>6, <1>3, Distinct DEF GoodCopy
<1>5. row \in Rows /\ row # NoPage /\ row.url = u /\ GoodCopy(row)
  BY <1>6, <1>3, <1>4
<1> QED BY <1>6, <1>5 DEF row, copy

\* Every result of a fetch leaves a row of the same address, and a copy only of it.
LEMMA OutcomeRow ==
    ASSUME IInv, NEW j \in Running, Matches(j), NEW row \in Outcomes(j)
    PROVE  /\ row \in Rows
           /\ row.url = page[j.id].url
           /\ GoodCopy(row)
<1>1. j \in Jobs /\ page[j.id] \in Rows /\ j.url = page[j.id].url /\ j.id \in Ids
  BY DEF IInv, TypeOK, Running, Matches, Jobs
<1>2. GoodCopy(page[j.id])
  BY <1>1 DEF IInv, CopyIsOfItsAddress, Matches, GoodCopy
<1>3. Delay[Min({j.attempts, 2})] \in Nat
  <2>1. j.attempts \in Nat \ {0}
    BY <1>1 DEF Jobs
  <2> QED BY <2>1, DelayIndex, Parameters
<1>4. CASE row = Ready(j)
  <2>1. [of |-> j.url, sent |-> FALSE] \in Copies
    BY <1>1 DEF Copies, Jobs
  <2> QED BY <1>1, <1>4, <2>1, Distinct DEF Ready, Rows, Settled, GoodCopy
<1>5. CASE row = Skipped(j)
  BY <1>1, <1>2, <1>5 DEF Skipped, Rows, Settled, GoodCopy
<1>6. CASE row = GivenUp(j)
  BY <1>1, <1>2, <1>6 DEF GivenUp, Rows, Settled, GoodCopy
<1>7. CASE row = Retried(j)
  BY <1>1, <1>2, <1>3, <1>7 DEF Retried, Rows, Waiting, GoodCopy
<1> QED BY <1>4, <1>5, <1>6, <1>7 DEF Outcomes, Failed

\* A claim leaves a row.
LEMMA ClaimedRow ==
    ASSUME NEW i, page[i] \in Rows
    PROVE  Claimed(i) \in Rows
<1> DEFINE r == page[i]
<1>1. r \in Rows
  OBVIOUS
<1>2. r.attempts + 1 \in Nat /\ StaleWork \in Nat
  BY <1>1, Parameters DEF Rows
<1>3. Claimed(i) = [r EXCEPT !.status = "working", !.attempts = r.attempts + 1, !.wait = StaleWork]
  BY DEF Claimed
<1> HIDE DEF r
<1> QED BY <1>1, <1>2, <1>3 DEF Rows, Waiting

-----------------------------------------------------------------------------
LEMMA InitIInv == Init => IInv
<1> SUFFICES ASSUME Init PROVE IInv
  OBVIOUS
<1>1. TypeOK
  <2>1. worker \in {"off", "starting", "looping", "ended"}
    BY DEF Init
  <2>2. edits \in 0..MaxEdits /\ faults \in 0..MaxFaults
    BY Parameters DEF Init
  <2> QED BY <2>1, <2>2 DEF Init, TypeOK
<1>2. RowIsOfItem /\ PageMatchesItem /\ CopyIsOfItsAddress
  BY DEF Init, RowIsOfItem, PageMatchesItem, CopyIsOfItsAddress, GoodCopy, Up
<1> QED BY <1>1, <1>2 DEF IInv

LEMMA StepIInv == IInv /\ [Next]_vars => IInv'
<1> SUFFICES ASSUME IInv, [Next]_vars PROVE IInv'
  OBVIOUS
<1> USE Distinct
<1>1. ASSUME NEW u \in Urls \cup {NotWeb}, NEW of \in Urls \cup {NoCopy}, Capture(u, of)
      PROVE  IInv'
  <2>1. PICK n \in Ids : n = NextId
    BY <1>1 DEF Capture
  <2> DEFINE row == IF u \in Urls /\ of \in Urls
                    THEN [Fresh(u) EXCEPT !.status = "ready", !.copy = [of |-> of, sent |-> TRUE]]
                    ELSE Queued(n, u)
  <2>2. /\ item' = [item EXCEPT ![n] = u] /\ page' = [page EXCEPT ![n] = row]
    BY <2>1, <1>1 DEF Capture
  <2>4. /\ u \in Urls => row \in Rows /\ row # NoPage /\ row.url = u /\ GoodCopy(row)
        /\ u \notin Urls => row = NoPage
    <3>1. CASE u \in Urls /\ of \in Urls
      BY <3>1, SentRow
    <3>2. CASE ~(u \in Urls /\ of \in Urls)
      BY <3>2, QueuedRow
    <3> QED BY <3>1, <3>2
  <2> HIDE DEF row
  <2>5. worker' = worker /\ batch' = batch /\ strays' = strays /\ edits' = edits + 1 /\ edits < MaxEdits /\ faults' = faults
    BY <1>1 DEF Capture, Edit
  <2>6. TypeOK'
    BY <2>2, <2>4, <2>5, Parameters DEF IInv, TypeOK
  <2>7. RowIsOfItem' /\ PageMatchesItem' /\ CopyIsOfItsAddress'
    BY <2>2, <2>4, <2>5 DEF IInv, TypeOK, RowIsOfItem, PageMatchesItem, CopyIsOfItsAddress, GoodCopy, Up
  <2> QED BY <2>6, <2>7 DEF IInv
<1>2. ASSUME NEW i \in Ids, NEW u \in Urls \cup {NotWeb}, ChangeAddress(i, u)
      PROVE  IInv'
  <2> DEFINE row == Queued(i, u)
  <2>1. /\ item' = [item EXCEPT ![i] = u] /\ page' = [page EXCEPT ![i] = row]
    BY <1>2 DEF ChangeAddress, IInv, TypeOK
  <2>2. /\ u \in Urls => row \in Rows /\ row # NoPage /\ row.url = u /\ GoodCopy(row)
        /\ u \notin Urls => row = NoPage
    BY QueuedRow
  <2> HIDE DEF row
  <2>3. worker' = worker /\ batch' = batch /\ strays' = strays /\ edits' = edits + 1 /\ edits < MaxEdits /\ faults' = faults
    BY <1>2 DEF ChangeAddress, Edit
  <2>4. TypeOK'
    BY <2>1, <2>2, <2>3, Parameters DEF IInv, TypeOK
  <2>5. RowIsOfItem' /\ PageMatchesItem' /\ CopyIsOfItsAddress'
    BY <2>1, <2>2, <2>3 DEF IInv, TypeOK, RowIsOfItem, PageMatchesItem, CopyIsOfItsAddress, GoodCopy, Up
  <2> QED BY <2>4, <2>5 DEF IInv
<1>3. ASSUME NEW i \in Ids, Remove(i)
      PROVE  IInv'
  BY <1>3, Parameters
     DEF Remove, Edit, IInv, TypeOK, RowIsOfItem, PageMatchesItem, CopyIsOfItsAddress, GoodCopy, Up
<1>4. ASSUME NEW i \in Ids, Requeue(i)
      PROVE  IInv'
  <2> DEFINE row == [page[i] EXCEPT !.status = "pending", !.attempts = 0, !.wait = 0]
  <2>1. page[i] # NoPage /\ page[i] \in Rows
    BY <1>4 DEF Requeue, IInv, TypeOK
  <2>2. row \in Rows /\ row.url = page[i].url /\ row.copy = page[i].copy /\ row.status = "pending"
    BY <2>1 DEF Rows, Waiting
  <2>3. page' = [page EXCEPT ![i] = row] /\ item' = item
    BY <1>4 DEF Requeue, IInv, TypeOK
  <2>4. worker' = worker /\ batch' = batch /\ strays' = strays /\ edits' = edits + 1 /\ edits < MaxEdits /\ faults' = faults
    BY <1>4 DEF Requeue, Edit
  <2> HIDE DEF row
  <2>5. TypeOK'
    BY <2>2, <2>3, <2>4, Parameters DEF IInv, TypeOK
  <2>6. RowIsOfItem' /\ PageMatchesItem' /\ CopyIsOfItsAddress'
    BY <2>1, <2>2, <2>3, <2>4 DEF IInv, TypeOK, RowIsOfItem, PageMatchesItem, CopyIsOfItsAddress, GoodCopy, Up
  <2> QED BY <2>5, <2>6 DEF IInv
<1>5. ASSUME Claim
      PROVE  IInv'
  <2>1. PICK S \in SUBSET Due :
           /\ page' = [i \in Ids |-> IF i \in S THEN Claimed(i) ELSE page[i]]
           /\ batch' = {[id |-> i, url |-> page[i].url, attempts |-> page[i].attempts + 1,
                         left |-> Deadline] : i \in S}
    BY <1>5 DEF Claim
  <2>2. item' = item /\ strays' = strays /\ worker' = worker /\ edits' = edits /\ faults' = faults
    BY <1>5 DEF Claim, bounds
  <2>3. \A i \in S : i \in Ids /\ page[i] # NoPage /\ page[i] \in Rows
    BY DEF Due, IInv, TypeOK
  <2>4. \A i \in S : /\ page'[i] \in Rows /\ page'[i] # NoPage
                     /\ page'[i].url = page[i].url /\ page'[i].copy = page[i].copy
                     /\ page'[i].status = "working"
    <3> SUFFICES ASSUME NEW i \in S
                 PROVE  /\ page'[i] \in Rows /\ page'[i] # NoPage
                        /\ page'[i].url = page[i].url /\ page'[i].copy = page[i].copy
                        /\ page'[i].status = "working"
      OBVIOUS
    <3>1. page'[i] = [page[i] EXCEPT !.status = "working", !.attempts = @ + 1, !.wait = StaleWork]
      BY <2>1, <2>3 DEF Claimed
    <3>2. page'[i] \in Rows
      BY <2>1, <2>3, ClaimedRow
    <3> QED BY <3>1, <3>2, <2>3 DEF Rows
  <2>5. \A i \in Ids \ S : page'[i] = page[i]
    BY <2>1
  <2>6. batch' \subseteq Jobs
    <3> SUFFICES ASSUME NEW i \in S
                 PROVE  [id |-> i, url |-> page[i].url, attempts |-> page[i].attempts + 1,
                         left |-> Deadline] \in Jobs
      BY <2>1
    <3>1. i \in Ids /\ page[i].url \in Urls /\ page[i].attempts \in Nat
      BY <2>3 DEF Rows
    <3>2. Deadline \in 0..Deadline /\ page[i].attempts + 1 \in Nat \ {0}
      BY <3>1, Parameters
    <3> QED BY <3>1, <3>2 DEF Jobs
  <2>7. TypeOK'
    <3>1. page' \in [Ids -> Rows \cup {NoPage}]
      BY <2>1, <2>4, <2>5 DEF IInv, TypeOK
    <3> QED BY <3>1, <2>1, <2>2, <2>6 DEF IInv, TypeOK
  <2>8. RowIsOfItem' /\ PageMatchesItem' /\ CopyIsOfItsAddress'
    BY <2>2, <2>3, <2>4, <2>5 DEF IInv, RowIsOfItem, PageMatchesItem, CopyIsOfItsAddress, GoodCopy, Up
  <2> QED BY <2>7, <2>8 DEF IInv
<1>6. ASSUME NEW j \in Running, Finish(j)
      PROVE  IInv'
  <2>1. /\ batch' = batch \ {j} /\ strays' = strays \ {j} /\ item' = item /\ worker' = worker
        /\ edits' = edits /\ faults' = faults
    BY <1>6 DEF Finish, bounds
  <2>2. CASE ~Matches(j)
    <3>1. page' = page
      BY <2>2, <1>6 DEF Finish, Store
    <3> QED BY <2>1, <3>1 DEF IInv, TypeOK, RowIsOfItem, PageMatchesItem, CopyIsOfItsAddress, GoodCopy, Up
  <2>3. CASE Matches(j)
    <3>1. PICK row \in Outcomes(j) : page' = [page EXCEPT ![j.id] = row]
      BY <2>3, <1>6 DEF Finish, Store
    <3>2. row \in Rows /\ row.url = page[j.id].url /\ GoodCopy(row)
      BY <2>3, OutcomeRow
    <3>3. j.id \in Ids /\ page[j.id] # NoPage
      BY <2>3 DEF Matches, IInv, TypeOK, Running, Jobs
    <3>4. TypeOK'
      BY <2>1, <3>1, <3>2 DEF IInv, TypeOK
    <3>5. RowIsOfItem' /\ PageMatchesItem' /\ CopyIsOfItsAddress'
      BY <2>1, <3>1, <3>2, <3>3 DEF IInv, TypeOK, RowIsOfItem, PageMatchesItem, CopyIsOfItsAddress, GoodCopy, Up
    <3> QED BY <3>4, <3>5 DEF IInv
  <2> QED BY <2>2, <2>3
<1>7. ASSUME NEW j \in Running, LoseResult(j)
      PROVE  IInv'
  BY <1>7, Parameters
     DEF LoseResult, IInv, TypeOK, RowIsOfItem, PageMatchesItem, CopyIsOfItsAddress, GoodCopy, Up
<1>8. ASSUME Tick
      PROVE  IInv'
  <2>1. /\ item' = item /\ worker' = worker /\ edits' = edits /\ faults' = faults
        /\ page' = [i \in Ids |-> IF page[i] # NoPage /\ page[i].status \in Waiting
                       THEN [page[i] EXCEPT !.wait = Later(@)] ELSE page[i]]
    BY <1>8 DEF Tick, bounds
  <2>2. \A n \in Nat : Later(n) \in Nat
    BY DEF Later
  <2>3. \A i \in Ids : /\ page[i] = NoPage => page'[i] = NoPage
                       /\ page[i] # NoPage =>
                             /\ page'[i] \in Rows /\ page'[i].url = page[i].url
                             /\ page'[i].copy = page[i].copy /\ page'[i].status = page[i].status
    BY <2>1, <2>2 DEF IInv, TypeOK, Rows
  <2>4. batch' \subseteq Jobs /\ strays' \subseteq Jobs
    <3>1. \A j \in Jobs : [j EXCEPT !.left = Later(@)] \in Jobs
      BY Parameters DEF Jobs, Later
    <3> QED BY <3>1, <1>8 DEF Tick, IInv, TypeOK
  <2>5. TypeOK'
    <3>1. page' \in [Ids -> Rows \cup {NoPage}]
      BY <2>1, <2>3
    <3> QED BY <3>1, <2>1, <2>4 DEF IInv, TypeOK
  <2>6. RowIsOfItem' /\ PageMatchesItem' /\ CopyIsOfItsAddress'
    BY <2>1, <2>3 DEF IInv, RowIsOfItem, PageMatchesItem, CopyIsOfItsAddress, GoodCopy, Up
  <2> QED BY <2>5, <2>6 DEF IInv
<1>9. ASSUME Stop
      PROVE  IInv'
  <2>1. TypeOK'
    <3>1. worker' \in {"off", "starting", "looping", "ended"}
      BY <1>9 DEF Stop
    <3>2. faults' \in 0..MaxFaults
      BY <1>9, Parameters DEF Stop, IInv, TypeOK
    <3> QED BY <1>9, <3>1, <3>2 DEF Stop, IInv, TypeOK
  <2>2. RowIsOfItem' /\ PageMatchesItem' /\ CopyIsOfItsAddress'
    BY <1>9 DEF Stop, Up, IInv, RowIsOfItem, PageMatchesItem, CopyIsOfItsAddress, GoodCopy
  <2> QED BY <2>1, <2>2 DEF IInv
<1>10. ASSUME Start
       PROVE  IInv'
  <2>1. /\ item' = item /\ batch' = batch /\ strays' = strays /\ worker' = "starting"
        /\ edits' = edits /\ faults' = faults
        /\ page' = [i \in Ids |-> IF item[i] \in Urls /\ page[i] = NoPage THEN Fresh(item[i]) ELSE page[i]]
    BY <1>10, Distinct DEF Start, Missing, Items, bounds, IInv, TypeOK
  <2>2. \A u \in Urls : /\ Fresh(u) \in Rows /\ Fresh(u) # NoPage /\ Fresh(u).url = u
                        /\ Fresh(u).copy = NoCopy /\ Fresh(u).status = "pending"
    BY DEF Fresh, Rows, Waiting
  <2>3. TypeOK'
    BY <2>1, <2>2 DEF IInv, TypeOK
  <2>4. RowIsOfItem' /\ PageMatchesItem' /\ CopyIsOfItsAddress'
    BY <2>1, <2>2 DEF IInv, TypeOK, RowIsOfItem, PageMatchesItem, CopyIsOfItsAddress, GoodCopy, Up
  <2> QED BY <2>3, <2>4 DEF IInv
<1>12. ASSUME BeginLoop \/ ResetFails
       PROVE  IInv'
  <2>1. /\ UNCHANGED <<item, page, batch, strays, edits>> /\ Up /\ worker' \in {"looping", "ended"}
    BY <1>12 DEF BeginLoop, ResetFails, Up, bounds
  <2>2. faults' \in 0..MaxFaults
    BY <1>12, Parameters DEF BeginLoop, ResetFails, IInv, TypeOK, bounds
  <2> QED BY <2>1, <2>2 DEF Up, IInv, TypeOK, RowIsOfItem, PageMatchesItem, CopyIsOfItsAddress, GoodCopy
<1>11. ASSUME UNCHANGED vars
       PROVE  IInv'
  BY <1>11 DEF vars, Up, IInv, TypeOK, RowIsOfItem, PageMatchesItem, CopyIsOfItsAddress, GoodCopy
<1> QED
  BY <1>1, <1>2, <1>3, <1>4, <1>5, <1>6, <1>7, <1>8, <1>9, <1>10, <1>11, <1>12 DEF Next, User

-----------------------------------------------------------------------------
\* The inductive invariant holds in every reachable state.
THEOREM Invariance == Spec => []IInv
  BY InitIInv, StepIInv, PTL DEF Spec

\* The variables keep their types.
THEOREM TypeCorrect == Spec => []TypeOK
  BY Invariance, PTL DEF IInv

\* However edits, restarts, lost results and late ones interleave, an item has
\* a row in the queue exactly when it has a web address, and for that address.
THEOREM QueueFollowsItems == Spec => []PageMatchesItem
  BY Invariance, PTL DEF IInv

\* No copy is ever shown under an address it isn't of, but for what a client sent
\* with the save that stored it.
THEOREM CopiesAreOfTheirAddress == Spec => []CopyIsOfItsAddress
  BY Invariance, PTL DEF IInv

-----------------------------------------------------------------------------
(* The queue does what PageQueue says, one step for one step or none       *)

\* What is seen of the whole table
Seen == [i \in Ids |-> View(page[i])]

LEMMA RowSeen ==
    ASSUME NEW row \in Rows
    PROVE  /\ View(row) = [url |-> row.url, state |-> StateOf(row), copy |-> row.copy]
           /\ View(row) \in Views
           /\ View(row) # NoPage
<1>1. View(row) = [url |-> row.url, state |-> StateOf(row), copy |-> row.copy]
  BY Distinct DEF View
<1>2. View(row) \in Views
  <2>1. row.url \in Urls /\ row.copy \in Copies \cup {NoCopy}
    BY DEF Rows
  <2> QED BY <2>1, <1>1 DEF Views, StateOf
<1> QED BY <1>1, <1>2, Distinct

\* Where one row changes, one page of what is seen does.
LEMMA OneRowSeen ==
    ASSUME IInv, NEW i \in Ids, NEW row, page' = [page EXCEPT ![i] = row]
    PROVE  Seen' = [Seen EXCEPT ![i] = View(row)]
BY DEF IInv, TypeOK, Seen, View

LEMMA SeenRow ==
    ASSUME IInv, NEW i \in Ids
    PROVE  /\ Seen[i] = View(page[i])
           /\ Seen[i] = NoPage <=> page[i] = NoPage
           /\ page[i] # NoPage => page[i] \in Rows
<1>1. page[i] \in Rows \cup {NoPage}
  BY DEF IInv, TypeOK
<1>2. Seen[i] = View(page[i])
  BY DEF Seen
<1>3. page[i] = NoPage => View(page[i]) = NoPage
  BY DEF View
<1> QED BY <1>1, <1>2, <1>3, RowSeen

\* A row that keeps its address is asked for again, or settled.
LEMMA RowGoesOn ==
    ASSUME IInv, NEW i \in Ids, page[i] # NoPage, NEW row \in Rows,
           page' = [page EXCEPT ![i] = row], row.url = page[i].url,
           row.copy \in {page[i].copy, [of |-> page[i].url, sent |-> FALSE]},
           row.status \in Waiting => row.copy = page[i].copy
    PROVE  Queue!Next
<1>1. Seen' = [Seen EXCEPT ![i] = View(row)]
  BY OneRowSeen
<1>2. Seen[i] # NoPage /\ page[i] \in Rows /\ Seen[i] = View(page[i])
  BY SeenRow
<1>3. /\ Seen[i] = [url |-> page[i].url, state |-> StateOf(page[i]), copy |-> page[i].copy]
      /\ View(row) = [url |-> row.url, state |-> StateOf(row), copy |-> row.copy]
  BY <1>2, RowSeen
<1>4. CASE row.status \in Waiting
  <2>1. View(row) = [url |-> row.url, state |-> "waiting", copy |-> row.copy]
    BY <1>3, <1>4 DEF StateOf
  <2>2. View(row) = [Seen[i] EXCEPT !.state = "waiting"]
    BY <1>3, <1>4, <2>1
  <2>3. Queue!Again(i)
    BY <1>1, <1>2, <2>2 DEF Queue!Again, Seen
  <2> QED BY <2>3 DEF Queue!Next
<1>5. CASE row.status \notin Waiting
  <2>1. View(row) = [url |-> row.url, state |-> "settled", copy |-> row.copy]
    BY <1>3, <1>5 DEF StateOf
  <2>2. View(row) = [Seen[i] EXCEPT !.state = "settled", !.copy = row.copy]
    <3> DEFINE s == [Seen[i] EXCEPT !.state = "settled"]
    <3>1. s = [url |-> row.url, state |-> "settled", copy |-> page[i].copy]
      BY <1>3
    <3>2. [s EXCEPT !.copy = row.copy] = [url |-> row.url, state |-> "settled", copy |-> row.copy]
      <4> HIDE DEF s
      <4> QED BY <3>1
    <3> QED BY <2>1, <3>2
  <2>3. row.copy \in {Seen[i].copy, Queue!Fetched(Seen[i].url)}
    BY <1>3 DEF Queue!Fetched
  <2>4. Queue!Settle(i)
    BY <1>1, <1>2, <2>2, <2>3 DEF Queue!Settle, Seen
  <2> QED BY <2>4 DEF Queue!Next
<1> QED BY <1>4, <1>5

\* Rows that appear are pages that wait, or that came with their copy.
LEMMA RowsAppear ==
    ASSUME IInv, IInv',
           \A i \in Ids : \/ page'[i] = page[i]
                         \/ /\ page[i] = NoPage
                            /\ \E u, of \in Urls : View(page'[i]) \in {Queue!New(u), Queue!Sent(u, of)}
    PROVE  Queue!Next
<1>1. \A i \in Ids : Seen[i] = View(page[i]) /\ Seen'[i] = View(page'[i])
  BY DEF Seen, View
<1>2. \A i \in Ids : /\ Seen'[i] \in Views \cup {NoPage}
                     /\ page[i] = NoPage => Seen[i] = NoPage
  <2> SUFFICES ASSUME NEW i \in Ids
               PROVE  /\ Seen'[i] \in Views \cup {NoPage}
                      /\ page[i] = NoPage => Seen[i] = NoPage
    OBVIOUS
  <2>1. page'[i] \in Rows \cup {NoPage}
    BY DEF IInv, TypeOK
  <2>2. page'[i] = NoPage => View(page'[i]) = NoPage
    BY DEF View
  <2> QED BY <1>1, <2>1, <2>2, RowSeen, SeenRow
<1>3. Seen' \in [Ids -> Views \cup {NoPage}]
  BY <1>2 DEF Seen
<1>4. Queue!Appear
  BY <1>1, <1>2, <1>3 DEF Queue!Appear, Queue!Pages, Queue!Copies, Copies, Views, Seen
<1> QED BY <1>4 DEF Queue!Next

\* The id a new item gets is larger than every item's.
LEMMA IdIsFree ==
    ASSUME NextId \in Ids
    PROVE  item[NextId] = NoItem
<1> DEFINE S == Items \cup {0}
<1>1. S \in SUBSET (0..MaxId) /\ S # {} /\ MaxId \in Nat
  BY Parameters DEF Items, Ids
<1>2. PICK m \in S : m = Max(S) /\ \A y \in S : m >= y
  BY <1>1, MaxOfBounded
<1>3. NextId = 1 + m
  BY <1>2 DEF NextId
<1>4. m \in Nat /\ \A y \in S : y \in Nat
  BY <1>1
<1>5. NextId \notin Items
  BY <1>2, <1>3, <1>4
<1> QED BY <1>5 DEF Items

LEMMA FreshSeen ==
    ASSUME NEW u \in Urls
    PROVE  Fresh(u) \in Rows /\ View(Fresh(u)) = Queue!New(u)
<1>1. Fresh(u) = [url |-> u, status |-> "pending", attempts |-> 0, wait |-> 0, copy |-> NoCopy]
  BY DEF Fresh
<1>2. Fresh(u) \in Rows
  BY <1>1 DEF Rows, Waiting
<1> QED BY <1>1, <1>2, RowSeen DEF Queue!New, StateOf, Waiting

\* A row that is removed, or started over for another address, is a page replaced.
LEMMA RowReplaced ==
    ASSUME IInv, NEW i \in Ids, page[i] # NoPage, NEW row, page' = [page EXCEPT ![i] = row],
           row = NoPage \/ \E u \in Urls : u # page[i].url /\ row = Fresh(u)
    PROVE  Queue!Next
<1>1. Seen' = [Seen EXCEPT ![i] = View(row)]
  BY OneRowSeen
<1>2. Seen[i] # NoPage /\ Seen[i].url = page[i].url
  BY SeenRow, RowSeen
<1>3. View(row) \in {NoPage} \cup {Queue!New(u) : u \in Urls \ {Seen[i].url}}
  <2>1. View(NoPage) = NoPage
    BY DEF View
  <2> QED BY <2>1, <1>2, FreshSeen
<1>4. Queue!Replace(i)
  BY <1>1, <1>2, <1>3 DEF Queue!Replace, Seen
<1> QED BY <1>4 DEF Queue!Next

LEMMA InitSeen == Init => Queue!Init
BY DEF Init, Queue!Init, View

\* The user's requests: pages appear, are replaced, or shall be fetched again.
LEMMA UserSeen ==
    ASSUME IInv, IInv', User
    PROVE  [Queue!Next]_Seen
<1> USE Distinct
<1>1. ASSUME NEW u \in Urls \cup {NotWeb}, NEW of \in Urls \cup {NoCopy}, Capture(u, of)
      PROVE  [Queue!Next]_Seen
  <2>1. PICK n \in Ids : n = NextId
    BY <1>1 DEF Capture
  <2> DEFINE row == IF u \in Urls /\ of \in Urls
                    THEN [Fresh(u) EXCEPT !.status = "ready", !.copy = [of |-> of, sent |-> TRUE]]
                    ELSE Queued(n, u)
  <2>2. page' = [page EXCEPT ![n] = row] /\ page[n] = NoPage
    <3>1. item[n] = NoItem
      BY <2>1, IdIsFree
    <3> QED BY <2>1, <1>1, <3>1 DEF Capture, IInv, RowIsOfItem
  <2>3. u \notin Urls => row = NoPage
    BY <2>2, QueuedRow
  <2>4. u \in Urls => \E w \in Urls : View(row) \in {Queue!New(u), Queue!Sent(u, w)}
    <3>1. CASE u \in Urls /\ of \in Urls
      <4>1. /\ row = [url |-> u, status |-> "ready", attempts |-> 0, wait |-> 0, copy |-> [of |-> of, sent |-> TRUE]]
            /\ row \in Rows
        BY <3>1, SentRow
      <4> HIDE DEF row
      <4>2. View(row) = Queue!Sent(u, of)
        BY <4>1, RowSeen DEF Queue!Sent, StateOf, Waiting
      <4> QED BY <4>2, <3>1
    <3>2. CASE u \in Urls /\ of \notin Urls
      <4>1. row = Fresh(u)
        BY <2>2, <3>2 DEF Queued
      <4> HIDE DEF row
      <4> QED BY <4>1, <3>2, FreshSeen
    <3> QED BY <3>1, <3>2
  <2> HIDE DEF row
  <2>5. \A i \in Ids : \/ page'[i] = page[i]
                      \/ /\ page[i] = NoPage
                         /\ \E v, w \in Urls : View(page'[i]) \in {Queue!New(v), Queue!Sent(v, w)}
    BY <2>2, <2>3, <2>4 DEF IInv, TypeOK
  <2> QED BY <2>5, RowsAppear
<1>2. ASSUME NEW i \in Ids, NEW u \in Urls \cup {NotWeb}, ChangeAddress(i, u)
      PROVE  [Queue!Next]_Seen
  <2>1. page' = [page EXCEPT ![i] = Queued(i, u)]
    BY <1>2 DEF ChangeAddress
  <2>2. CASE page[i] # NoPage /\ page[i].url = u
    <3>1. Queued(i, u) = page[i]
      BY <2>2, SeenRow DEF Queued, Rows
    <3>2. page' = page
      BY <2>1, <3>1 DEF IInv, TypeOK
    <3> QED BY <3>2 DEF Seen, View
  <2>3. CASE page[i] # NoPage /\ page[i].url # u
    BY <2>1, <2>3, RowReplaced DEF Queued
  <2>4. CASE page[i] = NoPage
    <3>1. \A k \in Ids : \/ page'[k] = page[k]
                        \/ /\ page[k] = NoPage
                           /\ \E v, w \in Urls : View(page'[k]) \in {Queue!New(v), Queue!Sent(v, w)}
      BY <2>1, <2>4, FreshSeen DEF Queued, IInv, TypeOK
    <3> QED BY <3>1, RowsAppear
  <2> QED BY <2>2, <2>3, <2>4
<1>3. ASSUME NEW i \in Ids, Remove(i)
      PROVE  [Queue!Next]_Seen
  <2>1. page' = [page EXCEPT ![i] = NoPage]
    BY <1>3 DEF Remove
  <2>2. CASE page[i] = NoPage
    <3>1. page' = page
      BY <2>1, <2>2 DEF IInv, TypeOK
    <3> QED BY <3>1 DEF Seen, View
  <2>3. CASE page[i] # NoPage
    BY <2>1, <2>3, RowReplaced
  <2> QED BY <2>2, <2>3
<1>4. ASSUME NEW i \in Ids, Requeue(i)
      PROVE  [Queue!Next]_Seen
  <2> DEFINE row == [page[i] EXCEPT !.status = "pending", !.attempts = 0, !.wait = 0]
  <2>1. page[i] # NoPage /\ page[i] \in Rows /\ page' = [page EXCEPT ![i] = row]
    BY <1>4 DEF Requeue, IInv, TypeOK
  <2>2. row \in Rows /\ row.url = page[i].url /\ row.copy = page[i].copy
    BY <2>1 DEF Rows, Waiting
  <2> HIDE DEF row
  <2> QED BY <2>1, <2>2, RowGoesOn
<1> QED BY <1>1, <1>2, <1>3, <1>4 DEF User

\* The worker, the clock and restarts: a row waits again or is settled, pages that
\* were missing appear, and all the rest isn't seen.
LEMMA WorkerSeen ==
    ASSUME IInv, IInv', Claim \/ (\E j \in Running : Finish(j) \/ LoseResult(j)) \/ Tick \/ Stop \/ Start \/ BeginLoop
           \/ ResetFails
    PROVE  [Queue!Next]_Seen
<1> USE Distinct
<1>1. ASSUME Claim
      PROVE  [Queue!Next]_Seen
  <2>1. PICK S \in SUBSET Due : page' = [i \in Ids |-> IF i \in S THEN Claimed(i) ELSE page[i]]
    BY <1>1 DEF Claim
  <2>2. \A i \in Ids : View(page'[i]) = View(page[i])
    <3> SUFFICES ASSUME NEW i \in S
                 PROVE  View(page'[i]) = View(page[i])
      BY <2>1
    <3>1. i \in Ids /\ page[i] \in Rows /\ page[i].status \in Waiting
      BY SeenRow DEF Due
    <3>2. page'[i] = [page[i] EXCEPT !.status = "working", !.attempts = @ + 1, !.wait = StaleWork]
      BY <2>1, <3>1 DEF Claimed
    <3>3. /\ page'[i].url = page[i].url /\ page'[i].copy = page[i].copy
          /\ page'[i].status = "working"
      BY <3>1, <3>2 DEF Rows
    <3>4. page'[i] \in Rows
      BY <2>1, <3>1, ClaimedRow
    <3> QED BY <3>1, <3>3, <3>4, RowSeen DEF StateOf, Waiting
  <2> QED BY <2>2 DEF Seen
<1>2. ASSUME NEW j \in Running, Finish(j)
      PROVE  [Queue!Next]_Seen
  <2>1. CASE ~Matches(j)
    <3>1. page' = page
      BY <2>1, <1>2 DEF Finish, Store
    <3> QED BY <3>1 DEF Seen, View
  <2>2. CASE Matches(j)
    <3>1. PICK row \in Outcomes(j) : page' = [page EXCEPT ![j.id] = row]
      BY <2>2, <1>2 DEF Finish, Store
    <3>2. j.id \in Ids /\ page[j.id] # NoPage /\ page[j.id] \in Rows /\ j.url = page[j.id].url
      BY <2>2, SeenRow DEF Matches, IInv, TypeOK, Running, Jobs
    <3>3. row \in Rows /\ row.url = page[j.id].url
      BY <2>2, OutcomeRow
    <3>4. /\ row.copy \in {page[j.id].copy, [of |-> page[j.id].url, sent |-> FALSE]}
          /\ row.status \in Waiting => row.copy = page[j.id].copy
      BY <3>2 DEF Outcomes, Failed, Ready, Skipped, GivenUp, Retried, Rows, Waiting
    <3> QED BY <3>1, <3>2, <3>3, <3>4, RowGoesOn
  <2> QED BY <2>1, <2>2
<1>3. ASSUME page' = page
      PROVE  [Queue!Next]_Seen
  BY <1>3 DEF Seen, View
<1>4. ASSUME Tick
      PROVE  [Queue!Next]_Seen
  <2>1. page' = [i \in Ids |-> IF page[i] # NoPage /\ page[i].status \in Waiting
                     THEN [page[i] EXCEPT !.wait = Later(@)] ELSE page[i]]
    BY <1>4 DEF Tick
  <2>2. \A i \in Ids : View(page'[i]) = View(page[i])
    <3> SUFFICES ASSUME NEW i \in Ids, page[i] # NoPage
                 PROVE  View(page'[i]) = View(page[i])
      BY <2>1
    <3>1. page[i] \in Rows
      BY SeenRow
    <3>2. page'[i].url = page[i].url /\ page'[i].copy = page[i].copy /\ page'[i].status = page[i].status
      BY <2>1, <3>1 DEF Rows
    <3>3. page'[i] \in Rows
      <4>1. \A n \in Nat : Later(n) \in Nat
        BY DEF Later
      <4> QED BY <2>1, <3>1, <4>1 DEF Rows
    <3> QED BY <3>1, <3>2, <3>3, RowSeen DEF StateOf
  <2> QED BY <2>2 DEF Seen
<1>5. ASSUME Start
      PROVE  [Queue!Next]_Seen
  <2>1. \A i \in Ids : page'[i] = IF i \in Missing THEN Fresh(item[i]) ELSE page[i]
    BY <1>5 DEF Start
  <2>2. \A i \in Ids : \/ page'[i] = page[i]
                      \/ /\ page[i] = NoPage
                         /\ \E u, of \in Urls : View(page'[i]) \in {Queue!New(u), Queue!Sent(u, of)}
    BY <2>1, FreshSeen DEF Missing
  <2> QED BY <2>2, RowsAppear
<1> QED BY <1>1, <1>2, <1>3, <1>4, <1>5 DEF LoseResult, Stop, BeginLoop, ResetFails

\* Every step of the queue in the code is a step of PageQueue, or none.
LEMMA StepSeen ==
    ASSUME IInv, IInv', [Next]_vars
    PROVE  [Queue!Next]_Seen
<1>1. CASE UNCHANGED vars
  BY <1>1 DEF vars, Seen, View
<1>2. CASE Next
  BY <1>2, UserSeen, WorkerSeen DEF Next
<1> QED BY <1>1, <1>2

\* The queue's rows, seen without attempts, leases and times, do what PageQueue allows,
\* whatever is late, lost or interrupted.
THEOREM QueueIsImplemented == Spec => ImplementsPageQueue
<1>1. [](IInv) /\ [][Next]_vars => [][Queue!Next]_Seen
  BY StepSeen, PTL
<1>2. Queue!Spec <=> Queue!Init /\ [][Queue!Next]_Seen
  BY DEF Queue!Spec, Seen
<1> QED BY <1>1, <1>2, Invariance, InitSeen, PTL DEF Spec, ImplementsPageQueue

-----------------------------------------------------------------------------
(* Who may sign in: proofs about SignIn, for any people, providers and      *)
(* requests under way at once.                                              *)

\* What can be said of a request by its kind; a change has the lock once it is checked.
Kept ==
    \A r \in Requests : req[r] # NoRequest =>
        /\ (req[r].kind \in Changing /\ req[r].step # "begun") => lock = r
        /\ req[r].kind = "add" => req[r].step # "checked"
        /\ req[r].kind = "sign in" => req[r].step = "begun" /\ req[r].chosen \in Providers
        /\ req[r].kind = "server" => req[r].id \in ServerKeys
        /\ req[r].kind = "remove" => req[r].id \in ProviderIds
        /\ req[r].kind = "change" => req[r].id \in ProviderIds /\ req[r].id <= last

\* A provider of the table is the one its id was given to, wherever it is known.
BornOnce(provider) == provider.key \in ProviderIds => provider.born = provider.key
TableBornOnce(table) == \A i \in ProviderIds : table[i] # NoRow => table[i].born = i
IdsAreGivenOnce ==
    /\ last = births
    /\ TableBornOnce(rows) /\ \A i \in Saved : i <= last
    /\ \A provider \in snapshot : BornOnce(provider)
    /\ \A r \in Requests : req[r] # NoRequest =>
        /\ TableBornOnce(req[r].table)
        /\ req[r].kind = "sign in" => BornOnce(req[r].chosen)
    /\ \A p \in People : BornOnce(came[p])

\* Rows only become readable, so that a reload knows all that aren't, however old.
UnreadableAreKnown ==
    /\ Unreadable(rows) \subseteq unreadable
    /\ \A r \in Requests : req[r] # NoRequest /\ req[r].step = "rows" => Unreadable(rows) \subseteq Unreadable(req[r].table)

\* Until an added provider's reload crosses another's, one reload at a time goes on, and what
\* it has read so far is what the database says.
SwitchesAreTheDatabase == sso = settings.sso /\ off = settings.off
CopyIsTheDatabase ==
    /\ SwitchesAreTheDatabase /\ listed = settings.listed
    /\ unreadable = Unreadable(rows) /\ snapshot = Snapshot(settings.off, settings.sso, rows)
ReloadIsTheDatabase(q) ==
    /\ q.step \in {"values", "rows"} => q.values = settings
    /\ q.step = "rows" => q.table = rows
    /\ (q.step = "rows" \/ q.kind = "add") => SwitchesAreTheDatabase
OneReload ==
    ~crossed =>
        /\ \A r, o \in Requests : Reloading(r) /\ Reloading(o) => r = o
        /\ (\A r \in Requests : ~Reloading(r)) => CopyIsTheDatabase
        /\ \A r \in Requests : Reloading(r) => ReloadIsTheDatabase(req[r])

\* What was checked leaves a way in once it is written.
WayIn(values, table) ==
    \/ PasswordLogin
    \/ /\ values.sso
       /\ \/ ServerKeys \ values.off # {}
          \/ \E i \in ProviderIds : table[i] # NoRow /\ table[i].on /\ table[i].readable
WritesLeaveAWay ==
    ~misled =>
        /\ WayIn(settings, rows)
        /\ \A r \in Requests :
              /\ req[r] # NoRequest /\ req[r].step = "checked"
              /\ req[r].kind = "change" => req[r].id \in Saved
              => WayIn(SettingsAfter(req[r]), RowsAfter(req[r]))

SignInInv == SignInTypeOK /\ Kept /\ IdsAreGivenOnce /\ UnreadableAreKnown /\ OneReload /\ WritesLeaveAWay

-----------------------------------------------------------------------------
\* What each step makes of a request.
LEMMA PassedType ==
    ASSUME NEW q \in Requested, SignInTypeOK, q.kind = "server" => q.id \in ServerKeys
    PROVE  /\ Passed(q) \in Requested
           /\ Passed(q).step = "checked" /\ Passed(q).kind = q.kind /\ Passed(q).id = q.id
           /\ Passed(q).table = q.table /\ Passed(q).field = q.field /\ Passed(q).value = q.value
           /\ Passed(q).list = q.list
           /\ q.kind = "server" => Passed(q).off = ServerOff(q)
  BY DEF Requested, Passed, ServerOff, SignInTypeOK, Steps

LEMMA WrittenType ==
    ASSUME NEW q \in Requested
    PROVE  /\ Written(q) \in Requested
           /\ Written(q).step = "written" /\ Written(q).kind = q.kind /\ Written(q).id = q.id
           /\ Written(q).table = q.table
  BY DEF Requested, Written, Steps

LEMMA SettingsType ==
    ASSUME NEW q \in Requested, SignInTypeOK
    PROVE  /\ WithSettings(q) \in Requested
           /\ WithSettings(q).step = "values" /\ WithSettings(q).kind = q.kind /\ WithSettings(q).id = q.id
           /\ WithSettings(q).table = q.table /\ WithSettings(q).values = settings
  BY DEF Requested, WithSettings, Steps, SignInTypeOK

LEMMA RowsType ==
    ASSUME NEW q \in Requested, SignInTypeOK
    PROVE  /\ WithRows(q) \in Requested
           /\ WithRows(q).step = "rows" /\ WithRows(q).kind = q.kind /\ WithRows(q).id = q.id
           /\ WithRows(q).table = rows /\ WithRows(q).values = q.values
  BY DEF Requested, WithRows, Steps, SignInTypeOK

\* What is asked for knows nothing yet.
NewRequest(q) ==
    /\ q \in Requested /\ q.step = "begun"
    /\ TableBornOnce(q.table)
    /\ q.kind = "sign in" => q.chosen \in Providers /\ BornOnce(q.chosen)
    /\ q.kind = "server" => q.id \in ServerKeys
    /\ q.kind = "remove" => q.id \in ProviderIds
    /\ q.kind = "change" => q.id \in ProviderIds /\ q.id <= last

LEMMA RequestType ==
    ASSUME SignInTypeOK, NEW k \in Changing \cup {"add", "sign in"}, NEW p \in People
    PROVE  /\ Request(k, p) \in Requested
           /\ Request(k, p).step = "begun" /\ Request(k, p).kind = k /\ TableBornOnce(Request(k, p).table)
<1>1. came[p].key \in Keys \cup {NoKey}
  BY DEF SignInTypeOK
<1> QED BY <1>1 DEF Requested, Request, Steps, Tables, Settings, TableBornOnce

\* Whatever is asked for, it is a new request of an idle slot.
AskedBy(r, q) ==
    /\ req[r] = NoRequest /\ req' = [req EXCEPT ![r] = q]
    /\ Event /\ UNCHANGED <<database, memory, lock, came, misled, crossed>>

LEMMA Asking ==
    ASSUME SignInInv, NEW r \in Requests, Asks(r)
    PROVE  \E q \in Requested : NewRequest(q) /\ AskedBy(r, q)
<1> USE SignInParameters DEF SignInInv
<1>1. PICK p \in Admins :
        \/ \E i \in ProviderIds : AskRemove(r, p, i) \/ \E f \in {"on", "trust", "secret", "issuer"}, v \in BOOLEAN : AskChange(r, p, i, f, v)
        \/ \E people \in SUBSET People : AskList(r, p, people)
        \/ \E v \in BOOLEAN : AskSwitch(r, p, v) \/ AskAdd(r, p, v) \/ \E k \in ServerKeys : AskServer(r, p, k, v)
  BY DEF Asks
<1>2. p \in People
  OBVIOUS
<1>3. ASSUME NEW i \in ProviderIds, AskRemove(r, p, i) PROVE \E q \in Requested : NewRequest(q) /\ AskedBy(r, q)
  <2>0. PICK old : old = Request("remove", p)
    OBVIOUS
  <2>a. old \in Requested /\ old.step = "begun" /\ old.kind = "remove" /\ TableBornOnce(old.table)
    BY <1>2, <2>0, RequestType DEF Changing
  <2> DEFINE q == [old EXCEPT !.id = i]
  <2>b. q \in Requested /\ q.step = "begun" /\ q.kind = "remove" /\ q.table = old.table /\ q.id = i
    BY <2>a DEF Requested, Keys
  <2>1. NewRequest(q)
    BY <2>a, <2>b DEF NewRequest
  <2> QED BY <2>0, <2>b, <2>1, <1>3 DEF AskRemove, Ask, AskedBy, NewRequest
<1>4. ASSUME NEW i \in ProviderIds, NEW f \in {"on", "trust", "secret", "issuer"}, NEW v \in BOOLEAN, AskChange(r, p, i, f, v)
      PROVE \E q \in Requested : NewRequest(q) /\ AskedBy(r, q)
  <2>0. PICK old : old = Request("change", p)
    OBVIOUS
  <2>a. old \in Requested /\ old.step = "begun" /\ old.kind = "change" /\ TableBornOnce(old.table)
    BY <1>2, <2>0, RequestType DEF Changing
  <2> DEFINE q == [old EXCEPT !.id = i, !.field = f, !.value = v]
  <2>1. i <= last
    BY <1>4 DEF AskChange, IdsAreGivenOnce
  <2>b. q \in Requested /\ q.step = "begun" /\ q.kind = "change" /\ q.table = old.table /\ q.id = i
    BY <2>a DEF Requested, Keys
  <2>2. NewRequest(q)
    BY <2>a, <2>b, <2>1 DEF NewRequest
  <2> QED BY <2>0, <2>b, <2>2, <1>4 DEF AskChange, Ask, AskedBy, NewRequest
<1>5. ASSUME NEW people \in SUBSET People, AskList(r, p, people) PROVE \E q \in Requested : NewRequest(q) /\ AskedBy(r, q)
  <2>0. PICK old : old = Request("list", p)
    OBVIOUS
  <2>a. old \in Requested /\ old.step = "begun" /\ old.kind = "list" /\ TableBornOnce(old.table)
    BY <1>2, <2>0, RequestType DEF Changing
  <2> DEFINE q == [old EXCEPT !.list = people]
  <2>b. q \in Requested /\ q.step = "begun" /\ q.kind = "list" /\ q.table = old.table
    BY <2>a DEF Requested, Keys
  <2>1. NewRequest(q)
    BY <2>a, <2>b DEF NewRequest
  <2> QED BY <2>0, <2>b, <2>1, <1>5 DEF AskList, Ask, AskedBy, NewRequest
<1>6. ASSUME NEW v \in BOOLEAN, AskSwitch(r, p, v) PROVE \E q \in Requested : NewRequest(q) /\ AskedBy(r, q)
  <2>0. PICK old : old = Request("switch", p)
    OBVIOUS
  <2>a. old \in Requested /\ old.step = "begun" /\ old.kind = "switch" /\ TableBornOnce(old.table)
    BY <1>2, <2>0, RequestType DEF Changing
  <2> DEFINE q == [old EXCEPT !.value = v]
  <2>b. q \in Requested /\ q.step = "begun" /\ q.kind = "switch" /\ q.table = old.table
    BY <2>a DEF Requested, Keys
  <2>1. NewRequest(q)
    BY <2>a, <2>b DEF NewRequest
  <2> QED BY <2>0, <2>b, <2>1, <1>6 DEF AskSwitch, Ask, AskedBy, NewRequest
<1>7. ASSUME NEW v \in BOOLEAN, AskAdd(r, p, v) PROVE \E q \in Requested : NewRequest(q) /\ AskedBy(r, q)
  <2>0. PICK old : old = Request("add", p)
    OBVIOUS
  <2>a. old \in Requested /\ old.step = "begun" /\ old.kind = "add" /\ TableBornOnce(old.table)
    BY <1>2, <2>0, RequestType DEF Changing
  <2> DEFINE q == [old EXCEPT !.value = v]
  <2>b. q \in Requested /\ q.step = "begun" /\ q.kind = "add" /\ q.table = old.table
    BY <2>a DEF Requested, Keys
  <2>1. NewRequest(q)
    BY <2>a, <2>b DEF NewRequest
  <2> QED BY <2>0, <2>b, <2>1, <1>7 DEF AskAdd, Ask, AskedBy, NewRequest
<1>8. ASSUME NEW v \in BOOLEAN, NEW k \in ServerKeys, AskServer(r, p, k, v)
      PROVE \E q \in Requested : NewRequest(q) /\ AskedBy(r, q)
  <2>0. PICK old : old = Request("server", p)
    OBVIOUS
  <2>a. old \in Requested /\ old.step = "begun" /\ old.kind = "server" /\ TableBornOnce(old.table)
    BY <1>2, <2>0, RequestType DEF Changing
  <2> DEFINE q == [old EXCEPT !.id = k, !.value = v]
  <2>b. q \in Requested /\ q.step = "begun" /\ q.kind = "server" /\ q.table = old.table /\ q.id = k
    BY <2>a DEF Requested, Keys
  <2>1. NewRequest(q)
    BY <2>a, <2>b DEF NewRequest
  <2> QED BY <2>0, <2>b, <2>1, <1>8 DEF AskServer, Ask, AskedBy, NewRequest
<1> QED BY <1>1, <1>3, <1>4, <1>5, <1>6, <1>7, <1>8

LEMMA ComingBack ==
    ASSUME SignInInv, NEW r \in Requests, NEW p \in People, NEW provider \in snapshot, ComeBack(r, p, provider)
    PROVE  \E q \in Requested : NewRequest(q) /\ AskedBy(r, q)
<1> USE DEF SignInInv
<1>0. PICK old : old = Request("sign in", p)
  OBVIOUS
<1>a. old \in Requested /\ old.step = "begun" /\ old.kind = "sign in" /\ TableBornOnce(old.table)
  BY <1>0, RequestType DEF Changing
<1> DEFINE q == [old EXCEPT !.key = NoKey, !.chosen = provider]
<1>1. provider \in Providers /\ BornOnce(provider)
  BY DEF SignInTypeOK, IdsAreGivenOnce
<1>b. q \in Requested /\ q.step = "begun" /\ q.kind = "sign in" /\ q.table = old.table /\ q.chosen = provider
  BY <1>1, <1>a DEF Requested
<1>2. NewRequest(q)
  BY <1>1, <1>a, <1>b DEF NewRequest
<1> QED BY <1>0, <1>b, <1>2 DEF ComeBack, AskedBy

\* A step that changes one request leaves the others as they are.
LEMMA OneRequest ==
    ASSUME SignInTypeOK, NEW r \in Requests, NEW q \in Requested \cup {NoRequest}, req' = [req EXCEPT ![r] = q]
    PROVE  /\ req' \in [Requests -> Requested \cup {NoRequest}]
           /\ req'[r] = q /\ \A o \in Requests \ {r} : req'[o] = req[o]
  BY DEF SignInTypeOK

\* The copy and the reload under way are as true as they were.
LEMMA OneReloadKept ==
    ASSUME OneReload, UNCHANGED <<database, memory, crossed>>,
           \A o \in Requests : (Reloading(o)' <=> Reloading(o)) /\ (Reloading(o) => req'[o] = req[o])
    PROVE  OneReload'
<1>1. CopyIsTheDatabase' <=> CopyIsTheDatabase
  BY DEF CopyIsTheDatabase, SwitchesAreTheDatabase, Unreadable, Snapshot, OnServer, FromTable, database, memory
<1>2. \A o \in Requests : Reloading(o) => (ReloadIsTheDatabase(req[o])' <=> ReloadIsTheDatabase(req[o]))
  BY DEF ReloadIsTheDatabase, SwitchesAreTheDatabase, database, memory
<1> QED BY <1>1, <1>2 DEF OneReload

\* What was checked and is not written yet still leaves a way in.
LEMMA WayInKept ==
    ASSUME WritesLeaveAWay, UNCHANGED <<rows, settings, misled>>,
           \A o \in Requests : req'[o] # NoRequest /\ req'[o].step = "checked" => req'[o] = req[o]
    PROVE  WritesLeaveAWay'
<1>1. WayIn(settings, rows)' <=> WayIn(settings, rows)
  BY DEF WayIn
<1>2. SUFFICES ASSUME ~misled, NEW o \in Requests, req'[o] # NoRequest, req'[o].step = "checked", req'[o] = req[o],
                      req[o].kind = "change" => req[o].id \in Saved
               PROVE  WayIn(SettingsAfter(req[o]), RowsAfter(req[o]))'
  BY <1>1 DEF WritesLeaveAWay, Saved
<1>3. WayIn(SettingsAfter(req[o]), RowsAfter(req[o]))
  BY <1>2 DEF WritesLeaveAWay
<1> QED BY <1>2, <1>3 DEF WayIn, SettingsAfter, RowsAfter

-----------------------------------------------------------------------------
\* The copy that a reload makes.
LEMMA SnapshotType ==
    ASSUME NEW turnedOff \in SUBSET ServerKeys, NEW on \in BOOLEAN, NEW t \in Tables
    PROVE  /\ Snapshot(turnedOff, on, t) \subseteq Providers
           /\ TableBornOnce(t) => \A provider \in Snapshot(turnedOff, on, t) : BornOnce(provider)
<1> USE SignInParameters
<1>1. OnServer(turnedOff, on) \subseteq Providers
  <2> SUFFICES ASSUME NEW k \in ServerKeys
               PROVE  [key |-> k, shown |-> k \notin turnedOff /\ on, trust |-> FALSE, born |-> 0] \in Providers
    BY DEF OnServer
  <2>1. PICK b \in BOOLEAN : b = (k \notin turnedOff /\ on)
    OBVIOUS
  <2>2. [key |-> k, shown |-> b, trust |-> FALSE, born |-> 0] \in Providers
    BY DEF Providers, Keys
  <2> QED BY <2>1, <2>2, Zenon
<1>2. FromTable(t, on) \subseteq Providers
  BY DEF FromTable, Providers, Keys, Tables, ProviderRows, ProviderIds
<1>3. \A provider \in OnServer(turnedOff, on) : BornOnce(provider)
  BY DEF OnServer, BornOnce, ProviderIds
<1>4. TableBornOnce(t) => \A provider \in FromTable(t, on) : BornOnce(provider)
  BY DEF FromTable, BornOnce, TableBornOnce
<1> QED BY <1>1, <1>2, <1>3, <1>4 DEF Snapshot

LEMMA SignInInitially == SignInInit => SignInInv
<1> SUFFICES ASSUME SignInInit PROVE SignInInv
  OBVIOUS
<1> USE SignInParameters, SignInDistinct
<1>0. PICK a \in BOOLEAN, b \in BOOLEAN, c \in BOOLEAN : rows = [i \in ProviderIds |-> IF i = 1 THEN Row(a, b, c) ELSE NoRow]
  BY DEF SignInInit
<1>1. Row(a, b, c) \in ProviderRows /\ Row(a, b, c).born = 1 /\ Row(a, b, c).on = a /\ Row(a, b, c).readable = c
  BY DEF Row, ProviderRows, ProviderIds
<1>2. rows \in Tables
  BY <1>0, <1>1 DEF Tables
<1>3. \A r \in Requests : req[r] = NoRequest
  BY DEF SignInInit
<1>4. snapshot = Snapshot(settings.off, settings.sso, rows) /\ settings \in Settings
  BY DEF SignInInit, Settings
<1>5. /\ snapshot \subseteq Providers
      /\ TableBornOnce(rows) => \A provider \in snapshot : BornOnce(provider)
  BY <1>2, <1>4, SnapshotType DEF Settings
<1>6. came \in [People -> [key : Keys \cup {NoKey}, born : 0..MaxProviders]]
  <2>1. 1 \in Keys /\ 0 \in 0..MaxProviders /\ 1 \in 0..MaxProviders
    BY DEF Keys, ProviderIds
  <2> QED BY <2>1 DEF SignInInit
<1>7. SignInTypeOK
  <2>1. last \in ProviderIds /\ births \in ProviderIds /\ events \in 0..MaxEvents
    BY DEF SignInInit, ProviderIds
  <2>2. sso \in BOOLEAN /\ off \subseteq ServerKeys /\ listed \subseteq People /\ unreadable \subseteq ProviderIds
    BY <1>4 DEF SignInInit, Settings, Unreadable
  <2>3. req \in [Requests -> Requested \cup {NoRequest}] /\ lock \in Requests \cup {NoRequest}
    BY DEF SignInInit
  <2>4. misled \in BOOLEAN /\ crossed \in BOOLEAN
    BY DEF SignInInit
  <2> QED BY <1>2, <1>4, <1>5, <1>6, <2>1, <2>2, <2>3, <2>4 DEF SignInTypeOK
<1>8. Kept
  BY <1>3 DEF Kept
<1>9. TableBornOnce(rows)
  BY <1>0, <1>1 DEF TableBornOnce
<1>10. \A provider \in snapshot : BornOnce(provider)
  BY <1>5, <1>9
<1>11. \A p \in People : BornOnce(came[p])
  <2> TAKE p \in People
  <2>1. came[p] \in {[key |-> NoKey, born |-> 0], [key |-> 1, born |-> 1]}
    BY DEF SignInInit
  <2> QED BY <2>1 DEF BornOnce, Keys
<1>12. last = births /\ \A i \in Saved : i <= last
  BY <1>0 DEF SignInInit, Saved, ProviderIds
<1>13. IdsAreGivenOnce
  BY <1>3, <1>9, <1>10, <1>11, <1>12 DEF IdsAreGivenOnce
<1>14. UnreadableAreKnown
  BY <1>3 DEF UnreadableAreKnown, SignInInit
<1>15. OneReload
  BY <1>3 DEF OneReload, Reloading, CopyIsTheDatabase, SwitchesAreTheDatabase, SignInInit, Snapshot
<1>16. WritesLeaveAWay
  <2>1. settings.sso
    BY DEF SignInInit
  <2>2. PasswordLogin \/ ServerKeys \ settings.off # {} \/ (rows[1].on /\ rows[1].readable)
    BY DEF SignInInit
  <2>3. 1 \in ProviderIds /\ rows[1] # NoRow
    BY <1>0, <1>1 DEF ProviderIds
  <2> QED BY <1>3, <2>1, <2>2, <2>3 DEF WritesLeaveAWay, WayIn
<1> QED BY <1>7, <1>8, <1>13, <1>14, <1>15, <1>16 DEF SignInInv

\* Something is asked for, or somebody comes back from a provider.
LEMMA AskStep ==
    ASSUME SignInInv, NEW r \in Requests, NEW q \in Requested, NewRequest(q), AskedBy(r, q)
    PROVE  SignInInv'
<1> USE SignInParameters, SignInDistinct DEF SignInInv, AskedBy, database, memory
<1>0. /\ req' \in [Requests -> Requested \cup {NoRequest}]
      /\ req'[r] = q /\ \A o \in Requests \ {r} : req'[o] = req[o]
  BY OneRequest
<1>1. q.step = "begun" /\ q # NoRequest
  BY DEF NewRequest
<1>2. SignInTypeOK'
  BY <1>0 DEF SignInTypeOK, Event
<1>3. Kept'
  BY <1>0, <1>1 DEF Kept, NewRequest
<1>4. IdsAreGivenOnce'
  BY <1>0, <1>1 DEF IdsAreGivenOnce, NewRequest, Saved, BornOnce, TableBornOnce
<1>5. UnreadableAreKnown'
  BY <1>0, <1>1 DEF UnreadableAreKnown, Unreadable
<1>6. \A o \in Requests : (Reloading(o)' <=> Reloading(o)) /\ (Reloading(o) => req'[o] = req[o])
  BY <1>0, <1>1 DEF Reloading
<1>7. OneReload'
  BY <1>6, OneReloadKept
<1>8. WritesLeaveAWay'
  BY <1>0, <1>1, WayInKept
<1> QED BY <1>2, <1>3, <1>4, <1>5, <1>7, <1>8

\* A request ends without having written anything.
LEMMA EndStep ==
    ASSUME SignInInv, NEW r \in Requests, req[r] # NoRequest, req[r].step \in {"begun", "checked"},
           req' = [req EXCEPT ![r] = NoRequest], SignInTypeOK',
           lock' = lock \/ lock = r, misled => misled',
           \A p \in People : BornOnce(came[p])',
           UNCHANGED <<database, memory, crossed>>
    PROVE  SignInInv'
<1> USE SignInParameters, SignInDistinct DEF SignInInv, database, memory
<1>0. req'[r] = NoRequest /\ \A o \in Requests \ {r} : req'[o] = req[o]
  BY OneRequest
<1>3. Kept'
  BY <1>0 DEF Kept
<1>4. IdsAreGivenOnce'
  <2>1. TableBornOnce(rows)' /\ last' = births' /\ \A i \in Saved' : i <= last'
    BY DEF IdsAreGivenOnce, TableBornOnce, Saved
  <2>2. \A provider \in snapshot' : BornOnce(provider)
    BY DEF IdsAreGivenOnce
  <2>3. \A o \in Requests : req'[o] # NoRequest => req'[o] = req[o]
    BY <1>0
  <2>4. \A o \in Requests : req'[o] # NoRequest =>
           TableBornOnce(req'[o].table) /\ (req'[o].kind = "sign in" => BornOnce(req'[o].chosen))
    BY <2>3 DEF IdsAreGivenOnce
  <2> QED BY <2>1, <2>2, <2>4 DEF IdsAreGivenOnce, TableBornOnce, BornOnce
<1>5. UnreadableAreKnown'
  BY <1>0 DEF UnreadableAreKnown, Unreadable
<1>6. \A o \in Requests : (Reloading(o)' <=> Reloading(o)) /\ (Reloading(o) => req'[o] = req[o])
  BY <1>0 DEF Reloading
<1>7. OneReload'
  BY <1>6, OneReloadKept
<1>8. WritesLeaveAWay'
  <2>1. CASE misled'
    BY <2>1 DEF WritesLeaveAWay
  <2>2. CASE ~misled'
    <3>1. misled' = misled
      BY <2>2 DEF SignInTypeOK
    <3> QED BY <1>0, <3>1, WayInKept
  <2> QED BY <2>1, <2>2
<1> QED BY <1>3, <1>4, <1>5, <1>7, <1>8

\* What has the lock has been checked, or more.
LEMMA CheckedKind ==
    ASSUME SignInTypeOK, Kept, NEW r \in Requests, req[r] # NoRequest, req[r].step = "checked"
    PROVE  req[r].kind \in Changing /\ lock = r
<1>1. req[r].kind \in Changing \cup {"add", "sign in"}
  BY DEF SignInTypeOK, Requested
<1> QED BY <1>1 DEF Kept

LEMMA VanishedStep ==
    ASSUME SignInInv, NEW r \in Requests, Vanished(r)
    PROVE  SignInInv'
<1> USE DEF SignInInv
<1>1. lock = r
  BY CheckedKind DEF Vanished
<1>2. SignInTypeOK'
  <2>1. req' \in [Requests -> Requested \cup {NoRequest}]
    BY OneRequest DEF Vanished
  <2> QED BY <2>1 DEF Vanished, SignInTypeOK, database, memory
<1>3. \A p \in People : BornOnce(came[p])'
  BY DEF Vanished, IdsAreGivenOnce, BornOnce
<1> QED BY <1>1, <1>2, <1>3, EndStep DEF Vanished

LEMMA RefusedStep ==
    ASSUME SignInInv, NEW r \in Requests, Check(r), ~MayGoAhead(req[r])
    PROVE  SignInInv'
<1> USE DEF SignInInv
<1>1. /\ req[r] # NoRequest /\ req[r].step = "begun" /\ req' = [req EXCEPT ![r] = NoRequest]
      /\ UNCHANGED <<lock, database, memory, came, events, crossed>>
  BY DEF Check
<1>2. misled' = (misled \/ (crossed /\ <<sso, off>> # <<settings.sso, settings.off>>))
  BY DEF Check
<1>3. misled' \in BOOLEAN /\ (misled => misled')
  BY <1>2
<1>4. SignInTypeOK'
  <2>1. req' \in [Requests -> Requested \cup {NoRequest}]
    BY <1>1, OneRequest
  <2> QED BY <1>1, <1>3, <2>1 DEF SignInTypeOK, database, memory
<1>5. \A p \in People : BornOnce(came[p])'
  BY <1>1 DEF IdsAreGivenOnce, BornOnce
<1> QED BY <1>1, <1>3, <1>4, <1>5, EndStep

LEMMA LetInStep ==
    ASSUME SignInInv, NEW r \in Requests, LetIn(r)
    PROVE  SignInInv'
<1> USE DEF SignInInv
<1>1. PICK q \in Requested : q = req[r] /\ q.kind = "sign in" /\ q.step = "begun" /\ q.chosen \in Providers /\ BornOnce(q.chosen)
  BY DEF LetIn, SignInTypeOK, Kept, IdsAreGivenOnce
<1>2. PICK now : now = [key |-> q.chosen.key, born |-> q.chosen.born]
  OBVIOUS
<1>3. now \in [key : Keys \cup {NoKey}, born : 0..MaxProviders] /\ BornOnce(now)
  BY <1>1, <1>2 DEF Providers, BornOnce
<1>4. q.by \in People /\ (came' = [came EXCEPT ![q.by] = now] \/ UNCHANGED came)
  BY <1>1, <1>2 DEF LetIn, Requested
<1>5. \A p \in People : BornOnce(came[p])'
  BY <1>3, <1>4 DEF IdsAreGivenOnce, BornOnce, SignInTypeOK
<1>6. SignInTypeOK'
  <2>1. req' \in [Requests -> Requested \cup {NoRequest}]
    BY OneRequest DEF LetIn
  <2>2. came' \in [People -> [key : Keys \cup {NoKey}, born : 0..MaxProviders]]
    BY <1>3, <1>4 DEF SignInTypeOK
  <2> QED BY <2>1, <2>2 DEF LetIn, SignInTypeOK, database, memory
<1> QED BY <1>1, <1>5, <1>6, EndStep DEF LetIn

\* Switches are checked as the database has them, or the check is known to be misled.
LEMMA SwitchesChecked ==
    ASSUME SignInInv, NEW r \in Requests, Check(r), ~misled'
    PROVE  ~misled /\ SwitchesAreTheDatabase
<1> USE DEF SignInInv
<1>1. misled' = (misled \/ (crossed /\ <<sso, off>> # <<settings.sso, settings.off>>))
  BY DEF Check
<1>2. lock = NoRequest
  BY DEF Check, TakesLock
<1>3. ASSUME ~crossed PROVE SwitchesAreTheDatabase
  <2>1. CASE \A o \in Requests : ~Reloading(o)
    BY <1>3, <2>1 DEF OneReload, CopyIsTheDatabase
  <2>2. ASSUME NEW o \in Requests, Reloading(o) PROVE SwitchesAreTheDatabase
    <3>1. req[o].kind \in Changing \cup {"add", "sign in"}
      BY <2>2 DEF SignInTypeOK, Requested, Reloading
    <3>2. req[o].kind = "add"
      BY <1>2, <2>2, <3>1, SignInDistinct DEF Kept, Reloading
    <3> QED BY <1>3, <2>2, <3>2 DEF OneReload, ReloadIsTheDatabase
  <2> QED BY <2>1, <2>2
<1> QED BY <1>1, <1>3 DEF SwitchesAreTheDatabase

\* The ways in that a check counts are there.
LEMMA WaysAreThere ==
    ASSUME SignInInv, NEW on \in BOOLEAN, NEW turnedOff \in SUBSET ServerKeys, NEW without \in SUBSET ProviderIds,
           WaysInLeft(on, turnedOff, without)
    PROVE  \/ PasswordLogin
           \/ on /\ \/ ServerKeys \ turnedOff # {}
                    \/ \E i \in Saved \ without : rows[i].on /\ rows[i].readable
  BY DEF SignInInv, WaysInLeft, UnreadableAreKnown, Unreadable, Saved

LEMMA ChangedRow ==
    ASSUME NEW row \in ProviderRows, NEW q \in Requested
    PROVE  /\ Changed(row, q) \in ProviderRows /\ Changed(row, q).born = row.born
           /\ row.on /\ (q.field = "on" => q.value) => Changed(row, q).on
           /\ row.readable => Changed(row, q).readable
<1>1. PICK a \in BOOLEAN : a = IF q.field = "on" THEN q.value ELSE row.on
  BY DEF Requested, ProviderRows
<1>2. PICK b \in BOOLEAN : b = IF q.field = "trust" THEN q.value ELSE row.trust
  BY DEF Requested, ProviderRows
<1>3. PICK c \in BOOLEAN : c = (row.readable \/ q.field = "secret")
  OBVIOUS
<1>4. PICK new : new = [on |-> a, trust |-> b, readable |-> c, born |-> row.born]
  OBVIOUS
<1>5. new \in ProviderRows /\ new.born = row.born
  BY <1>4 DEF ProviderRows
<1>6. new.on = a /\ new.readable = c
  BY <1>4, Zenon
<1>7. Changed(row, q) = new
  BY <1>1, <1>2, <1>3, <1>4, Zenon DEF Changed
<1> QED BY <1>1, <1>3, <1>5, <1>6, <1>7

LEMMA ChecksLeaveAWay ==
    ASSUME SignInInv, NEW r \in Requests, Check(r), ~misled', MayGoAhead(req[r]),
           req[r].kind = "change" => req[r].id \in Saved
    PROVE  WayIn(SettingsAfter(Passed(req[r])), RowsAfter(Passed(req[r])))
<1> USE DEF SignInInv
<1>0. ~misled /\ SwitchesAreTheDatabase /\ WayIn(settings, rows)
  BY SwitchesChecked DEF WritesLeaveAWay
<1>1. PICK q \in Requested : q = req[r] /\ q.kind \in Changing
  BY DEF Check, SignInTypeOK
<1>2. q.kind = "server" => q.id \in ServerKeys
  BY <1>1 DEF Check, Kept
<1>3. PICK p \in Requested : p = Passed(q) /\ p.kind = q.kind /\ p.id = q.id /\ p.field = q.field /\ p.value = q.value
                             /\ p.list = q.list /\ (q.kind = "server" => p.off = ServerOff(q))
  BY <1>2, PassedType
<1>4. WayIn(SettingsAfter(p), RowsAfter(p))
  <2>1. CASE q.kind = "remove"
    <3>1. q.id \in ProviderIds /\ WaysInLeft(sso, off, {q.id})
      BY <1>1, <2>1 DEF Check, Kept, MayGoAhead
    <3>2. PasswordLogin \/ (settings.sso /\ (ServerKeys \ settings.off # {} \/ \E i \in Saved \ {q.id} : rows[i].on /\ rows[i].readable))
      BY <1>0, <3>1, WaysAreThere DEF SignInTypeOK, SwitchesAreTheDatabase
    <3>3. SettingsAfter(p).sso = settings.sso /\ SettingsAfter(p).off = settings.off
      BY <1>3, <2>1 DEF SettingsAfter, SignInTypeOK, Settings
    <3>4. RowsAfter(p) = [rows EXCEPT ![q.id] = NoRow]
      BY <1>3, <2>1 DEF RowsAfter
    <3>5. \A i \in Saved \ {q.id} : RowsAfter(p)[i] = rows[i]
      BY <3>4 DEF Saved, SignInTypeOK, Tables
    <3> QED BY <3>2, <3>3, <3>5 DEF WayIn, Saved
  <2>2. CASE q.kind = "change"
    <3>1. q.id \in ProviderIds /\ q.id \in Saved /\ rows[q.id] \in ProviderRows
      BY <1>1, <2>2 DEF Check, Kept, SignInTypeOK, Tables, Saved
    <3>2. SettingsAfter(p).sso = settings.sso /\ SettingsAfter(p).off = settings.off
      BY <1>3, <2>2 DEF SettingsAfter, SignInTypeOK, Settings
    <3>3. RowsAfter(p) = [rows EXCEPT ![q.id] = Changed(rows[q.id], p)]
      BY <1>3, <2>2 DEF RowsAfter
    <3>4. \A i \in Saved \ {q.id} : RowsAfter(p)[i] = rows[i]
      BY <3>3 DEF Saved, SignInTypeOK, Tables
    <3>5. CASE TurnsOff(q, "on")
      <4>1. PasswordLogin \/ (settings.sso /\ (ServerKeys \ settings.off # {} \/ \E i \in Saved \ {q.id} : rows[i].on /\ rows[i].readable))
        BY <1>0, <1>1, <2>2, <3>1, <3>5, WaysAreThere DEF SignInTypeOK, SwitchesAreTheDatabase, MayGoAhead
      <4> QED BY <3>2, <3>4, <4>1 DEF WayIn, Saved
    <3>6. CASE ~TurnsOff(q, "on")
      <4>1. RowsAfter(p)[q.id] = Changed(rows[q.id], p)
        BY <3>1, <3>3 DEF SignInTypeOK, Tables
      <4>2. RowsAfter(p)[q.id] # NoRow /\ (rows[q.id].on => RowsAfter(p)[q.id].on)
            /\ (rows[q.id].readable => RowsAfter(p)[q.id].readable)
        BY <1>3, <2>2, <3>1, <3>6, <4>1, ChangedRow, SignInDistinct DEF TurnsOff
      <4> QED BY <1>0, <3>1, <3>2, <3>4, <4>2 DEF WayIn, Saved
    <3> QED BY <3>5, <3>6
  <2>3. CASE q.kind = "switch"
    <3>1. RowsAfter(p) = rows /\ SettingsAfter(p).sso = q.value /\ SettingsAfter(p).off = settings.off
      BY <1>3, <2>3 DEF RowsAfter, SettingsAfter, SignInTypeOK, Settings
    <3>2. q.value \/ PasswordLogin
      BY <1>1, <2>3 DEF MayGoAhead, WaysInLeft
    <3> QED BY <1>0, <3>1, <3>2 DEF WayIn
  <2>4. CASE q.kind = "server"
    <3>1. RowsAfter(p) = rows /\ SettingsAfter(p).sso = settings.sso /\ SettingsAfter(p).off = ServerOff(q)
      BY <1>3, <2>4 DEF RowsAfter, SettingsAfter, SignInTypeOK, Settings
    <3>2. CASE q.value
      <4>1. ServerOff(q) \subseteq settings.off
        BY <1>0, <3>2 DEF ServerOff, SwitchesAreTheDatabase
      <4> QED BY <1>0, <3>1, <4>1 DEF WayIn
    <3>3. CASE ~q.value
      <4>1. ServerOff(q) \in SUBSET ServerKeys /\ WaysInLeft(sso, ServerOff(q), {})
        BY <1>1, <1>2, <2>4, <3>3 DEF ServerOff, MayGoAhead, SignInTypeOK
      <4>2. PasswordLogin \/ (settings.sso /\ (ServerKeys \ ServerOff(q) # {} \/ \E i \in Saved : rows[i].on /\ rows[i].readable))
        BY <1>0, <4>1, WaysAreThere DEF SignInTypeOK, SwitchesAreTheDatabase
      <4> QED BY <3>1, <4>2 DEF WayIn, Saved
    <3> QED BY <3>2, <3>3
  <2>5. CASE q.kind = "list"
    <3>1. RowsAfter(p) = rows /\ SettingsAfter(p).sso = settings.sso /\ SettingsAfter(p).off = settings.off
      BY <1>3, <2>5 DEF RowsAfter, SettingsAfter, SignInTypeOK, Settings
    <3> QED BY <1>0, <3>1 DEF WayIn
  <2> QED BY <1>1, <2>1, <2>2, <2>3, <2>4, <2>5 DEF Changing
<1> QED BY <1>1, <1>3, <1>4

LEMMA PassedStep ==
    ASSUME SignInInv, NEW r \in Requests, Check(r), MayGoAhead(req[r])
    PROVE  SignInInv'
<1> USE SignInParameters, SignInDistinct DEF SignInInv, database, memory
<1>1. PICK q \in Requested : q = req[r] /\ q.step = "begun" /\ q.kind \in Changing
  BY DEF Check, SignInTypeOK
<1>2. q.kind = "server" => q.id \in ServerKeys
  BY <1>1 DEF Kept
<1>3. PICK p \in Requested : p = Passed(q) /\ p.step = "checked" /\ p.kind = q.kind /\ p.id = q.id /\ p.table = q.table
  BY <1>2, PassedType
<1>4. /\ lock = NoRequest /\ lock' = r /\ req' = [req EXCEPT ![r] = p]
      /\ UNCHANGED <<database, memory, came, events, crossed>>
  BY <1>1, <1>3 DEF Check, TakesLock
<1>5. /\ req' \in [Requests -> Requested \cup {NoRequest}]
      /\ req'[r] = p /\ \A o \in Requests \ {r} : req'[o] = req[o]
  BY <1>4, OneRequest
<1>6. misled' \in BOOLEAN
  BY DEF Check
<1>7. SignInTypeOK'
  BY <1>4, <1>5, <1>6 DEF SignInTypeOK
<1>8. Kept'
  BY <1>1, <1>3, <1>4, <1>5 DEF Kept, Changing
<1>9. IdsAreGivenOnce'
  <2>1. TableBornOnce(rows)' /\ last' = births' /\ (\A i \in Saved' : i <= last') /\ \A provider \in snapshot' : BornOnce(provider)
    BY <1>4 DEF IdsAreGivenOnce, TableBornOnce, Saved
  <2>2. \A o \in Requests : req'[o] # NoRequest =>
           TableBornOnce(req'[o].table) /\ (req'[o].kind = "sign in" => BornOnce(req'[o].chosen))
    BY <1>1, <1>3, <1>5 DEF IdsAreGivenOnce, Changing
  <2>3. \A x \in People : BornOnce(came'[x])
    BY <1>4 DEF IdsAreGivenOnce
  <2> QED BY <2>1, <2>2, <2>3 DEF IdsAreGivenOnce, TableBornOnce, BornOnce
<1>10. UnreadableAreKnown'
  BY <1>3, <1>4, <1>5 DEF UnreadableAreKnown, Unreadable
<1>11. \A o \in Requests : (Reloading(o)' <=> Reloading(o)) /\ (Reloading(o) => req'[o] = req[o])
  BY <1>1, <1>3, <1>5 DEF Reloading
<1>12. OneReload'
  BY <1>4, <1>11, OneReloadKept
<1>13. WritesLeaveAWay'
  <2> SUFFICES ASSUME ~misled' PROVE WritesLeaveAWay'
    BY DEF WritesLeaveAWay
  <2>1. ~misled /\ WayIn(settings, rows)
    BY SwitchesChecked DEF WritesLeaveAWay
  <2>2. WayIn(settings, rows)'
    BY <1>4, <2>1 DEF WayIn
  <2>3. \A o \in Requests \ {r} : req[o] # NoRequest => req[o].step # "checked"
    BY <1>4, CheckedKind
  <2>4. q.kind = "change" /\ q.id \in Saved' => WayIn(SettingsAfter(p), RowsAfter(p))
    BY <1>1, <1>3, <1>4, ChecksLeaveAWay DEF Saved
  <2>5. q.kind = "change" \/ WayIn(SettingsAfter(p), RowsAfter(p))
    BY <1>1, <1>3, <1>4, ChecksLeaveAWay
  <2>6. (q.kind = "change" => q.id \in Saved') => WayIn(SettingsAfter(p), RowsAfter(p))'
    BY <1>4, <2>4, <2>5 DEF WayIn, SettingsAfter, RowsAfter
  <2> QED BY <1>3, <1>5, <2>2, <2>3, <2>6 DEF WritesLeaveAWay, Saved
<1> QED BY <1>7, <1>8, <1>9, <1>10, <1>12, <1>13

LEMMA NoLessThan ==
    ASSUME NEW a \in ProviderIds, NEW b \in ProviderIds, a <= b
    PROVE  \A i \in ProviderIds : i <= a => i <= b
  BY SignInParameters DEF ProviderIds

\* What is true of requests when one becomes p, and no id is taken back.
LEMMA RequestsKept ==
    ASSUME SignInInv, NEW r \in Requests, req[r] # NoRequest, NEW p \in Requested,
           p.kind = req[r].kind /\ p.kind # "sign in" /\ p.id = req[r].id /\ TableBornOnce(p.table),
           req' = [req EXCEPT ![r] = p], last' \in ProviderIds, last <= last',
           p.kind \in Changing => lock = r, p.kind = "add" => p.step # "checked", UNCHANGED lock
    PROVE  /\ req' \in [Requests -> Requested \cup {NoRequest}]
           /\ req'[r] = p /\ \A o \in Requests \ {r} : req'[o] = req[o]
           /\ Kept'
           /\ \A o \in Requests : req'[o] # NoRequest =>
                 TableBornOnce(req'[o].table) /\ (req'[o].kind = "sign in" => BornOnce(req'[o].chosen))
<1> USE SignInParameters, SignInDistinct DEF SignInInv
<1>1. /\ req' \in [Requests -> Requested \cup {NoRequest}]
      /\ req'[r] = p /\ \A o \in Requests \ {r} : req'[o] = req[o]
  BY OneRequest
<1>3. Kept'
  <2> SUFFICES ASSUME NEW o \in Requests, req'[o] # NoRequest
               PROVE  /\ (req'[o].kind \in Changing /\ req'[o].step # "begun") => lock' = o
                      /\ req'[o].kind = "add" => req'[o].step # "checked"
                      /\ req'[o].kind = "sign in" => req'[o].step = "begun" /\ req'[o].chosen \in Providers
                      /\ req'[o].kind = "server" => req'[o].id \in ServerKeys
                      /\ req'[o].kind = "remove" => req'[o].id \in ProviderIds
                      /\ req'[o].kind = "change" => req'[o].id \in ProviderIds /\ req'[o].id <= last'
    BY DEF Kept
  <2>1. \A i \in ProviderIds : i <= last => i <= last'
    <3>1. last \in ProviderIds
      BY DEF SignInTypeOK
    <3> QED BY <3>1, NoLessThan
  <2>2. CASE o = r
    BY <1>1, <2>1, <2>2 DEF Kept
  <2>3. CASE o # r
    BY <1>1, <2>1, <2>3 DEF Kept
  <2> QED BY <2>2, <2>3
<1>4. \A o \in Requests : req'[o] # NoRequest =>
         TableBornOnce(req'[o].table) /\ (req'[o].kind = "sign in" => BornOnce(req'[o].chosen))
  BY <1>1 DEF IdsAreGivenOnce
<1> QED BY <1>1, <1>3, <1>4

\* Nothing else reloads beside a request that does not cross another's reload.
LEMMA AloneAtWrite ==
    ASSUME SignInInv, NEW r \in Requests, req[r] # NoRequest, ~crossed, ~Crossing(r), ~Reloading(r),
           req[r].kind \in Changing => lock = r, req[r].kind \in Changing \cup {"add"}
    PROVE  (\A o \in Requests : ~Reloading(o)) /\ CopyIsTheDatabase
<1> USE DEF SignInInv
<1>1. ASSUME NEW o \in Requests, Reloading(o) PROVE FALSE
  <2>1. o # r /\ req[o].kind \in Changing \cup {"add", "sign in"}
    BY <1>1 DEF SignInTypeOK, Requested, Reloading
  <2>2. "add" \notin {req[r].kind, req[o].kind}
    BY <1>1, <2>1 DEF Crossing
  <2>3. req[o].kind \in Changing
    BY <1>1, <2>1, <2>2 DEF Kept, Reloading
  <2>4. lock = o
    BY <1>1, <2>3 DEF Kept, Reloading
  <2> QED BY <2>1, <2>2, <2>4
<1> QED BY <1>1 DEF OneReload

LEMMA WriteStep ==
    ASSUME SignInInv, NEW r \in Requests, Write(r)
    PROVE  SignInInv'
<1> USE SignInParameters, SignInDistinct DEF SignInInv, memory
<1>1. PICK q \in Requested : q = req[r] /\ q.kind \in Changing /\ q.step = "checked"
  BY CheckedKind DEF Write, SignInTypeOK
<1>2. lock = r /\ req[r] # NoRequest
  BY CheckedKind DEF Write
<1>3. PICK p \in Requested : p = Written(q) /\ p.step = "written" /\ p.kind = q.kind /\ p.id = q.id /\ p.table = q.table
  BY WrittenType
<1>4. /\ req' = [req EXCEPT ![r] = p] /\ rows' = RowsAfter(q) /\ settings' = SettingsAfter(q)
      /\ crossed' = (crossed \/ Crossing(r))
      /\ UNCHANGED <<last, births, memory, lock, came, events, misled>>
  BY <1>1, <1>3 DEF Write
<1>5. /\ q.kind = "remove" => q.id \in Saved
      /\ q.kind = "change" => q.id \in Saved
      /\ q.kind \in {"remove", "change"} => rows[q.id] \in ProviderRows
  BY <1>1 DEF Write, IsThere, Saved, SignInTypeOK, Tables
<1>6. \A i \in ProviderIds : rows'[i] # NoRow => /\ rows[i] # NoRow /\ rows'[i] \in ProviderRows /\ rows'[i].born = rows[i].born
                                                 /\ rows[i].readable => rows'[i].readable
  <2>1. CASE q.kind = "remove"
    BY <1>4, <1>5, <2>1 DEF RowsAfter, SignInTypeOK, Tables
  <2>2. CASE q.kind = "change"
    <3>1. rows' = [rows EXCEPT ![q.id] = Changed(rows[q.id], q)]
      BY <1>4, <2>2 DEF RowsAfter
    <3>2. rows[q.id] # NoRow
      BY <1>5, <2>2 DEF Saved
    <3> QED BY <1>5, <2>2, <3>1, <3>2, ChangedRow DEF SignInTypeOK, Tables
  <2>3. CASE q.kind \notin {"remove", "change"}
    BY <1>4, <2>3 DEF RowsAfter, SignInTypeOK, Tables
  <2> QED BY <2>1, <2>2, <2>3
<1>7. rows' \in Tables
  <2>1. rows' \in [ProviderIds -> {rows'[i] : i \in ProviderIds}]
    BY <1>4 DEF RowsAfter, SignInTypeOK, Tables
  <2> QED BY <1>6, <2>1 DEF Tables
<1>8. settings' \in Settings
  <2>1. PICK v \in Settings : v = settings
    BY DEF SignInTypeOK
  <2>2. PICK s \in BOOLEAN : s = IF q.kind = "switch" THEN q.value ELSE v.sso
    BY <1>1, <2>1 DEF Requested, Settings
  <2>3. settings' = [v EXCEPT !.sso = s, !.off = IF q.kind = "server" THEN q.off ELSE v.off,
                              !.listed = IF q.kind = "list" THEN q.list ELSE v.listed]
    BY <1>4, <2>1, <2>2, Zenon DEF SettingsAfter
  <2> QED BY <1>1, <2>3 DEF Requested, Settings
<1>9. TableBornOnce(p.table)
  BY <1>1, <1>2, <1>3 DEF IdsAreGivenOnce
<1>10. last' \in ProviderIds /\ last <= last'
  BY <1>4 DEF SignInTypeOK, ProviderIds
<1>11. p.kind \in Changing /\ p.kind # "add" /\ p.kind # "sign in"
  BY <1>1, <1>3 DEF Changing
<1>12. /\ req' \in [Requests -> Requested \cup {NoRequest}]
       /\ req'[r] = p /\ \A o \in Requests \ {r} : req'[o] = req[o]
       /\ Kept'
       /\ \A o \in Requests : req'[o] # NoRequest =>
             TableBornOnce(req'[o].table) /\ (req'[o].kind = "sign in" => BornOnce(req'[o].chosen))
  BY <1>1, <1>2, <1>3, <1>4, <1>9, <1>10, <1>11, RequestsKept
<1>13. SignInTypeOK'
  <2>1. crossed' \in BOOLEAN
    BY <1>4
  <2> QED BY <1>4, <1>7, <1>8, <1>12, <2>1 DEF SignInTypeOK
<1>14. IdsAreGivenOnce'
  <2>1. TableBornOnce(rows') /\ last' = births' /\ (\A i \in Saved' : i <= last') /\ \A provider \in snapshot' : BornOnce(provider)
    BY <1>4, <1>6 DEF IdsAreGivenOnce, TableBornOnce, Saved
  <2>2. \A x \in People : BornOnce(came'[x])
    BY <1>4 DEF IdsAreGivenOnce
  <2> QED BY <1>12, <2>1, <2>2 DEF IdsAreGivenOnce, TableBornOnce, BornOnce
<1>15. Unreadable(rows') \subseteq Unreadable(rows)
  BY <1>6 DEF Unreadable
<1>16. UnreadableAreKnown'
  <2>1. Unreadable(rows)' = Unreadable(rows')
    BY DEF Unreadable
  <2>2. \A o \in Requests : req'[o] # NoRequest /\ req'[o].step = "rows" => req'[o] = req[o]
    BY <1>3, <1>12
  <2>3. \A o \in Requests : req'[o] # NoRequest /\ req'[o].step = "rows" => Unreadable(rows') \subseteq Unreadable(req'[o].table)
    BY <1>15, <2>2 DEF UnreadableAreKnown
  <2> QED BY <1>4, <1>15, <2>1, <2>3 DEF UnreadableAreKnown, Unreadable
<1>17. OneReload'
  <2> SUFFICES ASSUME ~crossed' PROVE OneReload'
    BY DEF OneReload
  <2>1. \A o \in Requests : ~Reloading(o)
    BY <1>1, <1>2, <1>4, AloneAtWrite DEF Reloading
  <2>2. \A o \in Requests : Reloading(o)' => o = r
    BY <1>12, <2>1 DEF Reloading
  <2>3. Reloading(r)'
    BY <1>3, <1>12 DEF Reloading
  <2>4. ReloadIsTheDatabase(req[r])'
    BY <1>3, <1>11, <1>12 DEF ReloadIsTheDatabase
  <2> QED BY <2>2, <2>3, <2>4 DEF OneReload
<1>18. WritesLeaveAWay'
  <2> SUFFICES ASSUME ~misled' PROVE WritesLeaveAWay'
    BY DEF WritesLeaveAWay
  <2>1. WayIn(SettingsAfter(q), RowsAfter(q))
    BY <1>1, <1>2, <1>4, <1>5 DEF WritesLeaveAWay
  <2>2. WayIn(settings, rows)'
    BY <1>4, <2>1 DEF WayIn
  <2>3. \A o \in Requests : req'[o] # NoRequest => req'[o].step # "checked"
    BY <1>2, <1>3, <1>12, CheckedKind
  <2> QED BY <2>2, <2>3 DEF WritesLeaveAWay
<1> QED BY <1>12, <1>13, <1>14, <1>16, <1>17, <1>18

LEMMA AddStep ==
    ASSUME SignInInv, NEW r \in Requests, Add(r)
    PROVE  SignInInv'
<1> USE SignInParameters, SignInDistinct DEF SignInInv, memory
<1>1. PICK q \in Requested : q = req[r] /\ q.kind = "add" /\ q.step = "begun"
  BY DEF Add, SignInTypeOK
<1>2. PICK p \in Requested : p = Written(q) /\ p.step = "written" /\ p.kind = q.kind /\ p.id = q.id /\ p.table = q.table
  BY WrittenType
<1>3. PICK id : id = NextProviderId
  OBVIOUS
<1>4. id \in ProviderIds /\ id = last + 1 /\ id = births + 1 /\ last \in Int
  <2>1. last \in 1..MaxProviders /\ last = births /\ births < MaxProviders
    BY DEF Add, IdsAreGivenOnce, SignInTypeOK, ProviderIds
  <2> QED BY <1>3, <2>1 DEF NextProviderId, ProviderIds
<1>5. PICK new : new = [on |-> TRUE, trust |-> q.value, readable |-> TRUE, born |-> births + 1]
  OBVIOUS
<1>6. new \in ProviderRows /\ new.on /\ new.readable /\ new.born = id
  BY <1>1, <1>4, <1>5 DEF ProviderRows, Requested
<1>7. /\ req[r] # NoRequest /\ req' = [req EXCEPT ![r] = p] /\ rows' = [rows EXCEPT ![id] = new]
      /\ last' = id /\ births' = id
      /\ crossed' = (crossed \/ Crossing(r))
      /\ UNCHANGED <<settings, memory, lock, came, events, misled>>
  BY <1>1, <1>2, <1>3, <1>4, <1>5 DEF Add
<1>8. rows' \in Tables /\ rows'[id] = new /\ \A i \in ProviderIds \ {id} : rows'[i] = rows[i]
  BY <1>4, <1>6, <1>7 DEF SignInTypeOK, Tables
<1>9. TableBornOnce(p.table)
  BY <1>1, <1>2, <1>7 DEF IdsAreGivenOnce
<1>a. last' \in ProviderIds /\ last <= last'
  BY <1>4, <1>7
<1>10. /\ req' \in [Requests -> Requested \cup {NoRequest}]
       /\ req'[r] = p /\ \A o \in Requests \ {r} : req'[o] = req[o]
       /\ Kept'
       /\ \A o \in Requests : req'[o] # NoRequest =>
             TableBornOnce(req'[o].table) /\ (req'[o].kind = "sign in" => BornOnce(req'[o].chosen))
  <2>1. p.kind = "add" /\ p.kind # "sign in" /\ p.kind \notin Changing /\ p.step # "checked"
    BY <1>1, <1>2 DEF Changing
  <2> QED BY <1>1, <1>2, <1>7, <1>9, <1>a, <2>1, RequestsKept
<1>11. SignInTypeOK'
  <2>1. crossed' \in BOOLEAN
    BY <1>7
  <2> QED BY <1>4, <1>7, <1>8, <1>10, <2>1 DEF SignInTypeOK
<1>12. IdsAreGivenOnce'
  <2>1. TableBornOnce(rows')
    BY <1>6, <1>8 DEF IdsAreGivenOnce, TableBornOnce
  <2>2. \A i \in Saved' : i <= last'
    <3>1. \A i \in Saved' : i \in Saved \/ i = id
      BY <1>8 DEF Saved
    <3>2. last \in ProviderIds /\ last <= id /\ id <= id
      BY <1>4 DEF SignInTypeOK
    <3>3. \A i \in ProviderIds : i <= last => i <= id
      BY <1>4, <3>2, NoLessThan
    <3>4. \A i \in Saved : i \in ProviderIds /\ i <= last
      BY DEF IdsAreGivenOnce, Saved
    <3> QED BY <1>7, <3>1, <3>2, <3>3, <3>4
  <2>3. \A x \in People : BornOnce(came'[x])
    BY <1>7 DEF IdsAreGivenOnce
  <2>4. last' = births' /\ \A provider \in snapshot' : BornOnce(provider)
    BY <1>7 DEF IdsAreGivenOnce
  <2> QED BY <1>10, <2>1, <2>2, <2>3, <2>4 DEF IdsAreGivenOnce, TableBornOnce, BornOnce
<1>13. Unreadable(rows') \subseteq Unreadable(rows)
  BY <1>6, <1>8 DEF Unreadable
<1>14. UnreadableAreKnown'
  <2>1. Unreadable(rows)' = Unreadable(rows')
    BY DEF Unreadable
  <2>2. \A o \in Requests : req'[o] # NoRequest /\ req'[o].step = "rows" => req'[o] = req[o]
    BY <1>2, <1>10
  <2>3. \A o \in Requests : req'[o] # NoRequest /\ req'[o].step = "rows" => Unreadable(rows') \subseteq Unreadable(req'[o].table)
    BY <1>13, <2>2 DEF UnreadableAreKnown
  <2> QED BY <1>7, <1>13, <2>1, <2>3 DEF UnreadableAreKnown, Unreadable
<1>15. OneReload'
  <2> SUFFICES ASSUME ~crossed' PROVE OneReload'
    BY DEF OneReload
  <2>0. q.kind \notin Changing
    BY <1>1 DEF Changing
  <2>1. (\A o \in Requests : ~Reloading(o)) /\ CopyIsTheDatabase
    BY <1>1, <1>7, <2>0, AloneAtWrite DEF Reloading
  <2>2. \A o \in Requests : Reloading(o)' => o = r
    BY <1>10, <2>1 DEF Reloading
  <2>3. Reloading(r)'
    BY <1>2, <1>7, <1>10 DEF Reloading
  <2>4. SwitchesAreTheDatabase'
    BY <1>7, <2>1 DEF CopyIsTheDatabase, SwitchesAreTheDatabase
  <2>5. ReloadIsTheDatabase(req[r])'
    BY <1>2, <1>10, <2>4 DEF ReloadIsTheDatabase
  <2> QED BY <2>2, <2>3, <2>5 DEF OneReload
<1>16. WritesLeaveAWay'
  <2> SUFFICES ASSUME ~misled' PROVE WritesLeaveAWay'
    BY DEF WritesLeaveAWay
  <2>1. WayIn(settings, rows)'
    BY <1>4, <1>6, <1>7, <1>8 DEF WritesLeaveAWay, WayIn
  <2>2. ASSUME NEW o \in Requests, req'[o] # NoRequest, req'[o].step = "checked",
               req'[o].kind = "change" => req'[o].id \in Saved'
        PROVE  WayIn(SettingsAfter(req[o]), RowsAfter(req[o]))'
    <3>1. req'[o] = req[o]
      BY <1>2, <1>10, <2>2
    <3>2. PICK w \in Requested : w = req[o]
      BY <2>2, <3>1 DEF SignInTypeOK
    <3>3. w.kind = "change" => w.id \in Saved /\ w.id # id
      <4>1. w.kind = "change" => w.id \in ProviderIds /\ w.id <= last
        BY <2>2, <3>1, <3>2 DEF Kept
      <4>2. \A i \in ProviderIds : i <= last => i # id
        BY <1>4 DEF ProviderIds
      <4> QED BY <1>8, <2>2, <3>1, <3>2, <4>1, <4>2 DEF Saved
    <3>4. WayIn(SettingsAfter(w), RowsAfter(w))
      BY <1>7, <2>2, <3>1, <3>2, <3>3 DEF WritesLeaveAWay
    <3>5. SettingsAfter(w)' = SettingsAfter(w)
      BY <1>7 DEF SettingsAfter
    <3>6. PICK there, now : there = RowsAfter(w) /\ now = RowsAfter(w)'
      OBVIOUS
    <3>7. \A i \in ProviderIds : there[i] # NoRow /\ there[i].on /\ there[i].readable =>
                                    now[i] # NoRow /\ now[i].on /\ now[i].readable
      <4>1. CASE w.kind = "remove"
        <5>1. there = [rows EXCEPT ![w.id] = NoRow] /\ now = [rows' EXCEPT ![w.id] = NoRow]
          BY <3>6, <4>1 DEF RowsAfter
        <5> QED BY <1>6, <1>8, <5>1 DEF SignInTypeOK, Tables
      <4>2. CASE w.kind = "change"
        <5>1. there = [rows EXCEPT ![w.id] = Changed(rows[w.id], w)] /\ now = [rows' EXCEPT ![w.id] = Changed(rows'[w.id], w)]
          BY <3>6, <4>2 DEF RowsAfter
        <5>2. rows'[w.id] = rows[w.id]
          BY <1>8, <3>3, <4>2 DEF Saved
        <5> QED BY <1>6, <1>8, <3>3, <4>2, <5>1, <5>2 DEF SignInTypeOK, Tables
      <4>3. CASE w.kind \notin {"remove", "change"}
        <5>1. there = rows /\ now = rows'
          BY <3>6, <4>3 DEF RowsAfter
        <5> QED BY <1>6, <1>8, <5>1
      <4> QED BY <4>1, <4>2, <4>3
    <3>8. WayIn(SettingsAfter(w), RowsAfter(w)')
      BY <3>4, <3>6, <3>7 DEF WayIn
    <3>9. WayIn(SettingsAfter(w), RowsAfter(w))'
      BY <3>5, <3>8 DEF WayIn
    <3> QED BY <3>1, <3>2, <3>9 DEF WayIn, SettingsAfter, RowsAfter
  <2> QED BY <2>1, <2>2 DEF WritesLeaveAWay
<1> QED BY <1>10, <1>11, <1>12, <1>14, <1>15, <1>16

LEMMA ReadSettingsStep ==
    ASSUME SignInInv, NEW r \in Requests, ReadSettings(r)
    PROVE  SignInInv'
<1> USE SignInParameters, SignInDistinct DEF SignInInv, database, memory
<1>1. PICK q \in Requested : q = req[r] /\ q.step = "written"
  BY DEF ReadSettings, SignInTypeOK
<1>2. PICK p \in Requested : p = WithSettings(q) /\ p.step = "values" /\ p.kind = q.kind /\ p.id = q.id /\ p.table = q.table
                             /\ p.values = settings
  BY SettingsType
<1>3. /\ req[r] # NoRequest /\ req' = [req EXCEPT ![r] = p]
      /\ UNCHANGED <<database, memory, lock, came, events, misled, crossed>>
  BY <1>1, <1>2 DEF ReadSettings
<1>4. /\ TableBornOnce(p.table) /\ last' \in ProviderIds /\ last <= last'
      /\ p.kind # "sign in" /\ (p.kind \in Changing => lock = r)
  <2>1. TableBornOnce(q.table) /\ TableBornOnce(rows)
    BY <1>1, <1>3 DEF IdsAreGivenOnce
  <2>2. last' = last /\ last \in 1..MaxProviders
    BY <1>3 DEF SignInTypeOK, ProviderIds
  <2>3. q.kind # "sign in" /\ (q.kind \in Changing => lock = r)
    BY <1>1, <1>3 DEF Kept
  <2>4. TableBornOnce(p.table)
    BY <1>2, <2>1
  <2>5. last' \in ProviderIds /\ last <= last'
    BY <2>2 DEF ProviderIds
  <2> QED BY <1>2, <2>3, <2>4, <2>5
<1>5. /\ req' \in [Requests -> Requested \cup {NoRequest}]
      /\ req'[r] = p /\ \A o \in Requests \ {r} : req'[o] = req[o]
      /\ Kept'
      /\ \A o \in Requests : req'[o] # NoRequest =>
            TableBornOnce(req'[o].table) /\ (req'[o].kind = "sign in" => BornOnce(req'[o].chosen))
  <2>1. p.step # "checked" /\ p.kind = req[r].kind /\ p.id = req[r].id /\ UNCHANGED lock
    BY <1>1, <1>2, <1>3
  <2> QED BY <1>3, <1>4, <2>1, RequestsKept
<1>6. SignInTypeOK'
  BY <1>3, <1>5 DEF SignInTypeOK
<1>7. IdsAreGivenOnce'
  <2>1. TableBornOnce(rows') /\ last' = births' /\ (\A i \in Saved' : i <= last') /\ \A provider \in snapshot' : BornOnce(provider)
    BY <1>3 DEF IdsAreGivenOnce, TableBornOnce, Saved
  <2>2. \A x \in People : BornOnce(came'[x])
    BY <1>3 DEF IdsAreGivenOnce
  <2> QED BY <1>5, <2>1, <2>2 DEF IdsAreGivenOnce, TableBornOnce, BornOnce
<1>8. UnreadableAreKnown'
  BY <1>2, <1>3, <1>5 DEF UnreadableAreKnown, Unreadable
<1>9. OneReload'
  <2> SUFFICES ASSUME ~crossed PROVE OneReload'
    BY <1>3 DEF OneReload
  <2>1. Reloading(r) /\ \A o \in Requests : Reloading(o) => o = r
    BY <1>1, <1>3 DEF OneReload, Reloading
  <2>2. Reloading(r)' /\ \A o \in Requests : Reloading(o)' => o = r
    BY <1>2, <1>5, <2>1 DEF Reloading
  <2>3. p.kind = "add" => SwitchesAreTheDatabase'
    BY <1>1, <1>2, <1>3, <2>1 DEF OneReload, ReloadIsTheDatabase, SwitchesAreTheDatabase
  <2>4. ReloadIsTheDatabase(req[r])'
    BY <1>2, <1>3, <1>5, <2>3 DEF ReloadIsTheDatabase
  <2> QED BY <2>2, <2>4 DEF OneReload
<1>10. WritesLeaveAWay'
  BY <1>2, <1>3, <1>5, WayInKept
<1> QED BY <1>5, <1>6, <1>7, <1>8, <1>9, <1>10

LEMMA ReadProvidersStep ==
    ASSUME SignInInv, NEW r \in Requests, ReadProviders(r)
    PROVE  SignInInv'
<1> USE SignInParameters, SignInDistinct DEF SignInInv, database
<1>1. PICK q \in Requested : q = req[r] /\ q.step = "values"
  BY DEF ReadProviders, SignInTypeOK
<1>2. PICK p \in Requested : p = WithRows(q) /\ p.step = "rows" /\ p.kind = q.kind /\ p.id = q.id /\ p.table = rows
                             /\ p.values = q.values
  BY RowsType
<1>3. /\ req[r] # NoRequest /\ req' = [req EXCEPT ![r] = p]
      /\ sso' = q.values.sso /\ off' = q.values.off
      /\ UNCHANGED <<database, unreadable, listed, snapshot, lock, came, events, misled, crossed>>
  BY <1>1, <1>2 DEF ReadProviders
<1>4. /\ TableBornOnce(p.table) /\ last' \in ProviderIds /\ last <= last'
      /\ p.kind # "sign in" /\ (p.kind \in Changing => lock = r)
  <2>1. TableBornOnce(q.table) /\ TableBornOnce(rows)
    BY <1>1, <1>3 DEF IdsAreGivenOnce
  <2>2. last' = last /\ last \in 1..MaxProviders
    BY <1>3 DEF SignInTypeOK, ProviderIds
  <2>3. q.kind # "sign in" /\ (q.kind \in Changing => lock = r)
    BY <1>1, <1>3 DEF Kept
  <2>4. TableBornOnce(p.table)
    BY <1>2, <2>1
  <2>5. last' \in ProviderIds /\ last <= last'
    BY <2>2 DEF ProviderIds
  <2> QED BY <1>2, <2>3, <2>4, <2>5
<1>5. /\ req' \in [Requests -> Requested \cup {NoRequest}]
      /\ req'[r] = p /\ \A o \in Requests \ {r} : req'[o] = req[o]
      /\ Kept'
      /\ \A o \in Requests : req'[o] # NoRequest =>
            TableBornOnce(req'[o].table) /\ (req'[o].kind = "sign in" => BornOnce(req'[o].chosen))
  <2>1. p.step # "checked" /\ p.kind = req[r].kind /\ p.id = req[r].id /\ UNCHANGED lock
    BY <1>1, <1>2, <1>3
  <2> QED BY <1>3, <1>4, <2>1, RequestsKept
<1>6. SignInTypeOK'
  <2>1. sso' \in BOOLEAN /\ off' \subseteq ServerKeys
    BY <1>3 DEF Requested, Settings
  <2> QED BY <1>3, <1>5, <2>1 DEF SignInTypeOK
<1>7. IdsAreGivenOnce'
  <2>1. TableBornOnce(rows') /\ last' = births' /\ (\A i \in Saved' : i <= last') /\ \A provider \in snapshot' : BornOnce(provider)
    BY <1>3 DEF IdsAreGivenOnce, TableBornOnce, Saved
  <2>2. \A x \in People : BornOnce(came'[x])
    BY <1>3 DEF IdsAreGivenOnce
  <2> QED BY <1>5, <2>1, <2>2 DEF IdsAreGivenOnce, TableBornOnce, BornOnce
<1>8. UnreadableAreKnown'
  BY <1>2, <1>3, <1>5 DEF UnreadableAreKnown, Unreadable
<1>9. OneReload'
  <2> SUFFICES ASSUME ~crossed PROVE OneReload'
    BY <1>3 DEF OneReload
  <2>1. Reloading(r) /\ \A o \in Requests : Reloading(o) => o = r
    BY <1>1, <1>3 DEF OneReload, Reloading
  <2>2. Reloading(r)' /\ \A o \in Requests : Reloading(o)' => o = r
    BY <1>2, <1>5, <2>1 DEF Reloading
  <2>3. q.values = settings
    BY <1>1, <2>1 DEF OneReload, ReloadIsTheDatabase
  <2>4. SwitchesAreTheDatabase'
    BY <1>3, <2>3 DEF SwitchesAreTheDatabase
  <2>5. ReloadIsTheDatabase(req[r])'
    BY <1>2, <1>3, <1>5, <2>3, <2>4 DEF ReloadIsTheDatabase
  <2> QED BY <2>2, <2>5 DEF OneReload
<1>10. WritesLeaveAWay'
  BY <1>2, <1>3, <1>5, WayInKept
<1> QED BY <1>5, <1>6, <1>7, <1>8, <1>9, <1>10

LEMMA InstallStep ==
    ASSUME SignInInv, NEW r \in Requests, Install(r)
    PROVE  SignInInv'
<1> USE SignInParameters, SignInDistinct DEF SignInInv, database
<1>1. PICK q \in Requested : q = req[r] /\ q.step = "rows"
  BY DEF Install, SignInTypeOK
<1>2. /\ req[r] # NoRequest /\ req' = [req EXCEPT ![r] = NoRequest]
      /\ snapshot' = Snapshot(off, sso, q.table) /\ unreadable' = Unreadable(q.table) /\ listed' = q.values.listed
      /\ lock' = IF lock = r THEN NoRequest ELSE lock
      /\ UNCHANGED <<database, sso, off, came, events, misled, crossed>>
  BY <1>1 DEF Install
<1>3. /\ req' \in [Requests -> Requested \cup {NoRequest}]
      /\ req'[r] = NoRequest /\ \A o \in Requests \ {r} : req'[o] = req[o]
  BY <1>2, OneRequest
<1>4. q.values \in Settings /\ q.table \in Tables /\ TableBornOnce(q.table)
  BY <1>1, <1>2 DEF Requested, IdsAreGivenOnce
<1>5. snapshot' \subseteq Providers /\ \A provider \in snapshot' : BornOnce(provider)
  BY <1>2, <1>4, SnapshotType DEF SignInTypeOK
<1>6. SignInTypeOK'
  <2>1. unreadable' \subseteq ProviderIds /\ listed' \subseteq People /\ lock' \in Requests \cup {NoRequest}
    BY <1>2, <1>4 DEF Unreadable, Settings, SignInTypeOK
  <2> QED BY <1>2, <1>3, <1>5, <2>1 DEF SignInTypeOK
<1>7. Kept'
  BY <1>2, <1>3 DEF Kept
<1>8. IdsAreGivenOnce'
  <2>1. TableBornOnce(rows') /\ last' = births' /\ \A i \in Saved' : i <= last'
    BY <1>2 DEF IdsAreGivenOnce, TableBornOnce, Saved
  <2>2. \A o \in Requests : req'[o] # NoRequest =>
           TableBornOnce(req'[o].table) /\ (req'[o].kind = "sign in" => BornOnce(req'[o].chosen))
    BY <1>3 DEF IdsAreGivenOnce
  <2>3. \A x \in People : BornOnce(came'[x])
    BY <1>2 DEF IdsAreGivenOnce
  <2> QED BY <1>5, <2>1, <2>2, <2>3 DEF IdsAreGivenOnce, TableBornOnce, BornOnce
<1>9. UnreadableAreKnown'
  <2>1. Unreadable(rows) \subseteq unreadable'
    BY <1>1, <1>2 DEF UnreadableAreKnown
  <2>2. \A o \in Requests : req'[o] # NoRequest /\ req'[o].step = "rows" => Unreadable(rows) \subseteq Unreadable(req'[o].table)
    BY <1>3 DEF UnreadableAreKnown
  <2> QED BY <1>2, <2>1, <2>2 DEF UnreadableAreKnown, Unreadable
<1>10. OneReload'
  <2> SUFFICES ASSUME ~crossed PROVE OneReload'
    BY <1>2 DEF OneReload
  <2>1. Reloading(r) /\ \A o \in Requests : Reloading(o) => o = r
    BY <1>1, <1>2 DEF OneReload, Reloading
  <2>2. \A o \in Requests : ~Reloading(o)'
    BY <1>3, <2>1 DEF Reloading
  <2>3. q.values = settings /\ q.table = rows /\ SwitchesAreTheDatabase
    BY <1>1, <2>1 DEF OneReload, ReloadIsTheDatabase
  <2>4. /\ sso' = settings'.sso /\ off' = settings'.off /\ listed' = settings'.listed
        /\ unreadable' = Unreadable(rows') /\ snapshot' = Snapshot(settings'.off, settings'.sso, rows')
    BY <1>2, <2>3 DEF SwitchesAreTheDatabase
  <2>5. CopyIsTheDatabase'
    BY <2>4 DEF CopyIsTheDatabase, SwitchesAreTheDatabase, Unreadable, Snapshot, OnServer, FromTable
  <2> QED BY <2>2, <2>5 DEF OneReload
<1>11. WritesLeaveAWay'
  BY <1>2, <1>3, WayInKept
<1> QED BY <1>6, <1>7, <1>8, <1>9, <1>10, <1>11

LEMMA SignInStep == SignInInv /\ [SignInNext]_signInVars => SignInInv'
<1> SUFFICES ASSUME SignInInv, [SignInNext]_signInVars PROVE SignInInv'
  OBVIOUS
<1>1. CASE SignInNext
  <2>1. PICK r \in Requests :
            \/ Asks(r) \/ Check(r) \/ Write(r) \/ Vanished(r) \/ Add(r)
            \/ ReadSettings(r) \/ ReadProviders(r) \/ Install(r)
            \/ \E p \in People, provider \in snapshot : ComeBack(r, p, provider)
            \/ LetIn(r)
    BY <1>1 DEF SignInNext
  <2>2. CASE Asks(r)
    BY <2>2, Asking, AskStep
  <2>3. CASE \E p \in People, provider \in snapshot : ComeBack(r, p, provider)
    BY <2>3, ComingBack, AskStep
  <2>4. CASE Check(r)
    BY <2>4, RefusedStep, PassedStep
  <2> QED BY <2>1, <2>2, <2>3, <2>4, WriteStep, VanishedStep, AddStep, ReadSettingsStep, ReadProvidersStep,
             InstallStep, LetInStep
<1>2. CASE UNCHANGED signInVars
  <2> USE <1>2 DEF signInVars, SignInInv, database, memory
  <2>1. SignInTypeOK'
    BY DEF SignInTypeOK
  <2>2. Kept'
    BY DEF Kept
  <2>3. IdsAreGivenOnce'
    BY DEF IdsAreGivenOnce, TableBornOnce, BornOnce, Saved
  <2>4. UnreadableAreKnown'
    BY DEF UnreadableAreKnown, Unreadable
  <2>5. \A o \in Requests : Reloading(o)' <=> Reloading(o)
    BY DEF Reloading
  <2>6. OneReload'
    BY <2>5, OneReloadKept
  <2>7. WritesLeaveAWay'
    BY WayInKept
  <2> QED BY <2>1, <2>2, <2>3, <2>4, <2>6, <2>7
<1> QED BY <1>1, <1>2

\* The inductive invariant: what the lock and the ids keep apart, that one reload at a time
\* goes on, and that what was checked leaves a way in once written, each but for what is known
\* to have crossed it.
THEOREM SignInInvariance == SignInSpec => []SignInInv
BY SignInInitially, SignInStep, PTL DEF SignInSpec

\* The types of the providers, their copy and the requests.
THEOREM SignInTypeCorrect == SignInSpec => []SignInTypeOK
<1>1. SignInInv => SignInTypeOK
  BY DEF SignInInv
<1> QED BY <1>1, SignInInvariance, PTL

\* _ways_in_left under _CHANGES (sign_in.py): however many admins change things at once, someone
\* can sign in, but for a check on switches that an added provider's reload had put back.
THEOREM AWayInStays == SignInSpec => []AWayInIsLeft
<1>1. SignInInv => AWayInIsLeft
  BY DEF SignInInv, WritesLeaveAWay, WayIn, AWayInIsLeft, SomeoneCanSignIn, Saved
<1> QED BY <1>1, SignInInvariance, PTL

\* The attributes of SignIn (sso.py) are what the tables say whenever no change is under way,
\* until an added provider's reload crosses another's.
THEOREM TheCopyIsTrue == SignInSpec => []MemoryIsTheDatabase
<1>1. SignInInv => MemoryIsTheDatabase
  <2> SUFFICES ASSUME SignInInv, Quiet, ~crossed PROVE CopyIsTheDatabase
    BY DEF MemoryIsTheDatabase, CopyIsTheDatabase, SwitchesAreTheDatabase
  <2>1. \A r \in Requests : ~Reloading(r)
    BY DEF SignInInv, Kept, Quiet, Reloading
  <2> QED BY <2>1 DEF SignInInv, OneReload
<1> QED BY <1>1, SignInInvariance, PTL

\* An account that came through a provider (signed_in_with) is only ever trusted for that one:
\* ids of sign_in_providers do not come back.
THEOREM NoTrustIsInherited == SignInSpec => []TrustIsNotInherited
<1>1. SignInInv => TrustIsNotInherited
  BY DEF SignInInv, IdsAreGivenOnce, BornOnce, TrustIsNotInherited
<1> QED BY <1>1, SignInInvariance, PTL
=============================================================================
