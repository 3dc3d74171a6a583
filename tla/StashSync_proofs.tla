-------------------------- MODULE StashSync_proofs --------------------------
(***************************************************************************)
(* Proofs about StashSync for any number of accounts, items, writes and    *)
(* any size of an answer: an app that starts from since=0 has no gaps, and *)
(* no app has ghosts, but for ids that went to another account.            *)
(*                                                                         *)
(* After it MailCheck, which brings items to the stash from a mailbox: a   *)
(* message becomes one item, and none is marked read unsaved.              *)
(***************************************************************************)
EXTENDS StashSync, MailCheck, Largest, FiniteSetTheorems, TLAPS

\* The log says of every item what its row says: a live entry of the owner at
\* the place of the last write for a row, a tombstone or nothing for no row.
LogMatchesItems ==
    \A i \in Ids :
        /\ entry[i] # NoEntry => entry[i].seq > 0 /\ entry[i].seq <= last
        /\ item[i] # NoItem =>
              /\ entry[i] # NoEntry
              /\ entry[i].user = item[i].owner
              /\ ~entry[i].deleted
        /\ item[i] = NoItem => entry[i] = NoEntry \/ entry[i].deleted

Asked(u) == request[u] # NoRequest
HasRows(u) == Asked(u) /\ request[u].step \in {"items", "answer"}

\* An answer in the making starts where the app is, stays inside the log, and
\* names every item whose entry lies between, with the items as they are unless
\* they were written since, which puts their entries after the answer's cursor.
AnswerOk(u) ==
    /\ Asked(u) => phase[u] = "syncing"
    /\ Asked(u) /\ request[u].step = "rows" => request[u].cursor = cursor[u]
    /\ cursor[u] <= last
    /\ HasRows(u) =>
          /\ request[u].cursor <= last
          /\ \A i \in request[u].changed \cup request[u].deleted :
                entry[i] # NoEntry /\ entry[i].seq > cursor[u]
          /\ \A i \in request[u].changed :
                entry[i].seq <= request[u].cursor => ~entry[i].deleted
          /\ \A i \in request[u].deleted :
                entry[i].seq <= request[u].cursor => entry[i].deleted
          /\ \A i \in EntriesOf(u) :
                entry[i].seq > cursor[u] /\ entry[i].seq <= request[u].cursor =>
                    i \in request[u].changed \cup request[u].deleted
    /\ Asked(u) /\ request[u].step = "answer" =>
          \A i \in Ids :
            /\ i \notin request[u].changed => request[u].items[i] = NoItem
            /\ i \in OwnedBy(u) /\ i \in request[u].changed /\ entry[i].seq <= request[u].cursor =>
                  request[u].items[i] = item[i]

AnswerMatchesLog == \A u \in Users : AnswerOk(u)

\* An app that has not started has nothing
NewHasNothing == \A u \in Users : phase[u] = "new" => copy[u] = Nothing /\ ~Asked(u)

IInv == TypeOK /\ LogMatchesItems /\ AnswerMatchesLog /\ NewHasNothing

-----------------------------------------------------------------------------
\* The newest place an account's log has is a place in the log.
LEMMA NewestInLog ==
    ASSUME TypeOK, LogMatchesItems, NEW u \in Users
    PROVE  Newest(u) \in Seqs /\ Newest(u) <= last
<1> DEFINE S == {entry[i].seq : i \in EntriesOf(u)} \cup {0}
<1>1. last \in Nat /\ last <= MaxWrites
  BY Parameters DEF TypeOK, Seqs
<1>2. S \in SUBSET (0..last)
  BY <1>1 DEF EntriesOf, TypeOK, Entries, Seqs, LogMatchesItems
<1>3. Max(S) \in S
  BY <1>1, <1>2, MaxOfBounded
<1> QED BY <1>1, <1>2, <1>3, Parameters DEF Newest, Seqs

LEMMA InitIInv == Init => IInv
<1> SUFFICES ASSUME Init PROVE IInv
  OBVIOUS
<1>1. TypeOK
  BY Parameters DEF Init, TypeOK, Nothing, Copies, Seqs
<1>2. LogMatchesItems /\ AnswerMatchesLog /\ NewHasNothing
  BY Distinct DEF Init, LogMatchesItems, AnswerMatchesLog, AnswerOk, NewHasNothing, Asked, HasRows, Nothing
<1> QED BY <1>1, <1>2 DEF IInv

\* A write of an item leaves IInv true, because it puts the item's entry after
\* every cursor there is.
LEMMA WriteKeepsIInv ==
    ASSUME IInv, NEW u \in Users, NEW i \in Ids, NEW deleted \in BOOLEAN,
           Log(u, i, deleted), UNCHANGED app,
           item' = [item EXCEPT ![i] = IF deleted THEN NoItem ELSE [owner |-> u, ver |-> last + 1]]
    PROVE  IInv'
<1> DEFINE e == [user |-> u, seq |-> last + 1, deleted |-> deleted]
<1>1. last \in Nat /\ last + 1 \in Seqs /\ last' = last + 1 /\ MaxWrites \in Nat
  BY Parameters DEF IInv, TypeOK, Log, Seqs
<1>2. entry' = [entry EXCEPT ![i] = e]
  BY DEF Log
<1>3. e \in Entries /\ e # NoEntry /\ [owner |-> u, ver |-> last + 1] \in Versions
      /\ [owner |-> u, ver |-> last + 1] # NoItem
  BY <1>1, Distinct DEF Entries, Versions
<1>4. e.user = u /\ e.seq = last + 1 /\ e.deleted = deleted
  OBVIOUS
<1> HIDE DEF e
<1>5. TypeOK'
  BY <1>1, <1>2, <1>3 DEF IInv, TypeOK, app
<1>6. entry'[i] = e /\ \A k \in Ids \ {i} : entry'[k] = entry[k] /\ item'[k] = item[k]
  BY <1>2 DEF IInv, TypeOK
<1>7. item'[i] = IF deleted THEN NoItem ELSE [owner |-> u, ver |-> last + 1]
  BY DEF IInv, TypeOK
<1>8. LogMatchesItems'
  <2> SUFFICES ASSUME NEW k \in Ids
               PROVE  /\ entry'[k] # NoEntry => entry'[k].seq > 0 /\ entry'[k].seq <= last'
                      /\ item'[k] # NoItem => /\ entry'[k] # NoEntry
                                             /\ entry'[k].user = item'[k].owner
                                             /\ ~entry'[k].deleted
                      /\ item'[k] = NoItem => entry'[k] = NoEntry \/ entry'[k].deleted
    BY DEF LogMatchesItems
  <2>1. CASE k = i
    BY <2>1, <1>1, <1>3, <1>4, <1>6, <1>7
  <2>2. CASE k # i
    <3>1. entry'[k] = entry[k] /\ item'[k] = item[k]
      BY <2>2, <1>6
    <3>2. entry[k] # NoEntry => entry[k].seq \in Nat
      BY DEF IInv, TypeOK, Entries, Seqs
    <3> QED BY <3>1, <3>2, <1>1 DEF IInv, LogMatchesItems
  <2> QED BY <2>1, <2>2
<1>9. AnswerMatchesLog'
  <2> SUFFICES ASSUME NEW v \in Users
               PROVE  AnswerOk(v)'
    BY DEF AnswerMatchesLog
  <2>0. AnswerOk(v)
    BY DEF IInv, AnswerMatchesLog
  <2>1. request' = request /\ cursor' = cursor /\ phase' = phase /\ Asked(v)' = Asked(v) /\ HasRows(v)' = HasRows(v)
    BY DEF app, Asked, HasRows
  <2>2. cursor[v] \in Nat /\ cursor[v] <= last
    BY <2>0 DEF IInv, TypeOK, Seqs, AnswerOk
  <2>3. Asked(v) => request[v] \in Requests /\ request[v].cursor \in Nat
    BY DEF IInv, TypeOK, Asked, Requests, Seqs
  <2>4. Asked(v) => request[v].changed \subseteq Ids /\ request[v].deleted \subseteq Ids
    BY <2>3 DEF Requests
  <2>5. CASE ~HasRows(v)
    BY <2>0, <2>1, <2>2, <2>3, <2>5, <1>1 DEF AnswerOk, HasRows
  <2>6. CASE HasRows(v)
    <3>1. Asked(v)
      BY <2>6 DEF HasRows
    <3>2. request[v].cursor <= last
      BY <2>0, <2>6 DEF AnswerOk
    <3>3. entry'[i].seq > cursor[v] /\ ~(entry'[i].seq <= request[v].cursor) /\ entry'[i] # NoEntry
      BY <1>1, <1>3, <1>4, <1>6, <2>2, <2>3, <3>1, <3>2
    <3>4. \A k \in EntriesOf(v)' : k # i => k \in EntriesOf(v)
      BY <1>6 DEF EntriesOf
    <3>5. \A k \in OwnedBy(v)' : k # i => k \in OwnedBy(v)
      BY <1>6 DEF OwnedBy
    <3>6. EntriesOf(v)' \subseteq Ids
      BY DEF EntriesOf
    <3>7. /\ \A k \in request[v].changed \cup request[v].deleted :
                entry'[k] # NoEntry /\ entry'[k].seq > cursor[v]
          /\ \A k \in request[v].changed :
                entry'[k].seq <= request[v].cursor => ~entry'[k].deleted
          /\ \A k \in request[v].deleted :
                entry'[k].seq <= request[v].cursor => entry'[k].deleted
      BY <1>6, <2>0, <2>4, <2>6, <3>1, <3>3 DEF AnswerOk
    <3>8. \A k \in EntriesOf(v)' :
             entry'[k].seq > cursor[v] /\ entry'[k].seq <= request[v].cursor =>
                 k \in request[v].changed \cup request[v].deleted
      BY <1>6, <2>0, <2>6, <3>3, <3>4, <3>6 DEF AnswerOk
    <3>9. request[v].step = "answer" =>
             \A k \in Ids :
               /\ k \notin request[v].changed => request[v].items[k] = NoItem
               /\ /\ k \in OwnedBy(v)' /\ k \in request[v].changed /\ entry'[k].seq <= request[v].cursor
                  => request[v].items[k] = item'[k]
      BY <1>6, <2>0, <3>1, <3>3, <3>5 DEF AnswerOk
    <3>10. request[v].cursor <= last' /\ cursor[v] <= last'
      BY <1>1, <2>2, <2>3, <3>1, <3>2
    <3>11. phase[v] = "syncing" /\ request[v].step # "rows"
      BY <2>0, <2>6, <3>1 DEF AnswerOk, HasRows
    <3> QED BY <2>1, <3>7, <3>8, <3>9, <3>10, <3>11 DEF AnswerOk
  <2> QED BY <2>5, <2>6
<1>10. NewHasNothing'
  BY DEF IInv, NewHasNothing, app, Asked
<1> QED BY <1>5, <1>8, <1>9, <1>10 DEF IInv

\* A step of the server's answers or of the app for one account leaves the log
\* and the other accounts alone.
LEMMA OthersKept ==
    ASSUME IInv, NEW u \in Users, NEW v \in Users, u # v, UNCHANGED server,
           phase'[v] = phase[v], cursor'[v] = cursor[v], request'[v] = request[v], copy'[v] = copy[v]
    PROVE  /\ AnswerOk(v)'
           /\ phase'[v] = "new" => copy'[v] = Nothing /\ ~Asked(v)'
  BY DEF IInv, AnswerMatchesLog, AnswerOk, NewHasNothing, Asked, HasRows, EntriesOf, OwnedBy, server

\* What a step of the answers or of the app has to do for its own account.
LEMMA OwnStep ==
    ASSUME IInv, NEW u \in Users, UNCHANGED server, TypeOK', AnswerOk(u)',
           phase'[u] = "new" => copy'[u] = Nothing /\ ~Asked(u)',
           \A v \in Users \ {u} : /\ phase'[v] = phase[v] /\ cursor'[v] = cursor[v]
                                  /\ request'[v] = request[v] /\ copy'[v] = copy[v]
    PROVE  IInv'
<1>1. LogMatchesItems'
  BY DEF IInv, LogMatchesItems, server
<1>2. AnswerMatchesLog' /\ NewHasNothing'
  BY OthersKept DEF AnswerMatchesLog, NewHasNothing
<1> QED BY <1>1, <1>2 DEF IInv

LEMMA AskStep == ASSUME IInv, NEW u \in Users, Ask(u) PROVE IInv'
<1> DEFINE r == [step |-> IF cursor[u] > Newest(u) THEN "reset" ELSE "rows", cursor |-> cursor[u],
                 changed |-> {}, deleted |-> {}, items |-> Nothing]
<1>1. r \in Requests
  BY DEF IInv, TypeOK, Requests, Copies, Nothing
<1>2. r.cursor = cursor[u] /\ r.step \in {"reset", "rows"}
  OBVIOUS
<1>3. request' = [request EXCEPT ![u] = r] /\ UNCHANGED <<server, phase, cursor, offset, copy>> /\ phase[u] = "syncing"
  BY DEF Ask
<1> HIDE DEF r
<1>4. request'[u] = r /\ \A v \in Users \ {u} : request'[v] = request[v]
  BY <1>3 DEF IInv, TypeOK
<1>5. TypeOK'
  BY <1>1, <1>3 DEF IInv, TypeOK, server
<1>6. AnswerOk(u)'
  BY <1>2, <1>3, <1>4 DEF IInv, AnswerMatchesLog, AnswerOk, Asked, HasRows, server
<1> QED BY <1>3, <1>4, <1>5, <1>6, OwnStep

LEMMA ReadRowsStep == ASSUME IInv, NEW u \in Users, ReadRows(u) PROVE IInv'
<1> DEFINE q == request[u]
<1>1. q \in Requests /\ q # NoRequest /\ q.step = "rows" /\ q.cursor = cursor[u] /\ phase[u] = "syncing"
  BY DEF ReadRows, IInv, TypeOK, AnswerMatchesLog, AnswerOk, Asked
<1>2. PICK rows \in SUBSET After(u, q.cursor), end \in Seqs :
        /\ AreFirst(rows, u, q.cursor)
        /\ EndsAt(rows, q.cursor, end)
        /\ request' = [request EXCEPT ![u] =
               [@ EXCEPT !.step = "items",
                         !.cursor = end,
                         !.changed = {i \in rows : ~entry[i].deleted},
                         !.deleted = {i \in rows : entry[i].deleted}]]
  BY DEF ReadRows
<1> DEFINE r == [q EXCEPT !.step = "items",
                          !.cursor = end,
                          !.changed = {i \in rows : ~entry[i].deleted},
                          !.deleted = {i \in rows : entry[i].deleted}]
<1>3. rows \subseteq EntriesOf(u) /\ rows \subseteq Ids /\ \A i \in rows : entry[i] # NoEntry /\ entry[i].seq > cursor[u]
  BY <1>1, <1>2 DEF After, EntriesOf
<1>4. r \in Requests
  BY <1>1, <1>2, <1>3 DEF Requests
<1>5. r.step = "items" /\ r.cursor = end /\ r.changed = {i \in rows : ~entry[i].deleted}
      /\ r.deleted = {i \in rows : entry[i].deleted}
  BY <1>1 DEF Requests
<1>6. request' = [request EXCEPT ![u] = r] /\ UNCHANGED <<server, phase, cursor, offset, copy>>
  BY <1>2 DEF ReadRows
<1> HIDE DEF r
<1>7. request'[u] = r /\ \A v \in Users \ {u} : request'[v] = request[v]
  BY <1>6 DEF IInv, TypeOK
<1>8. TypeOK'
  BY <1>4, <1>6 DEF IInv, TypeOK, server
<1>9. last \in Nat /\ cursor[u] \in Nat /\ cursor[u] <= last /\ end \in Nat
  BY <1>2, Parameters DEF IInv, TypeOK, Seqs, AnswerMatchesLog, AnswerOk
<1>10. end <= last
  BY <1>1, <1>2, <1>3, <1>9 DEF EndsAt, IInv, LogMatchesItems
<1>11. \A i \in EntriesOf(u) : entry[i].seq > cursor[u] /\ entry[i].seq <= end => i \in rows
  <2> SUFFICES ASSUME NEW i \in EntriesOf(u), entry[i].seq > cursor[u], entry[i].seq <= end, i \notin rows
               PROVE  FALSE
    OBVIOUS
  <2>1. i \in After(u, q.cursor)
    BY <1>1 DEF After
  <2>2. entry[i].seq \in Nat
    BY DEF EntriesOf, IInv, TypeOK, Entries, Seqs
  <2>3. CASE rows = {}
    BY <2>2, <2>3, <1>1, <1>2, <1>9 DEF EndsAt
  <2>4. CASE rows # {}
    <3>1. PICK k \in rows : end = entry[k].seq
      BY <2>4, <1>2 DEF EndsAt
    <3>2. entry[k].seq < entry[i].seq
      BY <2>1, <1>2 DEF AreFirst
    <3> QED BY <3>1, <3>2, <2>2, <1>9
  <2> QED BY <2>3, <2>4
<1>12. AnswerOk(u)'
  <2>1. Asked(u)' /\ request'[u].step = "items" /\ request'[u].cursor = end /\ phase'[u] = "syncing"
    BY <1>1, <1>4, <1>5, <1>6, <1>7, Distinct DEF Asked
  <2>2. \A i \in rows : i \in r.changed \cup r.deleted
    BY <1>5
  <2>3. entry' = entry /\ last' = last /\ cursor' = cursor /\ EntriesOf(u)' = EntriesOf(u)
    BY <1>6 DEF server, EntriesOf
  <2>4. /\ \A i \in r.changed \cup r.deleted : entry[i] # NoEntry /\ entry[i].seq > cursor[u]
        /\ \A i \in r.changed : ~entry[i].deleted
        /\ \A i \in r.deleted : entry[i].deleted
    BY <1>3, <1>5
  <2> QED BY <1>7, <1>9, <1>10, <1>11, <2>1, <2>2, <2>3, <2>4 DEF AnswerOk
<1>13. phase'[u] # "new"
  BY <1>1, <1>6
<1> QED BY <1>6, <1>7, <1>8, <1>12, <1>13, OwnStep

LEMMA ReadItemsStep == ASSUME IInv, NEW u \in Users, ReadItems(u) PROVE IInv'
<1> DEFINE q == request[u]
           named == [i \in Ids |-> IF i \in q.changed /\ Found(u, i) THEN item[i] ELSE NoItem]
           r == [q EXCEPT !.step = "answer", !.items = named]
<1>1. q \in Requests /\ q # NoRequest /\ q.step = "items" /\ phase[u] = "syncing" /\ Asked(u) /\ HasRows(u)
  BY DEF ReadItems, IInv, TypeOK, AnswerMatchesLog, AnswerOk, Asked, HasRows
<1>2. named \in Copies
  BY DEF Copies, IInv, TypeOK
<1>3. /\ \A i \in Ids : i \notin q.changed => named[i] = NoItem
      /\ \A i \in OwnedBy(u) : i \in q.changed => named[i] = item[i]
  BY DEF Found, OwnedBy
<1>4. request' = [request EXCEPT ![u] = r] /\ UNCHANGED <<server, phase, cursor, offset, copy>>
  BY DEF ReadItems
<1> HIDE DEF named
<1>5. r \in Requests /\ r # NoRequest
  BY <1>1, <1>2, Distinct DEF Requests
<1>6. r.step = "answer" /\ r.cursor = q.cursor /\ r.changed = q.changed /\ r.deleted = q.deleted /\ r.items = named
  BY <1>1 DEF Requests
<1> HIDE DEF r
<1>7. request'[u] = r /\ \A v \in Users \ {u} : request'[v] = request[v]
  BY <1>4 DEF IInv, TypeOK
<1>8. TypeOK'
  BY <1>4, <1>5 DEF IInv, TypeOK, server
<1>9. AnswerOk(u)'
  <2>1. AnswerOk(u)
    BY DEF IInv, AnswerMatchesLog
  <2>2. entry' = entry /\ last' = last /\ cursor' = cursor /\ item' = item /\ phase' = phase
    BY <1>4 DEF server
  <2>3. EntriesOf(u)' = EntriesOf(u) /\ OwnedBy(u)' = OwnedBy(u)
    BY <2>2 DEF EntriesOf, OwnedBy
  <2> QED BY <1>1, <1>3, <1>6, <1>7, <2>1, <2>2, <2>3 DEF AnswerOk
<1>10. phase'[u] # "new"
  BY <1>1, <1>4
<1> QED BY <1>4, <1>7, <1>8, <1>9, <1>10, OwnStep

LEMMA ReceiveStep == ASSUME IInv, NEW u \in Users, Receive(u) PROVE IInv'
<1>1. /\ request[u] \in Requests /\ request[u] # NoRequest /\ phase[u] = "syncing"
      /\ request[u].cursor \in Seqs /\ request[u].items \in Copies
  BY DEF Receive, IInv, TypeOK, AnswerMatchesLog, AnswerOk, Asked, Requests
<1>2. request' = [request EXCEPT ![u] = NoRequest] /\ UNCHANGED <<server, offset>>
  BY DEF Receive
<1>3. CASE request[u].step = "answer"
  <2> DEFINE c == [i \in Ids |-> IF request[u].items[i] # NoItem THEN request[u].items[i]
                                 ELSE IF i \in request[u].deleted THEN NoItem ELSE copy[u][i]]
  <2>1. copy' = [copy EXCEPT ![u] = c]
        /\ cursor' = [cursor EXCEPT ![u] = request[u].cursor] /\ phase' = phase
    BY <1>3 DEF Receive, IInv, TypeOK
  <2>2. c \in Copies
    BY <1>1 DEF IInv, TypeOK, Copies
  <2> HIDE DEF c
  <2>3. TypeOK'
    BY <1>1, <1>2, <2>1, <2>2 DEF IInv, TypeOK, server
  <2>4. request[u].cursor <= last
    BY <1>1, <1>3 DEF IInv, AnswerMatchesLog, AnswerOk, HasRows, Asked
  <2>5. AnswerOk(u)'
    BY <1>1, <1>2, <2>1, <2>4 DEF IInv, TypeOK, AnswerOk, Asked, HasRows, server
  <2> QED BY <1>1, <1>2, <2>1, <2>3, <2>5, OwnStep DEF IInv, TypeOK
<1>4. CASE request[u].step # "answer"
  <2>1. copy' = [copy EXCEPT ![u] = Nothing] /\ cursor' = [cursor EXCEPT ![u] = 0]
        /\ phase' = [phase EXCEPT ![u] = "new"]
    BY <1>4 DEF Receive
  <2>2. TypeOK'
    BY <1>2, <2>1, Parameters DEF IInv, TypeOK, server, Nothing, Copies, Seqs
  <2>3. last \in Nat
    BY DEF IInv, TypeOK, Seqs
  <2>4. AnswerOk(u)' /\ copy'[u] = Nothing /\ ~Asked(u)'
    BY <1>2, <2>1, <2>3 DEF IInv, TypeOK, AnswerOk, Asked, HasRows, server
  <2> QED BY <1>2, <2>1, <2>2, <2>4, OwnStep DEF IInv, TypeOK
<1> QED BY <1>3, <1>4

LEMMA LoseAnswerStep == ASSUME IInv, NEW u \in Users, LoseAnswer(u) PROVE IInv'
<1>1. request' = [request EXCEPT ![u] = NoRequest] /\ UNCHANGED <<server, phase, cursor, offset, copy>>
  BY DEF LoseAnswer
<1>2. TypeOK'
  BY <1>1 DEF IInv, TypeOK, server
<1>3. AnswerOk(u)' /\ ~Asked(u)'
  BY <1>1 DEF IInv, TypeOK, AnswerMatchesLog, AnswerOk, Asked, HasRows, server
<1>4. phase'[u] = "new" => copy'[u] = Nothing
  BY <1>1 DEF IInv, NewHasNothing
<1> QED BY <1>1, <1>2, <1>3, <1>4, OwnStep DEF IInv, TypeOK

LEMMA StartSyncingStep == ASSUME IInv, NEW u \in Users, StartSyncing(u) PROVE IInv'
<1> DEFINE c == IF u \in Listers THEN Newest(u) ELSE 0
           p == IF u \in Listers THEN "listing" ELSE "syncing"
<1>1. phase' = [phase EXCEPT ![u] = p] /\ cursor' = [cursor EXCEPT ![u] = c]
      /\ offset' = [offset EXCEPT ![u] = 0] /\ UNCHANGED <<server, copy, request>>
  BY DEF StartSyncing
<1>2. c \in Seqs /\ c <= last
  BY NewestInLog, Parameters DEF IInv, TypeOK, Seqs
<1>3. p \in {"listing", "syncing"}
  OBVIOUS
<1> HIDE DEF c, p
<1>4. TypeOK'
  BY <1>1, <1>2, <1>3 DEF IInv, TypeOK, server
<1>5. ~Asked(u) /\ ~Asked(u)'
  BY <1>1 DEF StartSyncing, IInv, NewHasNothing, Asked
<1>6. AnswerOk(u)'
  BY <1>1, <1>2, <1>5 DEF IInv, TypeOK, AnswerOk, HasRows, server
<1>7. phase'[u] # "new"
  BY <1>1, <1>3 DEF IInv, TypeOK
<1> QED BY <1>1, <1>4, <1>6, <1>7, OwnStep DEF IInv, TypeOK

LEMMA ListPageStep == ASSUME IInv, NEW u \in Users, ListPage(u) PROVE IInv'
<1> DEFINE c == [i \in Ids |-> IF i \in Page(u) THEN item[i] ELSE copy[u][i]]
           p == IF Cardinality(Page(u)) < PageSize THEN "syncing" ELSE phase[u]
<1>1. phase' = [phase EXCEPT ![u] = p] /\ copy' = [copy EXCEPT ![u] = c]
      /\ offset' = [offset EXCEPT ![u] = @ + PageSize] /\ UNCHANGED <<server, cursor, request>>
  BY DEF ListPage, IInv, TypeOK
<1>2. c \in Copies
  BY DEF IInv, TypeOK, Copies
<1>3. phase[u] = "listing" /\ p \in {"listing", "syncing"}
  BY DEF ListPage
<1> HIDE DEF c, p
<1>4. TypeOK'
  BY <1>1, <1>2, <1>3, Parameters DEF IInv, TypeOK, server
<1>5. ~Asked(u) /\ ~Asked(u)'
  BY <1>1, <1>3 DEF IInv, AnswerMatchesLog, AnswerOk, Asked
<1>6. AnswerOk(u)'
  BY <1>1, <1>5 DEF IInv, AnswerMatchesLog, AnswerOk, HasRows, server
<1>7. phase'[u] # "new"
  BY <1>1, <1>3 DEF IInv, TypeOK
<1> QED BY <1>1, <1>4, <1>6, <1>7, OwnStep DEF IInv, TypeOK

\* A write is one of the three, of one item.
LEMMA WritesLog ==
    ASSUME TypeOK, NEW u \in Users,
           Create(u) \/ \E i \in Ids : Edit(u, i) \/ Delete(u, i)
    PROVE  \E i \in Ids, deleted \in BOOLEAN :
              /\ Log(u, i, deleted) /\ UNCHANGED app
              /\ deleted => i \in OwnedBy(u)
              /\ item[i] # NoItem => i \in OwnedBy(u)
              /\ item' = [item EXCEPT ![i] = IF deleted THEN NoItem ELSE [owner |-> u, ver |-> last + 1]]
<1>1. CASE Create(u)
  <2>1. NextId \in Ids
    BY <1>1 DEF Create
  <2>2. item[NextId] = NoItem
    <3>1. SUFFICES ASSUME item[NextId] # NoItem PROVE FALSE
      OBVIOUS
    <3> DEFINE S == {i \in Ids : item[i] # NoItem} \cup {0}
    <3>2. S \in SUBSET (0..MaxId) /\ S # {} /\ MaxId \in Nat
      BY Parameters DEF Ids
    <3>3. Max(S) \in S /\ \A y \in S : Max(S) >= y
      BY <3>2, MaxOfBounded
    <3>4. NextId \in S /\ NextId = 1 + Max(S)
      BY <2>1, <3>1 DEF NextId
    <3>5. \A x \in S : x \in Nat
      BY <3>2
    <3>6. PICK m \in S : (\A y \in S : m >= y) /\ NextId = 1 + m
      BY <3>3, <3>4
    <3>7. m \in Nat /\ m >= 1 + m
      BY <3>4, <3>5, <3>6
    <3> QED BY <3>7
  <2> QED BY <1>1, <2>1, <2>2 DEF Create
<1>2. ASSUME NEW i \in Ids, Edit(u, i) PROVE item' = [item EXCEPT ![i] = [owner |-> u, ver |-> last + 1]]
  <2>1. item[i] \in Versions /\ item[i].owner = u
    BY <1>2, Distinct DEF Edit, OwnedBy, TypeOK
  <2>2. [item[i] EXCEPT !.ver = last + 1] = [owner |-> u, ver |-> last + 1]
    BY <2>1 DEF Versions
  <2> QED BY <1>2, <2>2 DEF Edit, TypeOK
<1>3. CASE \E i \in Ids : Edit(u, i)
  BY <1>2, <1>3 DEF Edit
<1>4. CASE \E i \in Ids : Delete(u, i)
  BY <1>4 DEF Delete
<1> QED BY <1>1, <1>3, <1>4

LEMMA StepIInv == IInv /\ [Next]_vars => IInv'
<1> SUFFICES ASSUME IInv, [Next]_vars PROVE IInv'
  OBVIOUS
<1>1. ASSUME NEW u \in Users, Create(u) \/ \E i \in Ids : Edit(u, i) \/ Delete(u, i) PROVE IInv'
  <2>1. TypeOK
    BY DEF IInv
  <2> QED BY <1>1, <2>1, WritesLog, WriteKeepsIInv
<1>2. ASSUME NEW u \in Users, Sync(u) PROVE IInv'
  BY <1>2, AskStep, ReadRowsStep, ReadItemsStep, StartSyncingStep, ListPageStep DEF Sync
<1>3. ASSUME NEW u \in Users, Receive(u) \/ LoseAnswer(u) PROVE IInv'
  BY <1>3, ReceiveStep, LoseAnswerStep
<1>4. CASE UNCHANGED vars
  BY <1>4 DEF vars, IInv, TypeOK, LogMatchesItems, AnswerMatchesLog, AnswerOk, NewHasNothing,
              Asked, HasRows, EntriesOf, OwnedBy
<1> QED BY <1>1, <1>2, <1>3, <1>4 DEF Next

THEOREM Invariance == Spec => []IInv
<1> QED BY InitIInv, StepIInv, PTL DEF Spec

\* The type invariant of the change log, its answers and the apps' copies.
THEOREM TypeCorrect == Spec => []TypeOK
<1>1. IInv => TypeOK
  BY DEF IInv
<1> QED BY <1>1, Invariance, PTL

-----------------------------------------------------------------------------
(* No gaps, for apps that start from the change log                        *)

GapsInv == IInv /\ NoGaps /\ \A u \in Users \ Listers : phase[u] # "listing"

LEMMA GapsInit == Init => GapsInv
  BY InitIInv DEF Init, GapsInv, NoGaps, Syncing

\* What the step of one account's app has to do: the others' copies, and what is
\* still to come to them, are as they were.
LEMMA GapsOwnStep ==
    ASSUME GapsInv, IInv', NEW u \in Users, UNCHANGED server,
           u \notin Listers => phase'[u] # "listing",
           u \notin Listers /\ Syncing(u)' => \A i \in OwnedBy(u)' : copy'[u][i] = item'[i] \/ Coming(u, i)',
           \A v \in Users \ {u} : phase'[v] = phase[v] /\ cursor'[v] = cursor[v] /\ copy'[v] = copy[v]
    PROVE  GapsInv'
<1>1. ASSUME NEW v \in Users \ Listers, v # u, Syncing(v)', NEW i \in OwnedBy(v)'
      PROVE  copy'[v][i] = item'[i] \/ Coming(v, i)'
  BY <1>1 DEF GapsInv, NoGaps, Syncing, OwnedBy, Coming, After, EntriesOf, server
<1>2. \A v \in Users \ Listers : phase'[v] # "listing"
  BY DEF GapsInv
<1> QED BY <1>1, <1>2 DEF GapsInv, NoGaps

LEMMA GapsStep == GapsInv /\ [Next]_vars => GapsInv'
<1> SUFFICES ASSUME GapsInv, [Next]_vars PROVE GapsInv'
  OBVIOUS
<1>0. IInv /\ IInv' /\ TypeOK
  BY StepIInv DEF GapsInv, IInv
<1>1. ASSUME NEW u \in Users, Create(u) \/ \E i \in Ids : Edit(u, i) \/ Delete(u, i) PROVE GapsInv'
  <2>1. PICK i \in Ids, deleted \in BOOLEAN :
              /\ Log(u, i, deleted) /\ UNCHANGED app
              /\ deleted => i \in OwnedBy(u)
              /\ item[i] # NoItem => i \in OwnedBy(u)
              /\ item' = [item EXCEPT ![i] = IF deleted THEN NoItem ELSE [owner |-> u, ver |-> last + 1]]
    BY <1>0, <1>1, WritesLog
  <2>2. ASSUME NEW v \in Users \ Listers, Syncing(v)', NEW k \in OwnedBy(v)'
        PROVE  copy'[v][k] = item'[k] \/ Coming(v, k)'
    <3>1. k \in Ids /\ item'[k] # NoItem /\ item'[k].owner = v
      BY DEF OwnedBy
    <3>2. CASE k = i
      <4>1. entry'[k] = [user |-> u, seq |-> last + 1, deleted |-> deleted]
        BY <3>2, <2>1, <1>0 DEF Log, TypeOK
      <4>2. u = v
        BY <3>1, <3>2, <2>1, <1>0 DEF TypeOK
      <4>3. entry'[k].user = v /\ entry'[k].seq = last + 1 /\ last \in Nat
        BY <4>1, <4>2, <1>0 DEF TypeOK, Seqs
      <4>4. entry'[k] # NoEntry
        BY <3>1, <1>0 DEF IInv, LogMatchesItems
      <4>5. cursor'[v] = cursor[v] /\ cursor[v] <= last /\ cursor[v] \in Nat
        BY <2>1, <1>0 DEF app, IInv, TypeOK, Seqs, AnswerMatchesLog, AnswerOk
      <4> QED BY <3>1, <4>3, <4>4, <4>5 DEF Coming, After, EntriesOf
    <3>3. CASE k # i
      <4>1. item'[k] = item[k] /\ entry'[k] = entry[k]
        BY <3>3, <3>1, <2>1, <1>0 DEF TypeOK, Log
      <4> QED BY <2>2, <3>1, <4>1, <2>1 DEF GapsInv, NoGaps, Syncing, OwnedBy, Coming, After, EntriesOf, app
    <3> QED BY <3>2, <3>3
  <2>3. \A v \in Users \ Listers : phase'[v] # "listing"
    BY <2>1 DEF GapsInv, app
  <2> QED BY <1>0, <2>2, <2>3 DEF GapsInv, NoGaps
<1>2. ASSUME NEW u \in Users, Ask(u) \/ ReadRows(u) \/ ReadItems(u) \/ LoseAnswer(u) PROVE GapsInv'
  <2>1. UNCHANGED <<server, phase, cursor, offset, copy>>
    BY <1>2 DEF Ask, ReadRows, ReadItems, LoseAnswer
  <2> QED BY <1>0, <2>1 DEF GapsInv, NoGaps, Syncing, OwnedBy, Coming, After, EntriesOf, server
<1>3. ASSUME NEW u \in Users, StartSyncing(u) PROVE GapsInv'
  <2>1. /\ phase' = [phase EXCEPT ![u] = IF u \in Listers THEN "listing" ELSE "syncing"]
        /\ cursor' = [cursor EXCEPT ![u] = IF u \in Listers THEN Newest(u) ELSE 0]
        /\ UNCHANGED <<server, copy, request>>
    BY <1>3 DEF StartSyncing
  <2>2. ASSUME u \notin Listers, NEW i \in OwnedBy(u)' PROVE Coming(u, i)'
    <3>1. cursor'[u] = 0 /\ entry' = entry /\ i \in Ids /\ item[i] # NoItem /\ item[i].owner = u
      BY <1>0, <2>1, <2>2 DEF TypeOK, OwnedBy, server
    <3>2. entry[i] # NoEntry /\ entry[i].user = u /\ entry[i].seq > 0
      BY <1>0, <3>1 DEF IInv, LogMatchesItems
    <3> QED BY <3>1, <3>2 DEF Coming, After, EntriesOf
  <2>3. u \notin Listers => phase'[u] # "listing"
    BY <1>0, <2>1 DEF TypeOK
  <2>4. \A v \in Users \ {u} : phase'[v] = phase[v] /\ cursor'[v] = cursor[v] /\ copy'[v] = copy[v]
    BY <1>0, <2>1 DEF TypeOK
  <2> QED BY <1>0, <2>1, <2>2, <2>3, <2>4, GapsOwnStep
<1>4. ASSUME NEW u \in Users, ListPage(u) PROVE GapsInv'
  <2>1. u \in Listers
    BY <1>4 DEF ListPage, GapsInv
  <2> QED BY <1>0, <1>4, <2>1, GapsOwnStep DEF ListPage, TypeOK
<1>5. ASSUME NEW u \in Users, Receive(u), request[u].step = "answer" PROVE GapsInv'
  <2> DEFINE q == request[u]
  <2>1. /\ Asked(u) /\ HasRows(u) /\ q \in Requests /\ q.cursor \in Nat /\ cursor[u] \in Nat /\ AnswerOk(u)
        /\ phase[u] = "syncing"
    BY <1>0, <1>5 DEF Receive, IInv, TypeOK, AnswerMatchesLog, AnswerOk, Asked, HasRows, Requests, Seqs
  <2>2. /\ copy' = [copy EXCEPT ![u] = [i \in Ids |->
               IF q.items[i] # NoItem THEN q.items[i] ELSE IF i \in q.deleted THEN NoItem ELSE copy[u][i]]]
        /\ cursor' = [cursor EXCEPT ![u] = q.cursor] /\ phase' = phase /\ UNCHANGED server
    BY <1>0, <1>5 DEF Receive, TypeOK
  <2>3. ASSUME u \notin Listers, NEW i \in OwnedBy(u) PROVE copy'[u][i] = item'[i] \/ Coming(u, i)'
    <3>1. i \in Ids /\ item[i] # NoItem /\ i \in EntriesOf(u) /\ ~entry[i].deleted /\ entry[i].seq \in Nat
      BY <1>0 DEF OwnedBy, EntriesOf, IInv, LogMatchesItems, TypeOK, Entries, Seqs
    <3>2. copy'[u][i] = IF q.items[i] # NoItem THEN q.items[i] ELSE IF i \in q.deleted THEN NoItem ELSE copy[u][i]
      BY <3>1, <2>2, <1>0 DEF TypeOK
    <3>3. CASE entry[i].seq > q.cursor
      BY <3>1, <3>3, <2>2, <1>0 DEF Coming, After, EntriesOf, server, TypeOK
    <3>4. CASE entry[i].seq <= cursor[u] /\ entry[i].seq <= q.cursor
      <4>1. i \notin q.changed /\ i \notin q.deleted
        BY <3>1, <3>4, <2>1 DEF AnswerOk
      <4>2. q.items[i] = NoItem
        BY <4>1, <3>1, <2>1, <1>5 DEF AnswerOk
      <4>3. ~Coming(u, i)
        BY <3>1, <3>4, <2>1 DEF Coming, After
      <4>4. copy[u][i] = item[i]
        BY <4>3, <2>1, <2>3 DEF GapsInv, NoGaps, Syncing
      <4> QED BY <3>2, <4>1, <4>2, <4>4, <2>2 DEF server
    <3>5. CASE entry[i].seq > cursor[u] /\ entry[i].seq <= q.cursor
      <4>1. i \in q.changed
        BY <3>1, <3>5, <2>1 DEF AnswerOk
      <4>2. q.items[i] = item[i]
        BY <4>1, <3>1, <3>5, <2>1, <1>5 DEF AnswerOk
      <4> QED BY <3>1, <3>2, <4>2, <2>2 DEF server
    <3> QED BY <3>1, <3>3, <3>4, <3>5, <2>1
  <2>4. OwnedBy(u)' = OwnedBy(u)
    BY <2>2 DEF OwnedBy, server
  <2> QED BY <1>0, <2>1, <2>2, <2>3, <2>4, GapsOwnStep DEF TypeOK
<1>6. ASSUME NEW u \in Users, Receive(u), request[u].step # "answer" PROVE GapsInv'
  <2>1. /\ phase' = [phase EXCEPT ![u] = "new"] /\ UNCHANGED server
        /\ copy' = [copy EXCEPT ![u] = Nothing] /\ cursor' = [cursor EXCEPT ![u] = 0]
    BY <1>6 DEF Receive
  <2> QED BY <1>0, <2>1, GapsOwnStep DEF TypeOK, Syncing
<1>7. CASE UNCHANGED vars
  BY <1>0, <1>7 DEF vars, GapsInv, NoGaps, Syncing, OwnedBy, Coming, After, EntriesOf
<1> QED BY <1>1, <1>2, <1>3, <1>4, <1>5, <1>6, <1>7 DEF Next, Sync

\* However many accounts write while its answers are put together, and however
\* many answers are lost: an app that started from since=0 never misses a write.
THEOREM ChangesHaveNoGaps == Spec => []NoGaps
<1>1. Init => GapsInv
  BY GapsInit
<1>2. GapsInv /\ [Next]_vars => GapsInv'
  BY GapsStep
<1>3. GapsInv => NoGaps
  BY DEF GapsInv
<1> QED BY <1>1, <1>2, <1>3, PTL DEF Spec

-----------------------------------------------------------------------------
(* No ghosts                                                               *)

\* An item that is gone is gone from the copy too, in every phase, or its
\* tombstone is to come, or the id is another account's.
TombstonesKnown ==
    \A u \in Users : \A i \in Ids \ OwnedBy(u) :
        copy[u][i] = NoItem \/ Coming(u, i) \/ HandedOver(u, i)

GhostInv == IInv /\ TombstonesKnown

LEMMA GhostInit == Init => GhostInv
  BY InitIInv DEF Init, GhostInv, TombstonesKnown, Nothing

\* What the step of one account's app has to do.
LEMMA GhostOwnStep ==
    ASSUME GhostInv, IInv', NEW u \in Users, UNCHANGED server,
           \A i \in Ids \ OwnedBy(u) : copy'[u][i] = NoItem \/ Coming(u, i)' \/ HandedOver(u, i)',
           \A v \in Users \ {u} : copy'[v] = copy[v] /\ cursor'[v] = cursor[v]
    PROVE  GhostInv'
<1>1. ASSUME NEW v \in Users, v # u, NEW i \in Ids \ OwnedBy(v)
      PROVE  copy'[v][i] = NoItem \/ Coming(v, i)' \/ HandedOver(v, i)'
  BY <1>1 DEF GhostInv, TombstonesKnown, Coming, After, EntriesOf, HandedOver, server
<1>2. \A v \in Users : OwnedBy(v)' = OwnedBy(v)
  BY DEF OwnedBy, server
<1> QED BY <1>1, <1>2 DEF GhostInv, TombstonesKnown

LEMMA GhostStep == GhostInv /\ [Next]_vars => GhostInv'
<1> SUFFICES ASSUME GhostInv, [Next]_vars PROVE GhostInv'
  OBVIOUS
<1>0. IInv /\ IInv' /\ TypeOK
  BY StepIInv DEF GhostInv, IInv
<1>1. ASSUME NEW u \in Users, Create(u) \/ \E i \in Ids : Edit(u, i) \/ Delete(u, i) PROVE GhostInv'
  <2>1. PICK i \in Ids, deleted \in BOOLEAN :
              /\ Log(u, i, deleted) /\ UNCHANGED app
              /\ deleted => i \in OwnedBy(u)
              /\ item[i] # NoItem => i \in OwnedBy(u)
              /\ item' = [item EXCEPT ![i] = IF deleted THEN NoItem ELSE [owner |-> u, ver |-> last + 1]]
    BY <1>0, <1>1, WritesLog
  <2>2. ASSUME NEW v \in Users, NEW k \in Ids \ OwnedBy(v)'
        PROVE  copy'[v][k] = NoItem \/ Coming(v, k)' \/ HandedOver(v, k)'
    <3>2. CASE k = i
      <4>1. entry'[k] = [user |-> u, seq |-> last + 1, deleted |-> deleted]
        BY <3>2, <2>1, <1>0 DEF Log, TypeOK
      <4>2. entry'[k].user = u /\ entry'[k].seq = last + 1 /\ last \in Nat
        BY <4>1, <1>0 DEF TypeOK, Seqs
      <4>3. last + 1 \in Seqs
        BY <2>1, Parameters, <1>0 DEF Log, TypeOK, Seqs
      <4>4. entry'[k] # NoEntry
        BY <4>1, <4>3, Distinct DEF Entries
      <4>5. cursor'[v] = cursor[v] /\ cursor[v] <= last /\ cursor[v] \in Nat
        BY <2>1, <1>0 DEF app, IInv, TypeOK, Seqs, AnswerMatchesLog, AnswerOk
      <4>6. CASE v = u
        BY <4>2, <4>4, <4>5, <4>6 DEF Coming, After, EntriesOf
      <4>7. CASE v # u
        BY <4>2, <4>4, <4>7 DEF HandedOver
      <4> QED BY <4>6, <4>7
    <3>3. CASE k # i
      <4>1. item'[k] = item[k] /\ entry'[k] = entry[k]
        BY <3>3, <2>1, <1>0 DEF TypeOK, Log
      <4> QED BY <4>1, <2>1 DEF GhostInv, TombstonesKnown, OwnedBy, Coming, After, EntriesOf, HandedOver, app
    <3> QED BY <3>2, <3>3
  <2> QED BY <1>0, <2>2 DEF GhostInv, TombstonesKnown
<1>2. ASSUME NEW u \in Users, Ask(u) \/ ReadRows(u) \/ ReadItems(u) \/ LoseAnswer(u) PROVE GhostInv'
  <2>1. UNCHANGED <<server, phase, cursor, offset, copy>>
    BY <1>2 DEF Ask, ReadRows, ReadItems, LoseAnswer
  <2> QED BY <1>0, <2>1 DEF GhostInv, TombstonesKnown, OwnedBy, Coming, After, EntriesOf, HandedOver, server
<1>3. ASSUME NEW u \in Users, StartSyncing(u) PROVE GhostInv'
  <2>1. /\ copy[u] = Nothing /\ UNCHANGED <<server, copy>>
        /\ \A v \in Users \ {u} : copy'[v] = copy[v] /\ cursor'[v] = cursor[v]
    BY <1>0, <1>3 DEF StartSyncing, IInv, NewHasNothing, TypeOK
  <2>2. \A i \in Ids : copy'[u][i] = NoItem
    BY <2>1 DEF Nothing
  <2> QED BY <1>0, <2>1, <2>2, GhostOwnStep
<1>4. ASSUME NEW u \in Users, ListPage(u) PROVE GhostInv'
  <2>1. /\ copy'[u] = [i \in Ids |-> IF i \in Page(u) THEN item[i] ELSE copy[u][i]]
        /\ UNCHANGED <<server, cursor>>
        /\ \A v \in Users \ {u} : copy'[v] = copy[v] /\ cursor'[v] = cursor[v]
    BY <1>0, <1>4 DEF ListPage, TypeOK
  <2>2. ASSUME NEW i \in Ids \ OwnedBy(u) PROVE copy'[u][i] = copy[u][i]
    BY <2>1 DEF Page
  <2>3. ASSUME NEW i \in Ids \ OwnedBy(u) PROVE copy'[u][i] = NoItem \/ Coming(u, i)' \/ HandedOver(u, i)'
    BY <2>1, <2>2 DEF GhostInv, TombstonesKnown, Coming, After, EntriesOf, HandedOver, server
  <2> QED BY <1>0, <2>1, <2>3, GhostOwnStep
<1>5. ASSUME NEW u \in Users, Receive(u), request[u].step = "answer" PROVE GhostInv'
  <2> DEFINE q == request[u]
  <2>1. /\ Asked(u) /\ HasRows(u) /\ q \in Requests /\ q.cursor \in Nat /\ cursor[u] \in Nat /\ AnswerOk(u)
    BY <1>0, <1>5 DEF Receive, IInv, TypeOK, AnswerMatchesLog, AnswerOk, Asked, HasRows, Requests, Seqs
  <2>2. /\ copy' = [copy EXCEPT ![u] = [i \in Ids |->
               IF q.items[i] # NoItem THEN q.items[i] ELSE IF i \in q.deleted THEN NoItem ELSE copy[u][i]]]
        /\ cursor' = [cursor EXCEPT ![u] = q.cursor] /\ UNCHANGED server
    BY <1>0, <1>5 DEF Receive, TypeOK
  <2>3. ASSUME NEW i \in Ids \ OwnedBy(u), ~HandedOver(u, i) PROVE copy'[u][i] = NoItem \/ Coming(u, i)'
    <3>1. item[i] = NoItem
      BY <1>0, <2>3 DEF OwnedBy, HandedOver, IInv, LogMatchesItems
    <3>2. copy'[u][i] = IF q.items[i] # NoItem THEN q.items[i] ELSE IF i \in q.deleted THEN NoItem ELSE copy[u][i]
      BY <2>2, <1>0 DEF TypeOK
    <3>3. entry[i] = NoEntry \/ entry[i].deleted
      BY <3>1, <1>0 DEF IInv, LogMatchesItems
    <3>4. CASE entry[i] = NoEntry
      <4>1. i \notin q.changed /\ i \notin q.deleted /\ ~Coming(u, i)
        BY <3>4, <2>1 DEF AnswerOk, Coming, After, EntriesOf
      <4>2. q.items[i] = NoItem
        BY <4>1, <2>1, <1>5 DEF AnswerOk
      <4> QED BY <3>2, <4>1, <4>2, <2>3 DEF GhostInv, TombstonesKnown
    <3>5. CASE entry[i] # NoEntry
      <4>1. i \in EntriesOf(u) /\ entry[i].deleted /\ entry[i].seq \in Nat
        BY <3>3, <3>5, <2>3, <1>0 DEF EntriesOf, HandedOver, TypeOK, Entries, Seqs
      <4>2. CASE entry[i].seq > q.cursor
        BY <4>1, <4>2, <2>2, <1>0 DEF Coming, After, EntriesOf, server, TypeOK
      <4>3. CASE entry[i].seq <= q.cursor
        <5>1. i \notin q.changed
          BY <4>1, <4>3, <2>1 DEF AnswerOk
        <5>2. q.items[i] = NoItem
          BY <5>1, <2>1, <1>5 DEF AnswerOk
        <5>3. CASE entry[i].seq > cursor[u]
          BY <3>2, <4>1, <4>3, <5>1, <5>2, <5>3, <2>1 DEF AnswerOk
        <5>4. CASE entry[i].seq <= cursor[u]
          BY <3>2, <4>1, <5>2, <5>4, <2>1, <2>3 DEF GhostInv, TombstonesKnown, Coming, After
        <5> QED BY <4>1, <5>3, <5>4, <2>1
      <4> QED BY <4>1, <4>2, <4>3, <2>1
    <3> QED BY <3>4, <3>5
  <2>4. \A i \in Ids : HandedOver(u, i)' <=> HandedOver(u, i)
    BY <2>2 DEF HandedOver, server
  <2>5. \A v \in Users \ {u} : copy'[v] = copy[v] /\ cursor'[v] = cursor[v]
    BY <2>2, <1>0 DEF TypeOK
  <2> QED BY <1>0, <2>2, <2>3, <2>4, <2>5, GhostOwnStep
<1>6. ASSUME NEW u \in Users, Receive(u), request[u].step # "answer" PROVE GhostInv'
  <2>1. /\ copy'[u] = Nothing /\ UNCHANGED server
        /\ \A v \in Users \ {u} : copy'[v] = copy[v] /\ cursor'[v] = cursor[v]
    BY <1>0, <1>6 DEF Receive, TypeOK
  <2>2. \A i \in Ids : copy'[u][i] = NoItem
    BY <2>1 DEF Nothing
  <2> QED BY <1>0, <2>1, <2>2, GhostOwnStep
<1>7. CASE UNCHANGED vars
  BY <1>0, <1>7
     DEF vars, GhostInv, TombstonesKnown, HandedOver, OwnedBy, Coming, After, EntriesOf
<1> QED BY <1>1, <1>2, <1>3, <1>4, <1>5, <1>6, <1>7 DEF Next, Sync

\* A deleted item never stays in an app for good, also when the app starts from
\* the lists (which may leave gaps, never ghosts), but for ids handed over.
THEOREM ChangesLeaveNoGhosts == Spec => []NoGhosts
<1>1. Init => GhostInv
  BY GhostInit
<1>2. GhostInv /\ [Next]_vars => GhostInv'
  BY GhostStep
<1>3. GhostInv => NoGhosts
  BY DEF GhostInv, TombstonesKnown, NoGhosts
<1> QED BY <1>1, <1>2, <1>3, PTL DEF Spec

-----------------------------------------------------------------------------
(* Only the account's own                                                  *)

AnswersOwn == \A u \in Users, i \in Ids :
    request[u] # NoRequest /\ request[u].items[i] # NoItem => request[u].items[i].owner = u

OwnInv == TypeOK /\ OnlyOwn /\ AnswersOwn

\* An id may go from one account to another while an answer is put together:
\* what an app gets is still its own account's.
THEOREM AppsHaveOnlyTheirOwn == Spec => []OnlyOwn
<1>1. Init => OwnInv
  BY InitIInv DEF IInv, Init, OwnInv, OnlyOwn, AnswersOwn, Nothing
<1>2. TypeOK /\ TypeOK' /\ OwnInv /\ [Next]_vars => OwnInv'
  <2> SUFFICES ASSUME TypeOK, TypeOK', OwnInv, [Next]_vars PROVE OnlyOwn' /\ AnswersOwn'
    BY DEF OwnInv
  <2>1. CASE UNCHANGED <<copy, request>>
    BY <2>1 DEF OwnInv, OnlyOwn, AnswersOwn
  <2>2. ASSUME NEW u \in Users, Ask(u) PROVE OnlyOwn' /\ AnswersOwn'
    <3>1. UNCHANGED copy /\ request'[u].items = Nothing /\ \A v \in Users \ {u} : request'[v] = request[v]
      BY <2>2 DEF Ask, TypeOK
    <3> QED BY <3>1 DEF OwnInv, OnlyOwn, AnswersOwn, Nothing
  <2>3. ASSUME NEW u \in Users, ReadRows(u) PROVE OnlyOwn' /\ AnswersOwn'
    <3>1. request[u] \in Requests /\ request[u] # NoRequest
      BY <2>3 DEF ReadRows, TypeOK
    <3>2. UNCHANGED copy /\ request'[u].items = request[u].items /\ \A v \in Users \ {u} : request'[v] = request[v]
      <4>1. PICK end \in Seqs, chg \in SUBSET Ids, del \in SUBSET Ids :
               request' = [request EXCEPT ![u] = [request[u] EXCEPT !.step = "items", !.cursor = end,
                                                                    !.changed = chg, !.deleted = del]]
        BY <2>3 DEF ReadRows, TypeOK, After, EntriesOf
      <4> DEFINE r == [request[u] EXCEPT !.step = "items", !.cursor = end, !.changed = chg, !.deleted = del]
      <4>2. r.items = request[u].items
        BY <3>1 DEF Requests
      <4> HIDE DEF r
      <4>3. request' = [request EXCEPT ![u] = r]
        BY <4>1 DEF r
      <4> QED BY <2>3, <4>2, <4>3 DEF ReadRows, TypeOK
    <3> QED BY <3>1, <3>2 DEF OwnInv, OnlyOwn, AnswersOwn
  <2>4. ASSUME NEW u \in Users, ReadItems(u) PROVE OnlyOwn' /\ AnswersOwn'
    <3> DEFINE named == [i \in Ids |-> IF i \in request[u].changed /\ Found(u, i) THEN item[i] ELSE NoItem]
    <3>1. request[u] \in Requests /\ request[u] # NoRequest
      BY <2>4 DEF ReadItems, TypeOK
    <3>2. UNCHANGED copy /\ request'[u].items = named /\ \A v \in Users \ {u} : request'[v] = request[v]
      BY <2>4, <3>1 DEF ReadItems, TypeOK, Requests
    <3>3. \A i \in Ids : named[i] # NoItem => named[i].owner = u
      BY DEF Found, OwnedBy
    <3> HIDE DEF named
    <3> QED BY <3>1, <3>2, <3>3 DEF OwnInv, OnlyOwn, AnswersOwn
  <2>5. ASSUME NEW u \in Users, Receive(u) PROVE OnlyOwn' /\ AnswersOwn'
    <3>1. /\ request[u] # NoRequest /\ request'[u] = NoRequest /\ \A v \in Users \ {u} : request'[v] = request[v]
          /\ \A v \in Users \ {u} : copy'[v] = copy[v]
      BY <2>5 DEF Receive, TypeOK
    <3>2. ASSUME NEW i \in Ids
          PROVE  copy'[u][i] = request[u].items[i] \/ copy'[u][i] = NoItem \/ copy'[u][i] = copy[u][i]
      <4>1. CASE request[u].step = "answer"
        <5>1. copy'[u] = [k \in Ids |-> IF request[u].items[k] # NoItem THEN request[u].items[k]
                                        ELSE IF k \in request[u].deleted THEN NoItem ELSE copy[u][k]]
          BY <2>5, <4>1 DEF Receive, TypeOK
        <5> QED BY <5>1
      <4>2. CASE request[u].step # "answer"
        BY <2>5, <4>2 DEF Receive, TypeOK, Nothing
      <4> QED BY <4>1, <4>2
    <3> QED BY <3>1, <3>2 DEF OwnInv, OnlyOwn, AnswersOwn
  <2>6. ASSUME NEW u \in Users, LoseAnswer(u) PROVE OnlyOwn' /\ AnswersOwn'
    BY <2>6 DEF LoseAnswer, TypeOK, OwnInv, OnlyOwn, AnswersOwn
  <2>7. ASSUME NEW u \in Users, ListPage(u) PROVE OnlyOwn' /\ AnswersOwn'
    <3>1. UNCHANGED request /\ \A v \in Users \ {u} : copy'[v] = copy[v]
      BY <2>7 DEF ListPage, TypeOK
    <3>2. ASSUME NEW i \in Ids PROVE copy'[u][i] = copy[u][i] \/ copy'[u][i].owner = u
      BY <2>7 DEF ListPage, TypeOK, Page, OwnedBy
    <3> QED BY <3>1, <3>2 DEF OwnInv, OnlyOwn, AnswersOwn
  <2> QED BY <2>1, <2>2, <2>3, <2>4, <2>5, <2>6, <2>7
          DEF Next, Sync, Create, Edit, Delete, StartSyncing, app, vars
<1>3. OwnInv => OnlyOwn
  BY DEF OwnInv
<1> QED BY <1>1, <1>2, <1>3, TypeCorrect, PTL DEF Spec

-----------------------------------------------------------------------------
(* Saving by email: proofs about MailCheck, for any messages and mailboxes. *)

Doing == {"saving", "remembering", "marking"}
InHand(c, m) == At(c, m, "saving") \/ At(c, m, "remembering")

\* Why a message that was saved is not saved again
Safe(m) ==
    \/ m \in remembered
    \/ m \in read /\ m \notin Held
    \/ \E c \in Checkers : At(c, m, "remembering")

SavedOnce ==
    \A m \in Messages \ unsure : items[m] > 0 =>
        items[m] = 1 /\ m \notin Nameless /\ Safe(m) /\ \A c \in Checkers : ~At(c, m, "saving")

\* Two checks that save one message at once make it an unsure one
OneSaves == \A m \in Messages \ unsure : \A c, d \in Checkers : InHand(c, m) /\ InHand(d, m) => c = d

\* What passes for saved is
SavedFirst ==
    \A m \in Messages \ Unwanted :
        \/ m \in read \/ m \in remembered
        \/ \E c \in Checkers : At(c, m, "remembering") \/ At(c, m, "marking")
        => items[m] > 0

WorkerChecks == task # "checking" => check["worker"] = NoCheck

MailInv == MailTypeOK /\ SavedOnce /\ OneSaves /\ SavedFirst /\ WorkerChecks

\* What a check is at is one of the messages it has.
LEMMA AtIsHeld ==
    ASSUME MailTypeOK, NEW c \in Checkers, NEW m, NEW step, At(c, m, step)
    PROVE  /\ m \in check[c].left /\ m \in Held /\ m \in Messages /\ m \in arrived
           /\ check[c] \in Checks /\ check[c] # NoCheck /\ check[c].step = step
<1>1. check[c].left \in SUBSET Messages /\ check[c].left # {} /\ m = Min(check[c].left) /\ check[c] \in Checks
      /\ check[c] # NoCheck /\ check[c].step = step
  BY DEF MailTypeOK, At, Checking, Checks
<1>2. m \in check[c].left
  BY <1>1, MinOfNumbers DEF Messages
<1>3. m \in Held
  BY <1>1, <1>2 DEF Held, Checking
<1> QED BY <1>1, <1>2, <1>3 DEF MailTypeOK

\* A check is at one message, in one step.
LEMMA AtOne ==
    ASSUME NEW c, NEW m, NEW k, NEW step, NEW other, At(c, m, step), At(c, k, other)
    PROVE  m = k /\ step = other
BY DEF At

\* A check that didn't move is where it was.
LEMMA AtStays ==
    ASSUME NEW d, check'[d] = check[d]
    PROVE  \A m, step : At(d, m, step)' <=> At(d, m, step)
BY DEF At, Checking

\* Where no check takes up a message, and what was safe is, or has become unsure.
LEMMA NothingTakenUp ==
    ASSUME MailInv, UNCHANGED items, unsure \subseteq unsure', read' \subseteq read, remembered' \subseteq remembered,
           \A d \in Checkers, m \in Messages, step \in Doing : At(d, m, step)' => At(d, m, step),
           \A m \in Messages \ unsure' : Safe(m) => Safe(m)'
    PROVE  SavedOnce' /\ OneSaves' /\ SavedFirst'
<1>0. /\ Messages' = Messages /\ Checkers' = Checkers
      /\ "saving" \in Doing /\ "remembering" \in Doing /\ "marking" \in Doing
  BY DEF Messages, Checkers, Doing
<1>1. SavedOnce'
  BY <1>0 DEF MailInv, SavedOnce
<1>2. OneSaves'
  BY <1>0 DEF MailInv, OneSaves, InHand
<1>3. SavedFirst'
  BY <1>0 DEF MailInv, SavedFirst
<1> QED BY <1>1, <1>2, <1>3

Replaced(c, new) == [check EXCEPT ![c] = new]
Quiet(c) == \A m \in Messages, step \in Doing : ~At(c, m, step)'

\* A check takes a step with the message it is at: it has the same messages left.
LEMMA StepsTo ==
    ASSUME MailTypeOK, NEW c \in Checkers, NEW m, NEW step, At(c, m, step),
           NEW to \in {"asking", "saving", "remembering", "marking"}, check' = To(c, to)
    PROVE  /\ check' \in [Checkers -> Checks \cup {NoCheck}] /\ Held' = Held
           /\ At(c, m, to)'
           /\ \A d \in Checkers \ {c} : check'[d] = check[d]
           /\ check'[c] # NoCheck
<1>1. check[c] \in Checks /\ check[c].left # {} /\ m = Min(check[c].left)
  BY AtIsHeld DEF At
<1>2. check \in [Checkers -> Checks \cup {NoCheck}]
  BY DEF MailTypeOK
<1>3. /\ check'[c] = [check[c] EXCEPT !.step = to]
      /\ \A d \in Checkers \ {c} : check'[d] = check[d]
      /\ DOMAIN check' = Checkers /\ check' = [d \in Checkers |-> check'[d]]
  BY <1>2 DEF To
<1>4. check'[c] \in Checks /\ check'[c].left = check[c].left /\ check'[c].step = to
  BY <1>1, <1>3 DEF Checks
<1>5. check'[c] # NoCheck /\ check[c] # NoCheck
  BY <1>1, <1>4, MailDistinct
<1>6. check' \in [Checkers -> Checks \cup {NoCheck}]
  BY <1>2, <1>3, <1>4
<1>7. At(c, m, to)'
  BY <1>1, <1>4, <1>5 DEF At, Checking
<1>8. \A d \in Checkers : check'[d] # NoCheck <=> check[d] # NoCheck
  BY <1>3, <1>5
<1>9. \A d \in Checkers : check[d] # NoCheck => check'[d].left = check[d].left
  BY <1>3, <1>4
<1>10. Held' = Held
  BY <1>8, <1>9 DEF Held, Checking, Checkers
<1> QED BY <1>3, <1>5, <1>6, <1>7, <1>10

\* A check starts anew, is over, or has to ask of its next message: it is at none.
LEMMA ComesToRest ==
    ASSUME MailTypeOK, NEW c \in Checkers, NEW new \in Checks \cup {NoCheck},
           check' = Replaced(c, new), new # NoCheck => new.left = {} \/ new.step = "asking"
    PROVE  /\ check' \in [Checkers -> Checks \cup {NoCheck}] /\ check'[c] = new
           /\ \A d \in Checkers \ {c} : check'[d] = check[d]
           /\ new = NoCheck => Held' \subseteq Held
           /\ new # NoCheck => Held' \subseteq Held \cup new.left
           /\ Quiet(c)
<1>1. check \in [Checkers -> Checks \cup {NoCheck}]
  BY DEF MailTypeOK
<1>2. check' \in [Checkers -> Checks \cup {NoCheck}] /\ check'[c] = new
      /\ \A d \in Checkers \ {c} : check'[d] = check[d]
  BY <1>1 DEF Replaced
<1>3. Quiet(c)
  BY <1>2 DEF Quiet, At, Checking, Doing
<1>4. ASSUME NEW k \in Held' PROVE k \in Held \/ (new # NoCheck /\ k \in new.left)
  <2>1. PICK d \in Checkers : check'[d] # NoCheck /\ k \in check'[d].left
    BY <1>4 DEF Held, Checking, Checkers
  <2>2. CASE d = c
    BY <2>1, <2>2, <1>2
  <2>3. CASE d # c
    <3>1. check[d] # NoCheck /\ k \in check[d].left
      BY <2>1, <2>3, <1>2
    <3>2. k \in Held
      BY <3>1 DEF Held, Checking
    <3> QED BY <3>2
  <2> QED BY <2>2, <2>3
<1> QED BY <1>2, <1>3, <1>4

\* A check has done with a message, or with all of them.
LEMMA LetsGo ==
    ASSUME MailTypeOK, NEW c \in Checkers, NEW m, NEW step, At(c, m, step),
           check' \in {Done(c, m), [check EXCEPT ![c].left = {}]}
    PROVE  /\ check' \in [Checkers -> Checks \cup {NoCheck}] /\ Held' \subseteq Held
           /\ \A d \in Checkers \ {c} : check'[d] = check[d]
           /\ Quiet(c)
<1>1. check[c] \in Checks
  BY AtIsHeld
<1>2. check \in [Checkers -> Checks \cup {NoCheck}]
  BY DEF MailTypeOK
<1>3. PICK new \in Checks :
          check' = Replaced(c, new) /\ new.left \subseteq check[c].left /\ (new.left = {} \/ new.step = "asking")
  <2>1. CASE check' = Done(c, m)
    <3> DEFINE new == [check[c] EXCEPT !.left = @ \ {m}, !.step = "asking"]
    <3>1. new \in Checks /\ new.left = check[c].left \ {m} /\ new.step = "asking"
      BY <1>1 DEF Checks
    <3>2. check' = Replaced(c, new)
      BY <2>1, <1>2 DEF Done, Replaced
    <3> HIDE DEF new
    <3> QED BY <3>1, <3>2
  <2>2. CASE check' = [check EXCEPT ![c].left = {}]
    <3> DEFINE new == [check[c] EXCEPT !.left = {}]
    <3>1. new \in Checks /\ new.left = {}
      BY <1>1 DEF Checks
    <3>2. check' = Replaced(c, new)
      BY <2>2, <1>2 DEF Replaced
    <3> HIDE DEF new
    <3> QED BY <3>1, <3>2
  <2> QED BY <2>1, <2>2
<1>4. new # NoCheck
  BY MailDistinct
<1>5. new.left \subseteq Held
  BY <1>1, <1>3, AtIsHeld DEF Held, Checking
<1> QED BY <1>3, <1>4, <1>5, ComesToRest

\* Where one check came to rest and the other didn't move, none is at more than before.
LEMMA OneRests ==
    ASSUME NEW c \in Checkers, Quiet(c), \A d \in Checkers \ {c} : check'[d] = check[d]
    PROVE  \A d \in Checkers, m \in Messages, step \in Doing :
               /\ At(d, m, step)' => At(d, m, step)
               /\ d # c /\ At(d, m, step) => At(d, m, step)'
<1> TAKE d \in Checkers, m \in Messages, step \in Doing
<1>1. CASE d = c
  BY <1>1 DEF Quiet
<1>2. CASE d # c
  BY <1>2, AtStays
<1> QED BY <1>1, <1>2

\* As NothingTakenUp, where what was safe is so for the reason it was.
LEMMA NothingLetGo ==
    ASSUME MailInv, UNCHANGED <<items, read, remembered, unsure>>, Held' \cap read \subseteq Held,
           \A d \in Checkers, m \in Messages, step \in Doing : At(d, m, step)' => At(d, m, step),
           \A d \in Checkers, m \in Messages : At(d, m, "remembering") => At(d, m, "remembering")'
    PROVE  SavedOnce' /\ OneSaves' /\ SavedFirst'
<1>1. \A m \in Messages \ unsure' : Safe(m) => Safe(m)'
  BY DEF Safe, Checkers
<1> QED BY <1>1, NothingTakenUp

\* Nothing changes for what is saved while no check takes a step.
LEMMA NoStep ==
    ASSUME MailInv, UNCHANGED <<items, read, remembered, unsure, check>>
    PROVE  SavedOnce' /\ OneSaves' /\ SavedFirst'
<1>1. \A d \in Checkers, m \in Messages, step \in Doing : At(d, m, step)' => At(d, m, step)
  BY DEF At, Checking
<1>2. \A d \in Checkers, m \in Messages : At(d, m, "remembering") => At(d, m, "remembering")'
  BY DEF At, Checking
<1>3. Held' = Held
  BY DEF Held, Checking
<1> QED BY <1>1, <1>2, <1>3, NothingLetGo

\* Looking, which decides whether a message is to be saved, when it is looked at.
LEMMA LookSaves ==
    ASSUME MailInv, NEW c \in Checkers, NEW m \in Messages, Look(c, m)
    PROVE  SavedOnce' /\ OneSaves' /\ SavedFirst'
<1> DEFINE done == m \in Unwanted \/ (m \notin Nameless /\ AlreadySaved(c, m))
<1> PICK to \in {"saving", "marking"} : to = IF done THEN "marking" ELSE "saving"
  OBVIOUS
<1>1. At(c, m, "asking") /\ check' = To(c, to) /\ UNCHANGED <<box, on, remembered, items, arrived, read>>
      /\ unsure' = unsure \cup (IF ~done /\ (OthersSave(c, m) \/ box # check[c].box) THEN {m} ELSE {})
  BY DEF Look, account, mailbox, memory
<1>2. to \in {"asking", "saving", "remembering", "marking"} /\ MailTypeOK
  BY DEF MailInv
<1>3. Held' = Held /\ At(c, m, to)' /\ \A d \in Checkers \ {c} : check'[d] = check[d]
  BY <1>1, <1>2, StepsTo
<1>4. \A d \in Checkers \ {c} : \A k, step : At(d, k, step)' <=> At(d, k, step)
  BY <1>3, AtStays
<1>5. \A k, step : At(c, k, step)' => k = m /\ step = to
  BY <1>3 DEF At
<1>6. \A k, step : At(c, k, step) => k = m /\ step = "asking"
  BY <1>1, AtOne
<1>7. \A k : Safe(k) => Safe(k)'
  <2> TAKE k
  <2>1. \A d \in Checkers : At(d, k, "remembering") => At(d, k, "remembering")'
    BY <1>4, <1>6
  <2> QED BY <2>1, <1>1, <1>3 DEF Safe, Checkers
<1>8. m \in Held
  BY <1>1, <1>2, AtIsHeld
<1>9. ASSUME ~done, m \notin unsure'
      PROVE  ~(items[m] > 0) /\ m \notin unsure /\ \A d \in Checkers \ {c} : ~At(d, m, "saving") /\ ~At(d, m, "remembering")
  <2>1. \A d \in Checkers \ {c} : ~At(d, m, "saving") /\ ~At(d, m, "remembering")
    BY <1>9, <1>1 DEF OthersSave
  <2>2. m \notin unsure /\ box = check[c].box
    BY <1>9, <1>1
  <2>3. ~Safe(m) \/ m \in Nameless
    BY <1>9, <2>1, <2>2, <1>6, <1>8 DEF Safe, AlreadySaved
  <2>4. ~(items[m] > 0)
    BY <2>2, <2>3 DEF MailInv, SavedOnce
  <2> QED BY <2>1, <2>2, <2>4
<1>10. done => to = "marking"
  OBVIOUS
<1>11. ~done => to = "saving"
  OBVIOUS
<1>12. SavedOnce'
  <2> SUFFICES ASSUME NEW k \in Messages, k \notin unsure', items[k] > 0
               PROVE  items[k] = 1 /\ k \notin Nameless /\ Safe(k)' /\ \A d \in Checkers : ~At(d, k, "saving")'
    BY <1>1 DEF SavedOnce, Messages, Checkers
  <2>1. items[k] = 1 /\ k \notin Nameless /\ Safe(k) /\ \A d \in Checkers : ~At(d, k, "saving")
    BY <1>1 DEF MailInv, SavedOnce
  <2>2. ASSUME NEW d \in Checkers, At(d, k, "saving")' PROVE FALSE
    <3>1. d = c /\ k = m /\ to = "saving"
      BY <2>1, <2>2, <1>4, <1>5
    <3> QED BY <3>1, <1>9, <1>10
  <2> QED BY <2>1, <2>2, <1>7
<1>13. OneSaves'
  <2> SUFFICES ASSUME NEW k \in Messages, k \notin unsure', NEW d \in Checkers, NEW e \in Checkers,
                      InHand(d, k)', InHand(e, k)', d # e
               PROVE  FALSE
    BY DEF OneSaves, Messages, Checkers
  <2>1. k \notin unsure
    BY <1>1
  <2>2. CASE d # c /\ e # c
    BY <2>1, <2>2, <1>4 DEF MailInv, OneSaves, InHand
  <2>3. ASSUME NEW o \in Checkers \ {c}, InHand(o, k)', InHand(c, k)' PROVE FALSE
    <3>1. k = m /\ to # "marking"
      BY <2>3, <1>5 DEF InHand
    <3>2. InHand(o, m)
      BY <2>3, <3>1, <1>4 DEF InHand
    <3> QED BY <3>1, <3>2, <1>9, <1>10 DEF InHand
  <2> QED BY <2>2, <2>3
<1>14. SavedFirst'
  <2> SUFFICES ASSUME NEW k \in Messages \ Unwanted, ~(items[k] > 0),
                      \/ k \in read \/ k \in remembered
                      \/ \E d \in Checkers : At(d, k, "remembering")' \/ At(d, k, "marking")'
               PROVE  FALSE
    BY <1>1 DEF SavedFirst, Messages, Checkers
  <2>1. k \notin read /\ k \notin remembered /\ \A d \in Checkers : ~At(d, k, "remembering") /\ ~At(d, k, "marking")
    BY DEF MailInv, SavedFirst
  <2>2. PICK d \in Checkers : At(d, k, "remembering")' \/ At(d, k, "marking")'
    BY <2>1
  <2>3. d = c /\ k = m /\ to = "marking"
    BY <2>1, <2>2, <1>2, <1>4, <1>5
  <2>4. done
    BY <2>3, <1>11
  <2> QED BY <2>1, <2>3, <2>4 DEF AlreadySaved
<1> QED BY <1>12, <1>13, <1>14

\* One item more, up to two.
LEMMA SavedMore ==
    ASSUME NEW n \in 0..2
    PROVE  /\ Min({n + 1, 2}) \in {n + 1, 2} /\ (n = 0 => Min({n + 1, 2}) = 1)
           /\ Min({n + 1, 2}) \in 0..2
<1>1. {n + 1, 2} \in SUBSET Nat /\ {n + 1, 2} # {}
  OBVIOUS
<1>2. Min({n + 1, 2}) \in {n + 1, 2} /\ \A y \in {n + 1, 2} : Min({n + 1, 2}) <= y
  BY <1>1, MinOfNumbers
<1> QED BY <1>2

\* Saving, by one check, once.
LEMMA SaveSaves ==
    ASSUME MailInv, NEW c \in Checkers, NEW m \in Messages, Save(c, m)
    PROVE  SavedOnce' /\ OneSaves' /\ SavedFirst'
<1> PICK to \in {"remembering", "marking"} : to = AfterSaving(m)
  BY DEF AfterSaving
<1>1. /\ At(c, m, "saving") /\ check' = To(c, to) /\ UNCHANGED <<remembered, read>>
      /\ unsure' = unsure \cup (Nameless \cap {m}) /\ MailTypeOK
  BY DEF Save, mailbox, memory, MailInv
<1>2. to \in {"asking", "saving", "remembering", "marking"}
  OBVIOUS
<1>3. Held' = Held /\ At(c, m, to)' /\ \A d \in Checkers \ {c} : check'[d] = check[d]
  BY <1>1, <1>2, StepsTo
<1>4. \A d \in Checkers \ {c} : \A k, step : At(d, k, step)' <=> At(d, k, step)
  BY <1>3, AtStays
<1>5. \A k, step : At(c, k, step)' => k = m /\ step = to
  BY <1>3 DEF At
<1>6. \A k, step : At(c, k, step) => k = m /\ step = "saving"
  BY <1>1, AtOne
<1>7. \A k : Safe(k) => Safe(k)'
  <2> TAKE k
  <2>1. \A d \in Checkers : At(d, k, "remembering") => At(d, k, "remembering")'
    BY <1>4, <1>6
  <2> QED BY <2>1, <1>1, <1>3 DEF Safe, Checkers
<1>8. items \in [Messages -> 0..2] /\ items' = [items EXCEPT ![m] = Min({items[m] + 1, 2})]
  BY <1>1 DEF Save, Many, MailTypeOK
<1>9. Min({items[m] + 1, 2}) \in {items[m] + 1, 2} /\ (items[m] = 0 => Min({items[m] + 1, 2}) = 1)
  BY <1>8, SavedMore
<1>10. items'[m] > 0 /\ (items[m] = 0 => items'[m] = 1) /\ \A k \in Messages \ {m} : items'[k] = items[k]
  BY <1>8, <1>9
<1>11. ASSUME m \notin unsure' PROVE items[m] = 0 /\ m \notin Nameless /\ m \notin unsure /\ to = "remembering"
  <2>1. m \notin Nameless /\ m \notin unsure
    BY <1>11, <1>1
  <2>2. ~(items[m] > 0)
    BY <2>1, <1>1 DEF MailInv, SavedOnce
  <2>3. items[m] \in 0..2
    BY <1>8
  <2> QED BY <2>1, <2>2, <2>3 DEF AfterSaving
<1>12. \A d \in Checkers : \A k : At(d, k, "saving")' => At(d, k, "saving") /\ d # c
  BY <1>4, <1>5
<1>13. SavedOnce'
  <2> SUFFICES ASSUME NEW k \in Messages, k \notin unsure', items'[k] > 0
               PROVE  items'[k] = 1 /\ k \notin Nameless /\ Safe(k)' /\ \A d \in Checkers : ~At(d, k, "saving")'
    BY DEF SavedOnce, Messages, Checkers
  <2>1. CASE k = m
    <3>1. Safe(m)'
      BY <2>1, <1>3, <1>11 DEF Safe, Checkers
    <3>2. \A d \in Checkers : ~At(d, m, "saving")'
      BY <2>1, <1>1, <1>11, <1>12 DEF MailInv, OneSaves, InHand
    <3> QED BY <2>1, <3>1, <3>2, <1>10, <1>11
  <2>2. CASE k # m
    <3>1. k \notin unsure /\ items'[k] = items[k]
      BY <2>2, <1>1, <1>10
    <3>2. items[k] = 1 /\ k \notin Nameless /\ Safe(k) /\ \A d \in Checkers : ~At(d, k, "saving")
      BY <3>1 DEF MailInv, SavedOnce
    <3> QED BY <3>1, <3>2, <1>7, <1>12
  <2> QED BY <2>1, <2>2
<1>14. OneSaves'
  <2>1. \A d \in Checkers, k \in Messages : InHand(d, k)' => InHand(d, k)
    BY <1>1, <1>4, <1>5 DEF InHand
  <2> QED BY <2>1, <1>1 DEF MailInv, OneSaves, Messages, Checkers
<1>15. SavedFirst'
  <2> SUFFICES ASSUME NEW k \in Messages \ Unwanted, ~(items'[k] > 0),
                      \/ k \in read \/ k \in remembered
                      \/ \E d \in Checkers : At(d, k, "remembering")' \/ At(d, k, "marking")'
               PROVE  FALSE
    BY <1>1 DEF SavedFirst, Messages, Checkers
  <2>1. k # m /\ ~(items[k] > 0)
    BY <1>10
  <2>2. k \notin read /\ k \notin remembered /\ \A d \in Checkers : ~At(d, k, "remembering") /\ ~At(d, k, "marking")
    BY <2>1 DEF MailInv, SavedFirst
  <2> QED BY <2>1, <2>2, <1>4, <1>5
<1> QED BY <1>13, <1>14, <1>15

\* Remembering what was saved, and marking it read.
LEMMA RememberSaves ==
    ASSUME MailInv, NEW c \in Checkers, NEW m \in Messages,
           Remember(c, m) \/ Mark(c, m)
    PROVE  SavedOnce' /\ OneSaves' /\ SavedFirst'
<1>1. UNCHANGED <<items, unsure>> /\ MailTypeOK
  BY DEF Remember, Mark, MailInv
<1>2. /\ At(c, m, "remembering") \/ At(c, m, "marking")
      /\ \A d \in Checkers \ {c} : check'[d] = check[d]
      /\ \A d \in Checkers, k \in Messages : ~At(d, k, "saving")' \/ At(d, k, "saving")
      /\ \A k \in Messages : ~At(c, k, "remembering")'
      /\ \A k \in Messages : At(c, k, "marking")' => k = m
      /\ Held' \subseteq Held
      /\ remembered \subseteq remembered' /\ read \subseteq read'
      /\ remembered' \subseteq remembered \cup {m} /\ read' \subseteq read \cup {m}
      /\ At(c, m, "remembering") => m \in remembered'
  <2>1. CASE Remember(c, m)
    <3>1. At(c, m, "remembering") /\ check' = To(c, "marking") /\ remembered' = remembered \cup {m} /\ read' = read
      BY <2>1 DEF Remember, mailbox
    <3>2. Held' = Held /\ At(c, m, "marking")' /\ \A d \in Checkers \ {c} : check'[d] = check[d]
      BY <3>1, <1>1, StepsTo
    <3>3. \A k, step : At(c, k, step)' => k = m /\ step = "marking"
      BY <3>2 DEF At
    <3>4. \A d \in Checkers \ {c} : \A k, step : At(d, k, step)' <=> At(d, k, step)
      BY <3>2, AtStays
    <3> QED BY <3>1, <3>2, <3>3, <3>4
  <2>2. CASE Mark(c, m)
    <3>1. At(c, m, "marking") /\ check' = Done(c, m) /\ read' = read \cup {m} /\ remembered' = remembered
      BY <2>2 DEF Mark, memory
    <3>2. Held' \subseteq Held /\ Quiet(c) /\ \A d \in Checkers \ {c} : check'[d] = check[d]
      BY <3>1, <1>1, LetsGo
    <3>3. \A d \in Checkers, k \in Messages, step \in Doing : At(d, k, step)' => At(d, k, step)
      BY <3>2, OneRests
    <3>4. ~At(c, m, "remembering")
      BY <3>1, AtOne
    <3> QED BY <3>1, <3>2, <3>3, <3>4 DEF Quiet, Doing
  <2> QED BY <2>1, <2>2
<1>3. \A d \in Checkers \ {c} : \A k, step : At(d, k, step)' <=> At(d, k, step)
  BY <1>2, AtStays
<1>4. \A k \in Messages \ {m} : ~At(c, k, "remembering")
  BY <1>2, AtOne
<1>5. ASSUME NEW k \in Messages, Safe(k) PROVE Safe(k)'
  <2>1. CASE k \in remembered
    BY <2>1, <1>2 DEF Safe
  <2>2. CASE k \in read /\ k \notin Held
    BY <2>2, <1>2 DEF Safe
  <2>3. CASE \E d \in Checkers : At(d, k, "remembering")
    <3> PICK d \in Checkers : At(d, k, "remembering")
      BY <2>3
    <3>1. CASE d # c
      BY <3>1, <1>3 DEF Safe, Checkers
    <3>2. CASE d = c
      BY <3>2, <1>2, <1>4 DEF Safe
    <3> QED BY <3>1, <3>2
  <2> QED BY <1>5, <2>1, <2>2, <2>3 DEF Safe
<1>6. SavedOnce'
  <2> SUFFICES ASSUME NEW k \in Messages, k \notin unsure, items[k] > 0
               PROVE  items[k] = 1 /\ k \notin Nameless /\ Safe(k)' /\ \A d \in Checkers : ~At(d, k, "saving")'
    BY <1>1 DEF SavedOnce, Messages, Checkers
  <2>1. items[k] = 1 /\ k \notin Nameless /\ Safe(k) /\ \A d \in Checkers : ~At(d, k, "saving")
    BY DEF MailInv, SavedOnce
  <2> QED BY <2>1, <1>2, <1>5
<1>7. OneSaves'
  <2>1. \A d \in Checkers, k \in Messages : InHand(d, k)' => InHand(d, k)
    BY <1>2, <1>3 DEF InHand
  <2> QED BY <2>1, <1>1 DEF MailInv, OneSaves, Messages, Checkers
<1>8. SavedFirst'
  <2> SUFFICES ASSUME NEW k \in Messages \ Unwanted, ~(items[k] > 0),
                      \/ k \in read' \/ k \in remembered'
                      \/ \E d \in Checkers : At(d, k, "remembering")' \/ At(d, k, "marking")'
               PROVE  FALSE
    BY <1>1 DEF SavedFirst, Messages, Checkers
  <2>1. k \notin read /\ k \notin remembered /\ \A d \in Checkers : ~At(d, k, "remembering") /\ ~At(d, k, "marking")
    BY DEF MailInv, SavedFirst
  <2>2. k # m
    BY <2>1, <1>2
  <2> QED BY <2>1, <2>2, <1>2, <1>3
<1> QED BY <1>6, <1>7, <1>8

\* What a check begins with is unread; and a check begins or ends with no message.
LEMMA BeginsOrEnds ==
    ASSUME MailTypeOK, NEW c \in Checkers, check[c] = NoCheck \/ check[c].left = {},
           check' = Replaced(c, NoCheck) \/ \E b \in BoxIds : check' = Opened(c, b)
    PROVE  /\ check' \in [Checkers -> Checks \cup {NoCheck}] /\ Held' \subseteq arrived
           /\ \A d \in Checkers \ {c} : check'[d] = check[d]
           /\ Held' \cap read \subseteq Held
           /\ check' = Replaced(c, NoCheck) => Held' \subseteq Held /\ check'[c] = NoCheck
           /\ Quiet(c)
           /\ \A d \in Checkers, k \in Messages, step \in Doing : At(d, k, step)' => At(d, k, step)
           /\ \A d \in Checkers, k \in Messages : At(d, k, "remembering") => At(d, k, "remembering")'
<1>1. arrived \subseteq Messages /\ Held \subseteq arrived
  BY DEF MailTypeOK
<1>2. CASE check' = Replaced(c, NoCheck)
  <2>1. Held' \subseteq Held /\ Quiet(c) /\ (\A d \in Checkers \ {c} : check'[d] = check[d]) /\ check'[c] = NoCheck
        /\ check' \in [Checkers -> Checks \cup {NoCheck}]
    BY <1>2, ComesToRest
  <2>2. \A k : ~At(c, k, "remembering")
    BY DEF At, Checking
  <2> QED BY <1>1, <2>1, <2>2, OneRests DEF Doing
<1>3. ASSUME NEW b \in BoxIds, check' = Opened(c, b)
      PROVE  /\ check' \in [Checkers -> Checks \cup {NoCheck}] /\ Held' \subseteq Held \cup (arrived \ read)
             /\ \A d \in Checkers \ {c} : check'[d] = check[d]
             /\ Quiet(c) /\ check'[c] # NoCheck
  <2> DEFINE new == [box |-> b, left |-> Listed, step |-> "asking"]
  <2>1. Listed \subseteq arrived \ read
    BY DEF Listed, Oldest, Unread
  <2>2. new \in Checks /\ new.left = Listed /\ new.step = "asking"
    BY <1>1, <2>1 DEF Checks
  <2>3. check' = Replaced(c, new)
    BY <1>3 DEF Opened, Replaced
  <2>4. new # NoCheck
    BY <2>2, MailDistinct
  <2> HIDE DEF new
  <2> QED BY <2>1, <2>2, <2>3, <2>4, ComesToRest
<1>4. ASSUME NEW b \in BoxIds, check' = Opened(c, b)
      PROVE  /\ \A d \in Checkers, k \in Messages, step \in Doing : At(d, k, step)' => At(d, k, step)
             /\ \A d \in Checkers, k \in Messages : At(d, k, "remembering") => At(d, k, "remembering")'
             /\ check' # Replaced(c, NoCheck)
  <2>1. \A k : ~At(c, k, "remembering")
    BY DEF At, Checking
  <2>2. check' # Replaced(c, NoCheck)
    BY <1>3, <1>4, ComesToRest
  <2> QED BY <1>3, <1>4, <2>1, <2>2, OneRests DEF Doing
<1>5. CASE \E b \in BoxIds : check' = Opened(c, b)
  <2> PICK b \in BoxIds : check' = Opened(c, b)
    BY <1>5
  <2> QED BY <1>1, <1>3, <1>4
<1> QED BY <1>2, <1>5

\* A message that is let go, or can't be remembered, is left as it was, or unsure.
LEMMA FailingSaves ==
    ASSUME MailInv, NEW c \in Checkers, NEW m \in Messages,
           SavingFails(c, m) \/ NotMarked(c, m) \/ RememberingFails(c, m)
    PROVE  SavedOnce' /\ OneSaves' /\ SavedFirst'
<1>1. PICK step \in Doing : At(c, m, step) /\ (step # "remembering" \/ m \in unsure')
  BY DEF SavingFails, NotMarked, RememberingFails, Doing
<1>2. check' \in {Done(c, m), [check EXCEPT ![c].left = {}]} /\ UNCHANGED <<items, read, remembered>> /\ unsure \subseteq unsure'
  BY DEF SavingFails, NotMarked, RememberingFails, mailbox, memory, LeftUnread
<1>3. Held' \subseteq Held /\ Quiet(c) /\ \A d \in Checkers \ {c} : check'[d] = check[d]
  BY <1>1, <1>2, LetsGo DEF MailInv
<1>4. \A d \in Checkers, k \in Messages, st \in Doing :
          (At(d, k, st)' => At(d, k, st)) /\ (d # c /\ At(d, k, st) => At(d, k, st)')
  BY <1>3, OneRests
<1>5. \A k \in Messages : At(c, k, "remembering") => k \in unsure'
  BY <1>1, AtOne
<1>6. \A k \in Messages \ unsure' : Safe(k) => Safe(k)'
  BY <1>2, <1>3, <1>4, <1>5 DEF Safe, Doing, Checkers
<1> QED BY <1>2, <1>4, <1>6, NothingTakenUp

\* Forgetting what the mailbox has read and no check holds does no harm; the rest is unsure.
LEMMA ForgottenIsSafe ==
    ASSUME NEW forgotten, remembered' = remembered \ forgotten, read' = read, unsure' = unsure \cup Again(forgotten),
           Held' \cap read \subseteq Held,
           \A d \in Checkers, k \in Messages : At(d, k, "remembering") => At(d, k, "remembering")'
    PROVE  \A k \in Messages \ unsure' : Safe(k) => Safe(k)'
BY DEF Again, Safe, Checkers

\* A check that begins or ends, and the end of the worker's round.
LEMMA RoundSaves ==
    ASSUME MailInv, CheckByHand \/ HandDone \/ Open \/ RoundDone
    PROVE  SavedOnce' /\ OneSaves' /\ SavedFirst'
<1>1. PICK c \in Checkers :
          /\ check[c] = NoCheck \/ check[c].left = {}
          /\ check' = Replaced(c, NoCheck) \/ \E b \in BoxIds : check' = Opened(c, b)
  <2>0. "hand" \in Checkers /\ "worker" \in Checkers /\ box \in BoxIds /\ found \in BoxIds
    BY DEF Checkers, MailInv, MailTypeOK
  <2>1. CASE CheckByHand
    BY <2>0, <2>1 DEF CheckByHand, Checking
  <2>2. CASE HandDone
    BY <2>0, <2>2 DEF HandDone, Checking, Replaced
  <2>3. CASE Open
    BY <2>0, <2>3 DEF Open, MailInv, WorkerChecks
  <2>4. CASE RoundDone
    BY <2>0, <2>4 DEF RoundDone, Replaced
  <2> QED BY <2>1, <2>2, <2>3, <2>4
<1>2. /\ Held' \cap read \subseteq Held
      /\ \A d \in Checkers, k \in Messages, step \in Doing : At(d, k, step)' => At(d, k, step)
      /\ \A d \in Checkers, k \in Messages : At(d, k, "remembering") => At(d, k, "remembering")'
  BY <1>1, BeginsOrEnds DEF MailInv
<1>3. CASE CheckByHand \/ HandDone \/ Open
  <2>1. UNCHANGED <<items, read, remembered, unsure>>
    BY <1>3 DEF CheckByHand, HandDone, Open, mailbox, memory
  <2> QED BY <2>1, <1>2, NothingLetGo
<1>4. CASE RoundDone
  <2>1. /\ remembered' = remembered \ old /\ unsure' = unsure \cup Again(old)
        /\ UNCHANGED <<items, read>>
    BY <1>4 DEF RoundDone, ForgetOld, mailbox
  <2>2. \A k \in Messages \ unsure' : Safe(k) => Safe(k)'
    BY <2>1, <1>2, ForgottenIsSafe
  <2> QED BY <2>1, <2>2, <1>2, NothingTakenUp
<1> QED BY <1>3, <1>4

\* Removing the mailbox, a round skipped, a lost read flag and a restart: what they
\* forget is unsure.
LEMMA ForgettingSaves ==
    ASSUME MailInv, Disconnect \/ SkipRound \/ Restart \/ \E m \in Messages : LoseFlag(m)
    PROVE  SavedOnce' /\ OneSaves' /\ SavedFirst'
<1>1. CASE Disconnect \/ SkipRound
  <2>1. PICK forgotten : /\ remembered' = remembered \ forgotten /\ unsure' = unsure \cup Again(forgotten)
                         /\ UNCHANGED <<items, read, check>>
    <3>1. CASE Disconnect
      <4>1. remembered' = remembered \ remembered /\ unsure' = unsure \cup Again(remembered) /\ UNCHANGED <<items, read, check>>
        BY <3>1 DEF Disconnect, mailbox
      <4> QED BY <4>1
    <3>2. CASE SkipRound
      <4>1. remembered' = remembered \ old /\ unsure' = unsure \cup Again(old) /\ UNCHANGED <<items, read, check>>
        BY <3>2 DEF SkipRound, ForgetOld, mailbox
      <4> QED BY <4>1
    <3> QED BY <1>1, <3>1, <3>2
  <2>2. Held' = Held
    BY <2>1 DEF Held, Checking
  <2>3. \A d \in Checkers : \A k, step : At(d, k, step)' <=> At(d, k, step)
    BY <2>1 DEF At, Checking
  <2>4. \A k \in Messages \ unsure' : Safe(k) => Safe(k)'
    BY <2>1, <2>2, <2>3, ForgottenIsSafe
  <2> QED BY <2>1, <2>3, <2>4, NothingTakenUp
<1>2. CASE Restart
  <2>1. /\ UNCHANGED <<items, read, remembered>>
        /\ unsure' = unsure \cup {m \in Messages : \E c \in Checkers : At(c, m, "remembering")}
        /\ \A c \in Checkers : check'[c] = NoCheck
    BY <1>2 DEF Restart, mailbox, memory
  <2>2. \A d \in Checkers : \A k, step : ~At(d, k, step)'
    BY <2>1 DEF At, Checking
  <2>3. Held' = {}
    BY <2>1 DEF Held, Checking, Checkers
  <2>4. \A k \in Messages \ unsure' : Safe(k) => Safe(k)'
    BY <2>1, <2>3 DEF Safe
  <2> QED BY <2>1, <2>2, <2>4, NothingTakenUp
<1>3. CASE \E m \in Messages : LoseFlag(m)
  <2>1. PICK m \in Messages : /\ m \in read /\ read' = read \ {m} /\ unsure' = unsure \cup ({m} \ remembered)
                             /\ UNCHANGED <<items, remembered, check>>
    BY <1>3 DEF LoseFlag, memory
  <2>2. Held' = Held
    BY <2>1 DEF Held, Checking
  <2>3. \A d \in Checkers : \A k, step : At(d, k, step)' <=> At(d, k, step)
    BY <2>1 DEF At, Checking
  <2>4. \A k \in Messages \ unsure' : Safe(k) => Safe(k)'
    BY <2>1, <2>2, <2>3 DEF Safe, Checkers
  <2> QED BY <2>1, <2>3, <2>4, NothingTakenUp
<1> QED BY <1>1, <1>2, <1>3

\* Every step keeps what is known of what is saved.
LEMMA NextSaves ==
    ASSUME MailInv, [MailNext]_(mailVars)
    PROVE  SavedOnce' /\ OneSaves' /\ SavedFirst'
<1>1. ASSUME NEW c \in Checkers, NEW m \in Messages,
             Step(c, m) \/ Save(c, m) \/ SavingFails(c, m) \/ Mark(c, m) \/ NotMarked(c, m)
      PROVE  SavedOnce' /\ OneSaves' /\ SavedFirst'
  BY <1>1, LookSaves, SaveSaves, RememberSaves, FailingSaves DEF Step
<1>2. CASE CheckByHand \/ HandDone \/ Open \/ RoundDone
  BY <1>2, RoundSaves
<1>3. CASE Disconnect \/ SkipRound \/ Restart \/ \E m \in Messages : LoseFlag(m)
  BY <1>3, ForgettingSaves
<1>4. CASE \/ ReadAccounts \/ End \/ LoopFails \/ Start \/ Arrive \/ \E m \in Messages : Ages(m)
           \/ \E id \in BoxIds, enabled \in BOOLEAN : Connect(id, enabled)
           \/ UNCHANGED mailVars
  <2>1. UNCHANGED <<items, read, remembered, unsure, check>>
    BY <1>4 DEF ReadAccounts, End, LoopFails, Start, Arrive, Ages, Connect, mailVars, mailbox, memory
  <2> QED BY <2>1, NoStep
<1> QED BY <1>1, <1>2, <1>3, <1>4 DEF MailNext, Loop

\* Every step keeps the checks well-formed, what they hold in the mailbox, and the
\* worker's check for while its loop is checking.
LEMMA ChecksTyped ==
    ASSUME MailInv, [MailNext]_(mailVars)
    PROVE  /\ check' \in [Checkers -> Checks \cup {NoCheck}]
           /\ Held' \subseteq arrived
           /\ WorkerChecks'
<1> DEFINE Fine == check' \in [Checkers -> Checks \cup {NoCheck}] /\ Held' \subseteq arrived /\ WorkerChecks'
<1>0. /\ MailTypeOK /\ WorkerChecks /\ Held \subseteq arrived /\ "hand" \in Checkers /\ "worker" \in Checkers
      /\ \A c \in Checkers : c = "hand" \/ c = "worker"
      /\ "hand" # "worker" /\ box \in BoxIds /\ found \in BoxIds
  BY DEF MailInv, MailTypeOK, Checkers
<1>1. ASSUME NEW c \in Checkers, NEW m \in Messages, NEW step, At(c, m, step), task' = task,
             \/ \E to \in {"asking", "saving", "remembering", "marking"} : check' = To(c, to)
             \/ check' \in {Done(c, m), [check EXCEPT ![c].left = {}]}
      PROVE  Fine
  <2>1. /\ check' \in [Checkers -> Checks \cup {NoCheck}] /\ Held' \subseteq Held
        /\ \A d \in Checkers \ {c} : check'[d] = check[d]
    BY <1>0, <1>1, StepsTo, LetsGo
  <2>2. check[c] # NoCheck
    BY <1>1 DEF At, Checking
  <2>3. WorkerChecks'
    BY <1>0, <1>1, <2>1, <2>2 DEF WorkerChecks
  <2> QED BY <1>0, <2>1, <2>3
<1>2. ASSUME NEW c \in Checkers, check[c] = NoCheck \/ check[c].left = {},
             check' = Replaced(c, NoCheck) \/ \E b \in BoxIds : check' = Opened(c, b),
             \/ c = "hand" /\ task' = task
             \/ c = "worker" /\ (task' = "checking" \/ check' = Replaced(c, NoCheck))
      PROVE  Fine
  <2>1. /\ check' \in [Checkers -> Checks \cup {NoCheck}] /\ Held' \subseteq arrived
        /\ \A d \in Checkers \ {c} : check'[d] = check[d]
        /\ check' = Replaced(c, NoCheck) => check'[c] = NoCheck
    BY <1>0, <1>2, BeginsOrEnds
  <2>2. WorkerChecks'
    BY <1>0, <1>2, <2>1 DEF WorkerChecks
  <2> QED BY <2>1, <2>2
<1>3. ASSUME check' = check, (task = "checking" /\ task' = task) \/ task # "checking" PROVE Fine
  <2>1. Held' = Held
    BY <1>3 DEF Held, Checking
  <2>2. WorkerChecks'
    BY <1>0, <1>3 DEF WorkerChecks
  <2> QED BY <1>0, <1>3, <2>1, <2>2 DEF MailTypeOK
<1> HIDE DEF Fine
<1>4. ASSUME NEW c \in Checkers, NEW m \in Messages,
             Step(c, m) \/ Save(c, m) \/ SavingFails(c, m) \/ Mark(c, m) \/ NotMarked(c, m)
      PROVE  Fine
  <2>1. task' = task /\ \E step : At(c, m, step)
    BY <1>4 DEF Step, Look, Remember, RememberingFails, Save, SavingFails, Mark, NotMarked, worker
  <2>2. CASE Look(c, m) \/ Save(c, m) \/ Remember(c, m)
    <3>1. \E to \in {"asking", "saving", "remembering", "marking"} : check' = To(c, to)
      BY <2>2 DEF Look, Save, Remember, AfterSaving
    <3> QED BY <2>1, <3>1, <1>1
  <2>3. CASE RememberingFails(c, m) \/ SavingFails(c, m) \/ Mark(c, m) \/ NotMarked(c, m)
    <3>1. check' \in {Done(c, m), [check EXCEPT ![c].left = {}]}
      BY <2>3 DEF RememberingFails, SavingFails, Mark, NotMarked, LeftUnread
    <3> QED BY <2>1, <3>1, <1>1
  <2> QED BY <1>4, <2>2, <2>3 DEF Step
<1>5. ASSUME CheckByHand PROVE Fine
  <2>1. check["hand"] = NoCheck /\ check' = Opened("hand", box) /\ task' = task
    BY <1>5 DEF CheckByHand, Checking, worker
  <2> QED BY <2>1, <1>0, <1>2
<1>6. ASSUME HandDone PROVE Fine
  <2>1. check["hand"].left = {} /\ check' = Replaced("hand", NoCheck) /\ task' = task
    BY <1>6 DEF HandDone, Replaced, worker
  <2> QED BY <2>1, <1>0, <1>2
<1>7. ASSUME Open PROVE Fine
  <2>1. check["worker"] = NoCheck /\ check' = Opened("worker", found) /\ task' = "checking"
    BY <1>0, <1>7 DEF Open, WorkerChecks
  <2> QED BY <2>1, <1>0, <1>2
<1>8. ASSUME RoundDone PROVE Fine
  <2>1. check["worker"].left = {} /\ check' = Replaced("worker", NoCheck)
    BY <1>8 DEF RoundDone, Replaced
  <2> QED BY <2>1, <1>0, <1>2
<1>9. ASSUME Restart PROVE Fine
  <2>1. check' = [c \in Checkers |-> NoCheck]
    BY <1>9 DEF Restart
  <2>2. check' \in [Checkers -> Checks \cup {NoCheck}] /\ \A c \in Checkers : check'[c] = NoCheck
    BY <2>1
  <2>3. Held' = {}
    BY <2>2 DEF Held, Checking, Checkers
  <2> QED BY <1>0, <2>2, <2>3 DEF Fine, WorkerChecks
<1>10. CASE \/ ReadAccounts \/ End \/ SkipRound \/ LoopFails \/ Start \/ Arrive \/ Disconnect
            \/ \E id \in BoxIds, enabled \in BOOLEAN : Connect(id, enabled)
            \/ \E m \in Messages : LoseFlag(m) \/ Ages(m)
            \/ UNCHANGED mailVars
  <2>1. check' = check /\ ((task = "checking" /\ task' = task) \/ task # "checking")
    BY <1>10 DEF ReadAccounts, End, Stops, SkipRound, LoopFails, Start, Arrive, Disconnect,
                 Connect, LoseFlag, Ages, mailVars, worker
  <2> QED BY <2>1, <1>3 DEF Fine
<1> QED BY <1>4, <1>5, <1>6, <1>7, <1>8, <1>9, <1>10 DEF MailNext, Loop, Fine

\* The rest of the types: what arrives is numbered on, and only what a check holds is
\* marked read.
LEMMA NextTyped ==
    ASSUME MailInv, [MailNext]_(mailVars)
    PROVE  MailTypeOK'
<1>0. MailTypeOK /\ Held \subseteq arrived /\ arrived \subseteq Messages /\ read \subseteq arrived /\ remembered \subseteq Messages
      /\ unsure \subseteq Messages /\ old \subseteq remembered /\ 0 \in BoxIds
  BY DEF MailInv, MailTypeOK, BoxIds
<1>1. check' \in [Checkers -> Checks \cup {NoCheck}] /\ Held' \subseteq arrived
  BY ChecksTyped
<1>2. arrived \subseteq arrived' /\ arrived' \subseteq Messages
  <2>1. CASE Arrive
    <3>1. Last \in Nat /\ Messages = 1..Last /\ arrived # Messages /\ arrived' = arrived \cup {Cardinality(arrived) + 1}
      BY <2>1, MailParameters DEF Messages, Arrive
    <3>2. IsFiniteSet(Messages) /\ Cardinality(Messages) = Last
      BY <3>1, FS_Interval
    <3>3. IsFiniteSet(arrived) /\ Cardinality(arrived) <= Last /\ Cardinality(arrived) # Last
      BY <1>0, <3>1, <3>2, FS_Subset
    <3>4. Cardinality(arrived) \in Nat
      BY <3>3, FS_CardinalityType
    <3>5. Cardinality(arrived) + 1 \in 1..Last
      BY <3>1, <3>3, <3>4
    <3> QED BY <1>0, <3>1, <3>5
  <2>2. CASE ~Arrive
    <3>1. arrived' = arrived
      BY <2>2 DEF MailNext, Step, Loop, Look, Remember, RememberingFails, Save, SavingFails, Mark,
             NotMarked, CheckByHand, HandDone, ReadAccounts, End, RoundDone, Open, SkipRound,
             LoopFails, Connect, Start, Disconnect, Restart, LoseFlag, Ages, mailVars, mailbox, memory, ForgetOld
    <3> QED BY <3>1, <1>0
  <2> QED BY <2>1, <2>2
<1>3. read' \subseteq arrived
  <2>1. ASSUME NEW c \in Checkers, NEW m \in Messages, Mark(c, m) PROVE read' \subseteq arrived
    <3>1. m \in arrived /\ read' = read \cup {m}
      BY <1>0, <2>1, AtIsHeld DEF Mark
    <3> QED BY <1>0, <3>1
  <2>2. CASE ~\E c \in Checkers, m \in Messages : Mark(c, m)
    <3>1. read' \subseteq read
      BY <2>2 DEF MailNext, Step, Loop, Look, Remember, RememberingFails, Save, SavingFails,
             NotMarked, CheckByHand, HandDone, ReadAccounts, End, RoundDone, Open, SkipRound,
             LoopFails, Connect, Start, Disconnect, Arrive, Restart, LoseFlag, Ages, mailVars, mailbox, memory, ForgetOld
    <3> QED BY <3>1, <1>0
  <2> QED BY <2>1, <2>2
<1>4. remembered' \subseteq Messages /\ unsure' \subseteq Messages /\ old' \subseteq remembered'
  <2>1. ASSUME NEW c \in Checkers, NEW m \in Messages,
               Step(c, m) \/ Save(c, m) \/ SavingFails(c, m) \/ Mark(c, m) \/ NotMarked(c, m)
        PROVE  remembered' \subseteq remembered \cup {m} /\ unsure' \subseteq unsure \cup {m} /\ remembered \subseteq remembered' /\ old' = old
    BY <2>1 DEF Step, Look, Remember, RememberingFails, Save, SavingFails, Mark, NotMarked, memory
  <2>2. CASE ~\E c \in Checkers, m \in Messages :
                  Step(c, m) \/ Save(c, m) \/ SavingFails(c, m) \/ Mark(c, m) \/ NotMarked(c, m)
    <3>1. remembered' \subseteq remembered
      BY <2>2 DEF MailNext, Loop, CheckByHand, HandDone, ReadAccounts, End, RoundDone, Open, SkipRound,
             LoopFails, Connect, Start, Disconnect, Arrive, Restart, LoseFlag, Ages, mailVars, memory, ForgetOld, Again
    <3>2. unsure' \subseteq Messages
      <4>1. CASE RoundDone \/ SkipRound \/ Disconnect
        BY <4>1, <1>0 DEF RoundDone, SkipRound, Disconnect, ForgetOld, Again
      <4>2. CASE Restart \/ \E m \in Messages : LoseFlag(m)
        BY <4>2, <1>0 DEF Restart, LoseFlag
      <4>3. CASE unsure' = unsure
        BY <4>3, <1>0
      <4> QED BY <2>2, <4>1, <4>2, <4>3 DEF MailNext, Loop, CheckByHand, HandDone, ReadAccounts, End, Open, LoopFails,
             Connect, Start, Arrive, Ages, mailVars
    <3>3. old' \subseteq remembered'
      BY <1>0, <2>2 DEF MailNext, Loop, CheckByHand, HandDone, ReadAccounts, End, RoundDone, Open, SkipRound,
             LoopFails, Connect, Start, Disconnect, Arrive, Restart, LoseFlag, Ages, mailVars, memory, ForgetOld
    <3> QED BY <3>1, <3>2, <3>3, <1>0
  <2> QED BY <1>0, <2>1, <2>2
<1>5. items' \in [Messages -> 0..2]
  <2>0. items \in [Messages -> 0..2]
    BY <1>0 DEF MailTypeOK, Many
  <2>1. ASSUME NEW c \in Checkers, NEW m \in Messages, Save(c, m) PROVE items' \in [Messages -> 0..2]
    <3>1. items' = [items EXCEPT ![m] = Min({items[m] + 1, 2})]
      BY <2>1 DEF Save, Many
    <3>2. Min({items[m] + 1, 2}) \in 0..2
      BY <2>0, SavedMore
    <3> QED BY <2>0, <3>1, <3>2
  <2>2. CASE ~\E c \in Checkers, m \in Messages : Save(c, m)
    <3>1. items' = items
      BY <2>2 DEF MailNext, Step, Loop, Look, Remember, RememberingFails, SavingFails, Mark,
             NotMarked, CheckByHand, HandDone, ReadAccounts, End, RoundDone, Open, SkipRound,
             LoopFails, Connect, Start, Disconnect, Arrive, Restart, LoseFlag, Ages, mailVars, memory, ForgetOld, Again
    <3> QED BY <3>1, <2>0
  <2> QED BY <2>1, <2>2
<1>6. /\ box' \in BoxIds /\ on' \in BOOLEAN /\ found' \in BoxIds
      /\ task' \in {"none", "asleep", "looking", "checking"} /\ starting' \in BOOLEAN /\ unwatched' \in BOOLEAN
  <2>0. /\ box \in BoxIds /\ on \in BOOLEAN /\ found \in BoxIds
        /\ task \in {"none", "asleep", "looking", "checking"} /\ starting \in BOOLEAN /\ unwatched \in BOOLEAN
    BY <1>0 DEF MailTypeOK
  <2>1. ASSUME NEW c \in Checkers, NEW m \in Messages,
               Step(c, m) \/ Save(c, m) \/ SavingFails(c, m) \/ Mark(c, m) \/ NotMarked(c, m)
        PROVE  UNCHANGED account /\ UNCHANGED worker
    BY <2>1 DEF Step, Look, Remember, RememberingFails, Save, SavingFails, Mark, NotMarked
  <2>2. CASE ~\E c \in Checkers, m \in Messages :
                  Step(c, m) \/ Save(c, m) \/ SavingFails(c, m) \/ Mark(c, m) \/ NotMarked(c, m)
    <3>1. box' \in BoxIds /\ found' \in BoxIds
      BY <2>0, <2>2, <1>0 DEF MailNext, Loop, CheckByHand, HandDone, ReadAccounts, End, RoundDone, Open, SkipRound,
             LoopFails, Connect, Start, Disconnect, Arrive, Restart, LoseFlag, Ages, mailVars, memory, ForgetOld, Again,
             account, worker
    <3>2. task' \in {"none", "asleep", "looking", "checking"}
      BY <2>0, <2>2 DEF MailNext, Loop, CheckByHand, HandDone, ReadAccounts, End, RoundDone, Open, SkipRound,
             LoopFails, Connect, Start, Disconnect, Arrive, Restart, LoseFlag, Ages, mailVars, memory, ForgetOld, Again,
             worker
    <3>3. on' \in BOOLEAN
      BY <2>0, <2>2, Zenon DEF MailNext, Loop, CheckByHand, HandDone, ReadAccounts, End, RoundDone, Open, SkipRound,
             LoopFails, Connect, Start, Disconnect, Arrive, Restart, LoseFlag, Ages, mailVars, memory, ForgetOld, Again,
             account
    <3>4. starting' \in BOOLEAN
      BY <2>0, <2>2, Zenon DEF MailNext, Loop, CheckByHand, HandDone, ReadAccounts, End, RoundDone, Open, SkipRound,
             LoopFails, Connect, Start, Disconnect, Arrive, Restart, LoseFlag, Ages, mailVars, memory, ForgetOld, Again,
             worker
    <3>5. unwatched' \in BOOLEAN
      BY <2>0, <2>2, Zenon DEF MailNext, Loop, CheckByHand, HandDone, ReadAccounts, End, RoundDone, Open, SkipRound,
             LoopFails, Connect, Start, Disconnect, Arrive, Restart, LoseFlag, Ages, mailVars, memory, ForgetOld, Again,
             worker, Stops
    <3> QED BY <3>1, <3>2, <3>3, <3>4, <3>5
  <2> QED BY <2>0, <2>1, <2>2 DEF account, worker
<1>7. events' \in 0..MaxEvents /\ errors' \in 0..MaxErrors
  <2>1. events \in 0..MaxEvents /\ errors \in 0..MaxErrors /\ MaxEvents \in Nat /\ MaxErrors \in Nat
    BY <1>0, MailParameters DEF MailTypeOK
  <2>2. events' = events \/ (events < MaxEvents /\ events' = events + 1)
    BY DEF MailNext, Step, Loop, Look, Remember, RememberingFails, Save, SavingFails, Mark,
         NotMarked, CheckByHand, HandDone, ReadAccounts, End, RoundDone, Open, SkipRound, Event,
         LoopFails, Connect, Start, Disconnect, Arrive, Restart, LoseFlag, Ages, mailVars, memory, ForgetOld, Again
  <2>3. errors' = errors \/ (errors < MaxErrors /\ errors' = errors + 1)
    BY DEF MailNext, Step, Loop, Look, Remember, RememberingFails, Save, SavingFails, Mark,
         NotMarked, CheckByHand, HandDone, ReadAccounts, End, RoundDone, Open, SkipRound,
         LoopFails, Connect, Start, Disconnect, Arrive, Restart, LoseFlag, Ages, mailVars, memory, ForgetOld, Again
  <2> QED BY <2>1, <2>2, <2>3
<1>8. Held' \subseteq arrived' /\ read' \subseteq arrived'
  BY <1>1, <1>2, <1>3
<1>9. /\ Messages' = Messages /\ BoxIds' = BoxIds /\ Checkers' = Checkers /\ Checks' = Checks /\ Many' = 2
  BY DEF Messages, BoxIds, Checkers, Checks, Many
<1> QED BY <1>1, <1>2, <1>4, <1>5, <1>6, <1>7, <1>8, <1>9 DEF MailTypeOK

\* What is saved is saved once and first, from the beginning on.
THEOREM MailInvariance == MailSpec => []MailInv
<1>1. MailInit => MailInv
  <2> SUFFICES ASSUME MailInit PROVE MailInv
    OBVIOUS
  <2>1. \A c \in Checkers : check[c] = NoCheck
    BY DEF MailInit
  <2>2. Held = {} /\ \A c \in Checkers : \A m, step : ~At(c, m, step)
    BY <2>1 DEF Held, At, Checking, Checkers
  <2>3. MailTypeOK
    <3>1. MaxEvents \in Nat /\ MaxErrors \in Nat
      BY MailParameters
    <3>2. check \in [Checkers -> Checks \cup {NoCheck}]
      BY DEF MailInit
    <3>3. items \in [Messages -> 0..Many] /\ box \in BoxIds /\ found \in BoxIds
      BY DEF MailInit, BoxIds, Many
    <3>4. events \in 0..MaxEvents /\ errors \in 0..MaxErrors
      BY <3>1 DEF MailInit
    <3> QED BY <2>2, <3>2, <3>3, <3>4 DEF MailInit, MailTypeOK
  <2>4. SavedOnce /\ OneSaves /\ SavedFirst
    BY <2>2 DEF MailInit, SavedOnce, OneSaves, SavedFirst, InHand
  <2>5. WorkerChecks
    BY <2>1 DEF WorkerChecks, Checkers
  <2> QED BY <2>3, <2>4, <2>5 DEF MailInv
<1>2. MailInv /\ [MailNext]_(mailVars) => MailInv'
  BY NextTyped, NextSaves, ChecksTyped DEF MailInv
<1> QED BY <1>1, <1>2, PTL DEF MailSpec

\* The types of the state, for any messages and mailboxes.
THEOREM MailTypeCorrect == MailSpec => []MailTypeOK
<1>1. MailInv => MailTypeOK
  BY DEF MailInv
<1> QED BY <1>1, MailInvariance, PTL

\* A message becomes one item, but for those that were saved and not remembered, or no
\* longer once the mailbox handed them over again.
THEOREM SavesOnceOnly == MailSpec => []OnceOnly
<1>1. MailInv => OnceOnly
  BY DEF MailInv, SavedOnce, OnceOnly, MailTypeOK, Many
<1> QED BY <1>1, MailInvariance, PTL

\* What is marked read was saved, or never could be.
THEOREM LosesNothing == MailSpec => []NothingIsLost
<1>1. MailInv => NothingIsLost
  BY DEF MailInv, SavedFirst, NothingIsLost, MailTypeOK
<1> QED BY <1>1, MailInvariance, PTL
=============================================================================
