----------------------------- MODULE StashSync -----------------------------
(***************************************************************************)
(* The change log of the stash (the stash_changes table and the triggers   *)
(* of migration 22), GET /api/items/changes, and an app that keeps its own *)
(* copy of an account's stash by the protocol the README gives for it.     *)
(*                                                                         *)
(* An item is its owner and the place in the log of its last write: a      *)
(* transaction that writes several rows of an item moves the item's entry  *)
(* several times, and only the last place is ever seen by another.         *)
(***************************************************************************)
EXTENDS Integers, FiniteSets, FiniteSetsExt

CONSTANTS Users,
          MaxId,      \* item ids are 1..MaxId
          Limit,      \* MAX_CHANGES: log entries in one answer
          PageSize,   \* items in one page of the list
          Listers,    \* accounts whose app starts from the lists, the others' from since=0
          MaxWrites,  \* bound: writes to the stash, so places in the log
          NoItem, NoEntry, NoRequest

Ids == 1..MaxId
Seqs == 0..MaxWrites
Versions == [owner : Users, ver : Seqs]
Entries == [user : Users, seq : Seqs, deleted : BOOLEAN]
Copies == [Ids -> Versions \cup {NoItem}]

\* A request for changes: what it has read so far, and then its answer.  `more` is
\* left out: it only says to ask again at once, and the app here never stops asking.
Requests == [step : {"rows", "items", "answer", "reset"}, cursor : Seqs,
             changed : SUBSET Ids, deleted : SUBSET Ids, items : Copies]

ASSUME Parameters ==
    /\ MaxId \in Nat \ {0}
    /\ Limit \in Nat \ {0} /\ PageSize \in Nat \ {0}
    /\ Listers \subseteq Users
    /\ MaxWrites \in Nat

ASSUME Distinct ==
    NoItem \notin Versions /\ NoEntry \notin Entries /\ NoRequest \notin Requests

VARIABLES
    item,     \* the items table
    entry,    \* stash_changes: one entry per item id (item_id is UNIQUE)
    last,     \* sqlite_sequence: the last seq given out (AUTOINCREMENT)
    phase,    \* of each account's app: "new", "listing" or "syncing"
    cursor,   \* the cursor it sends next
    offset,   \* while listing: the offset of the next page
    copy,     \* its copy of the stash
    request   \* its request for changes in progress

vars == <<item, entry, last, phase, cursor, offset, copy, request>>
server == <<item, entry, last>>
app == <<phase, cursor, offset, copy, request>>

OwnedBy(u) == {i \in Ids : item[i] # NoItem /\ item[i].owner = u}
EntriesOf(u) == {i \in Ids : entry[i] # NoEntry /\ entry[i].user = u}

Newest(u) == Max({entry[i].seq : i \in EntriesOf(u)} \cup {0})
Nothing == [i \in Ids |-> NoItem]

-----------------------------------------------------------------------------
(* Writing the stash                                                       *)

\* INTEGER PRIMARY KEY without AUTOINCREMENT: one more than the largest id in use, whoever owns it
NextId == 1 + Max({i \in Ids : item[i] # NoItem} \cup {0})

\* Slip: deleting an item deletes its entry
LogForgetsDeleted(u, i, deleted) ==
    /\ last < MaxWrites
    /\ last' = last + 1
    /\ entry' = [entry EXCEPT ![i] = IF deleted THEN NoEntry
                                    ELSE [user |-> u, seq |-> last + 1, deleted |-> FALSE]]

\* Slip: an entry that is there already is moved, but stays with its account
LogKeepsUser(u, i, deleted) ==
    /\ last < MaxWrites
    /\ last' = last + 1
    /\ entry' = [entry EXCEPT ![i] = [user |-> IF @ = NoEntry THEN u ELSE @.user,
                                     seq |-> last + 1, deleted |-> deleted]]

\* The triggers: whatever entry the id had is replaced by one at the end of the log
Log(u, i, deleted) ==
    /\ last < MaxWrites
    /\ last' = last + 1
    /\ entry' = [entry EXCEPT ![i] = [user |-> u, seq |-> last + 1, deleted |-> deleted]]

Create(u) ==
    /\ NextId \in Ids
    /\ Log(u, NextId, FALSE)
    /\ item' = [item EXCEPT ![NextId] = [owner |-> u, ver |-> last + 1]]
    /\ UNCHANGED app

Edit(u, i) ==
    /\ i \in OwnedBy(u)
    /\ Log(u, i, FALSE)
    /\ item' = [item EXCEPT ![i].ver = last + 1]
    /\ UNCHANGED app

Delete(u, i) ==
    /\ i \in OwnedBy(u)
    /\ Log(u, i, TRUE)
    /\ item' = [item EXCEPT ![i] = NoItem]
    /\ UNCHANGED app

-----------------------------------------------------------------------------
(* GET /api/items/changes.  Its transaction only reads, and each SELECT of  *)
(* such a transaction sees the tables as they are at that moment.           *)

\* items.changes: first the newest entry, against the cursor
Ask(u) ==
    /\ phase[u] = "syncing"
    /\ request[u] = NoRequest
    /\ request' = [request EXCEPT ![u] =
           [step |-> IF cursor[u] > Newest(u) THEN "reset" ELSE "rows", cursor |-> cursor[u],
            changed |-> {}, deleted |-> {}, items |-> Nothing]]
    /\ UNCHANGED <<server, phase, cursor, offset, copy>>

After(u, c) == {i \in EntriesOf(u) : entry[i].seq > c}

\* ORDER BY seq LIMIT: the first Limit entries after the cursor
AreFirst(rows, u, c) ==
    /\ Cardinality(rows) = Min({Limit, Cardinality(After(u, c))})
    /\ \A i \in rows, k \in After(u, c) \ rows : entry[i].seq < entry[k].seq

\* Slip: the cursor it was asked with
EndsWhereItStarted(rows, c, end) == end = c

\* rows[-1]["seq"] if rows else since
EndsAt(rows, c, end) ==
    IF rows = {} THEN end = c
    ELSE \E i \in rows : end = entry[i].seq /\ \A k \in rows : entry[k].seq <= end

\* then the log entries
ReadRows(u) ==
    /\ request[u] # NoRequest /\ request[u].step = "rows"
    /\ \E rows \in SUBSET After(u, request[u].cursor), end \in Seqs :
        /\ AreFirst(rows, u, request[u].cursor)
        /\ EndsAt(rows, request[u].cursor, end)
        /\ request' = [request EXCEPT ![u] =
               [@ EXCEPT !.step = "items",
                         !.cursor = end,
                         !.changed = {i \in rows : ~entry[i].deleted},
                         !.deleted = {i \in rows : entry[i].deleted}]]
    /\ UNCHANGED <<server, phase, cursor, offset, copy>>

\* Slip: without AND user_id = ?
FoundAnyOwner(u, i) == item[i] # NoItem

\* then the items they name, if they still are this account's
Found(u, i) == i \in OwnedBy(u)

ReadItems(u) ==
    /\ request[u] # NoRequest /\ request[u].step = "items"
    /\ request' = [request EXCEPT ![u] =
           [@ EXCEPT !.step = "answer",
                     !.items = [i \in Ids |-> IF i \in request[u].changed /\ Found(u, i)
                                              THEN item[i] ELSE NoItem]]]
    /\ UNCHANGED <<server, phase, cursor, offset, copy>>

-----------------------------------------------------------------------------
(* The app (external)                                                      *)

\* It applies the answer and takes its cursor; `reset` makes it load everything anew
Receive(u) ==
    /\ request[u] # NoRequest
    /\ \/ /\ request[u].step = "answer"
          /\ copy' = [copy EXCEPT ![u] = [i \in Ids |->
                 IF request[u].items[i] # NoItem THEN request[u].items[i]
                 ELSE IF i \in request[u].deleted THEN NoItem
                 ELSE @[i]]]
          /\ cursor' = [cursor EXCEPT ![u] = request[u].cursor]
          /\ UNCHANGED <<phase>>
       \/ /\ request[u].step = "reset"
          /\ copy' = [copy EXCEPT ![u] = Nothing]
          /\ cursor' = [cursor EXCEPT ![u] = 0]
          /\ phase' = [phase EXCEPT ![u] = "new"]
    /\ request' = [request EXCEPT ![u] = NoRequest]
    /\ UNCHANGED <<server, offset>>

\* The answer never arrives; the app asks again with the cursor it has
LoseAnswer(u) ==
    /\ request[u] # NoRequest /\ request[u].step \in {"answer", "reset"}
    /\ request' = [request EXCEPT ![u] = NoRequest]
    /\ UNCHANGED <<server, phase, cursor, offset, copy>>

\* since=0, or changes_cursor from the summary and then the lists
StartSyncing(u) ==
    /\ phase[u] = "new"
    /\ phase' = [phase EXCEPT ![u] = IF u \in Listers THEN "listing" ELSE "syncing"]
    /\ cursor' = [cursor EXCEPT ![u] = IF u \in Listers THEN Newest(u) ELSE 0]
    /\ offset' = [offset EXCEPT ![u] = 0]
    /\ UNCHANGED <<server, copy, request>>

\* GET /api/items?limit=&offset=, newest first: the items with offset to
\* offset + PageSize - 1 newer ones before them
Page(u) == {i \in OwnedBy(u) :
               Cardinality({k \in OwnedBy(u) : k > i}) \in offset[u]..(offset[u] + PageSize - 1)}

ListPage(u) ==
    /\ phase[u] = "listing"
    /\ copy' = [copy EXCEPT ![u] = [i \in Ids |-> IF i \in Page(u) THEN item[i] ELSE @[i]]]
    /\ offset' = [offset EXCEPT ![u] = @ + PageSize]
    /\ phase' = [phase EXCEPT ![u] = IF Cardinality(Page(u)) < PageSize THEN "syncing" ELSE @]
    /\ UNCHANGED <<server, cursor, request>>

-----------------------------------------------------------------------------
Init ==
    /\ item = Nothing
    /\ entry = [i \in Ids |-> NoEntry]
    /\ last = 0
    /\ phase = [u \in Users |-> "new"]
    /\ cursor = [u \in Users |-> 0]
    /\ offset = [u \in Users |-> 0]
    /\ copy = [u \in Users |-> Nothing]
    /\ request = [u \in Users |-> NoRequest]

Sync(u) == Ask(u) \/ ReadRows(u) \/ ReadItems(u) \/ StartSyncing(u) \/ ListPage(u)

Next == \E u \in Users :
    \/ Create(u)
    \/ \E i \in Ids : Edit(u, i) \/ Delete(u, i)
    \/ Sync(u) \/ Receive(u) \/ LoseAnswer(u)

\* An app keeps asking, the server answers, and not every answer is lost
Fairness == \A u \in Users : WF_vars(Sync(u)) /\ SF_vars(Receive(u))

Spec == Init /\ [][Next]_vars /\ Fairness

-----------------------------------------------------------------------------
TypeOK ==
    /\ item \in [Ids -> Versions \cup {NoItem}]
    /\ entry \in [Ids -> Entries \cup {NoEntry}]
    /\ last \in Seqs
    /\ phase \in [Users -> {"new", "listing", "syncing"}]
    /\ cursor \in [Users -> Seqs]
    /\ offset \in [Users -> Nat]
    /\ copy \in [Users -> Copies]
    /\ request \in [Users -> Requests \cup {NoRequest}]

Syncing(u) == phase[u] = "syncing"

\* Still to come: the log has an entry for this item that the app has not seen
Coming(u, i) == i \in After(u, cursor[u])

\* The id went to another account's item, and its tombstone with it (one entry per id)
HandedOver(u, i) == entry[i] # NoEntry /\ entry[i].user # u

\* An app that started from since=0 never lacks an item, and never has an old
\* version of one, that no later answer would bring: in particular not because
\* the item was written between the SELECTs of one answer, or moved in the log
\* between two (items.changes).
NoGaps ==
    \A u \in Users \ Listers : Syncing(u) =>
        \A i \in OwnedBy(u) : copy[u][i] = item[i] \/ Coming(u, i)

\* An app never keeps an item that is gone and that no later answer would
\* remove, also when it started from the lists; but for ids handed over.
NoGhosts ==
    \A u \in Users : Syncing(u) =>
        \A i \in Ids \ OwnedBy(u) : copy[u][i] = NoItem \/ Coming(u, i) \/ HandedOver(u, i)

\* What an app has was its account's own, also when an id changed hands while an
\* answer was put together (the second SELECT of items.changes).
OnlyOwn == \A u \in Users, i \in Ids : copy[u][i] # NoItem => copy[u][i].owner = u

\* Once nobody writes any more, an app that keeps asking has exactly the
\* account's stash, though answers are lost (but for ids handed over).
Converged(u) ==
    /\ Syncing(u)
    /\ \A i \in Ids : IF i \in OwnedBy(u) THEN copy[u][i] = item[i]
                      ELSE copy[u][i] = NoItem \/ HandedOver(u, i)
CatchesUp == \A u \in Users \ Listers : <>[]Converged(u)

-----------------------------------------------------------------------------
(* What the README says and the change log does not keep                   *)

\* README.md:278, "`deleted` the ids removed": whoever has the id now.
AllDeletedAreTold ==
    \A u \in Users : Syncing(u) =>
        \A i \in Ids \ OwnedBy(u) : copy[u][i] = NoItem \/ Coming(u, i) \/ cursor[u] > Newest(u)
=============================================================================
