------------------------------- MODULE Saving -------------------------------
(***************************************************************************)
(* Saved items and the files of their pictures.  Rows are in the database, *)
(* files in the uploads folder, and no transaction covers both: a request  *)
(* writes files, then rows, then deletes files (app/services/stash.py,     *)
(* account_transfer.py, accounts.py; app/images.py).  A transaction reads  *)
(* before its first write takes the lock, so two requests may read the     *)
(* same item before either writes it.                                      *)
(*                                                                         *)
(* The server's storage limit (app/storage.py) is checked against a size   *)
(* that is measured at most once a minute.                                 *)
(*                                                                         *)
(* An item is its owner, its pictures and, when it came with an account's  *)
(* export, the entry of it that it is, and whether its address, title or   *)
(* text have become others since; the rest is left out, as is the order of *)
(* its pictures.                                                           *)
(***************************************************************************)
EXTENDS Integers, FiniteSets, Sequences, FiniteSetsExt

CONSTANTS Users,        \* accounts to begin with
          Pictures,     \* names the server may give; token_urlsafe(18), so never one twice
          Requests,     \* that may be under way at once
          MaxId,        \* bound: items at once
          Entries,      \* items in the export that may be brought in
          MaxImages,    \* MAX_IMAGES
          Limit,        \* of STORAGE_LIMIT_GB, in pictures
          Minute,       \* ticks in REMEASURE_SECONDS
          MaxEvents,    \* bound: requests
          NoItem, NoRequest, NoEntry

ASSUME SavingParameters ==
    /\ MaxId \in Nat \ {0} /\ Entries \in Nat /\ MaxImages \in Nat \ {0}
    /\ Limit \in Nat \ {0} /\ Minute \in Nat \ {0} /\ MaxEvents \in Nat

Ids == 1..MaxId
Rows == [owner : Users, pictures : SUBSET Pictures, of : 1..Entries \cup {NoEntry}, changed : BOOLEAN]
Kinds == {"capture", "mail", "add", "edit", "remove", "import", "close"}
Steps == {"storing", "reading", "checking", "writing", "tidying"}
Folders == SUBSET Pictures

\* names: files it stored, or will delete; known, then: the item's pictures as read once
\* and again; stored: those of the export's entries; found: entries it looked for in vain
Requested == [kind : Kinds, user : Users, step : Steps, id : Ids \cup {0}, left : Nat, keep : Folders,
              names : Folders, known : Folders, then : Folders, stored : Seq(Folders), found : SUBSET (1..Entries)]

ASSUME SavingDistinct == NoItem \notin Rows /\ NoRequest \notin Requested /\ NoEntry \notin 1..Entries

VARIABLES items,     \* the tables items and item_images; ids are row ids, given again
          accounts,  \* the table users
          files,     \* in the uploads folder
          given,     \* names given so far
          used, age, \* Storage._used and how long ago it was measured
          sinceRoom, \* ticks since there was room
          req,       \* requests under way
          astray,    \* pictures that crossed requests, or a stop, lost track of
          doubled,   \* entries that came in twice: crossed imports, or a changed item in between
          events

table == <<items, accounts>>
store == <<files, given>>
storage == <<used, age>>
savingVars == <<items, accounts, files, given, used, age, sinceRoom, req, astray, doubled, events>>

Saved == {i \in Ids : items[i] # NoItem}
Named == UNION {items[i].pictures : i \in Saved}
Of(u) == {i \in Saved : items[i].owner = u}
Size == Cardinality(files)
Differ(s, t) == (s \ t) \cup (t \ s)

\* A row's id is one more than the largest there is
NextIds(n) == LET last == Max(Saved \cup {0}) IN (last + 1)..(last + n)

At(r, kinds, step) == req[r] # NoRequest /\ req[r].kind \in kinds /\ req[r].step = step
Ended(r) == [req EXCEPT ![r] = NoRequest]

-----------------------------------------------------------------------------
(* The storage limit                                                       *)

NeverAgain == FALSE
Due == age >= Minute
Measure == IF Due THEN used' = Size /\ age' = 0 ELSE UNCHANGED storage

Event == events < MaxEvents /\ events' = events + 1
Request(kind, u, i, step, n, keep) ==
    [kind |-> kind, user |-> u, step |-> step, id |-> i, left |-> n, keep |-> keep,
     names |-> {}, known |-> {}, then |-> {}, stored |-> <<>>, found |-> {}]
Checked == {"capture", "add", "import"}
Brings == Checked \cup {"mail"}

\* storage.check, before anything is read of the request
Ask(r, new) ==
    /\ Event /\ req[r] = NoRequest /\ new.user \in accounts
    /\ IF new.kind \in Checked THEN Measure ELSE UNCHANGED storage
    /\ new.kind \in Checked => used' < Limit
    /\ req' = [req EXCEPT ![r] = new]
    /\ UNCHANGED <<table, store, astray, doubled>>

\* StorageFull
TurnAway(r) ==
    /\ req[r] = NoRequest /\ Due /\ Size >= Limit
    /\ Measure
    /\ UNCHANGED <<table, store, req, astray, doubled, events>>

AskCapture(r, u, n) == Ask(r, Request("capture", u, 0, IF n = 0 THEN "writing" ELSE "storing", n, {}))
\* A message with a picture, of a check by hand, or of a round that looked once before
\* all its mailboxes
AskMail(r, u) == Ask(r, Request("mail", u, 0, "storing", 1, {}))
AskAdd(r, u, i) == i \in Of(u) /\ Ask(r, Request("add", u, i, "storing", 1, {}))
AskEdit(r, u, i, keep) == i \in Of(u) /\ Ask(r, Request("edit", u, i, "reading", 0, keep))
AskRemove(r, u, i) == i \in Of(u) /\ Ask(r, Request("remove", u, i, "reading", 0, {}))
AskImport(r, u) == Entries > 0 /\ Ask(r, Request("import", u, 0, "storing", Entries, {}))
AskClose(r, u) == Ask(r, Request("close", u, 0, "reading", 0, {}))

-----------------------------------------------------------------------------
(* Files first: save_images, and the loop of import_zip                     *)

\* What comes after the last
Then(r) == IF req[r].left > 1 THEN "storing" ELSE IF req[r].kind \in {"capture", "mail"} THEN "writing" ELSE "reading"
With(r, of) == IF req[r].kind = "import" THEN Append(req[r].stored, of) ELSE req[r].stored
OneLess(r, of) ==
    [req EXCEPT ![r].left = @ - 1, ![r].step = Then(r), ![r].names = @ \cup of, ![r].stored = With(r, of)]

\* A file under a name of its own
StoreFile(r, p) ==
    /\ At(r, Brings, "storing")
    /\ p \in Pictures \ given
    /\ files' = files \cup {p} /\ given' = given \cup {p}
    /\ req' = OneLess(r, {p})
    /\ UNCHANGED <<table, storage, astray, doubled, events>>

AllStay(r) == files
WithoutNames(r) == files \ req[r].names

\* Not a picture: the request fails and "the ones already stored are removed again",
\* while an import goes on without it
Refuse(r) ==
    /\ At(r, Brings, "storing")
    /\ \/ /\ req[r].kind = "import"
          /\ req' = OneLess(r, {})
          /\ UNCHANGED files
       \/ /\ req[r].kind # "import"
          /\ req' = Ended(r) /\ files' = WithoutNames(r)
    /\ UNCHANGED <<table, given, storage, astray, doubled, events>>

\* The disk fills up during a write: what there is of that file stays
Break(r, p) ==
    /\ At(r, Brings, "storing")
    /\ p \in Pictures \ given
    /\ files' = WithoutNames(r) \cup {p} /\ given' = given \cup {p} /\ astray' = astray \cup {p}
    /\ req' = Ended(r)
    /\ UNCHANGED <<table, storage, doubled, events>>

-----------------------------------------------------------------------------
(* Rows: what a transaction reads before it writes                          *)

Own(r) == req[r].id \in Of(req[r].user)

\* NotFound, or InvalidInput: the files stored for nothing go
Fail(r) == req' = Ended(r) /\ files' = WithoutNames(r)

\* items.get in add_images, update and remove
ReadItem(r) ==
    /\ At(r, {"add", "edit", "remove"}, "reading")
    /\ IF Own(r)
       THEN /\ req' = [req EXCEPT ![r].step = IF req[r].kind = "edit" THEN "checking" ELSE "writing",
                                  ![r].known = items[req[r].id].pictures]
            /\ UNCHANGED files
       ELSE Fail(r)
    /\ UNCHANGED <<table, given, storage, astray, doubled, events>>

\* An update reads the item again: "it can remove and reorder them, never add"
ReadAgain(r) ==
    /\ At(r, {"edit"}, "checking")
    /\ IF Own(r) /\ req[r].keep \subseteq items[req[r].id].pictures
       THEN req' = [req EXCEPT ![r].step = "writing", ![r].then = items[req[r].id].pictures]
       ELSE req' = Ended(r)
    /\ UNCHANGED <<table, store, storage, astray, doubled, events>>

AllOf(u) == UNION {items[i].pictures : i \in Of(u)}

\* image_names_for_user in delete_account
ReadAccount(r) ==
    /\ At(r, {"close"}, "reading")
    /\ req' = IF req[r].user \in accounts
              THEN [req EXCEPT ![r].step = "writing", ![r].known = AllOf(req[r].user)]
              ELSE Ended(r)
    /\ UNCHANGED <<table, store, storage, astray, doubled, events>>

\* By address, title, text and time of saving
Here(u) == {items[i].of : i \in {k \in Of(u) : ~items[k].changed}}
Unrecognised(u) == {items[i].of : i \in Of(u)} \ Here(u)
Missing(r) == 1..Entries \ Here(req[r].user)

\* _import_item looks for an entry before it adds it; until the first that is new
\* nothing holds the lock, unless a folder, feed or article was new before
ReadEntries(r) ==
    /\ At(r, {"import"}, "reading")
    /\ req' = [req EXCEPT ![r].step = "writing", ![r].found = IF Missing(r) = {} THEN {} ELSE {Min(Missing(r))}]
    /\ UNCHANGED <<table, store, storage, astray, doubled, events>>

HoldLock(r) ==
    /\ At(r, {"import"}, "reading")
    /\ req' = [req EXCEPT ![r].step = "writing"]
    /\ UNCHANGED <<table, store, storage, astray, doubled, events>>

-----------------------------------------------------------------------------
(* Rows: the transaction's writes                                           *)

WriteItem(r) ==
    /\ At(r, {"capture", "mail"}, "writing") /\ req[r].user \in accounts
    /\ NextIds(1) \subseteq Ids
    /\ \E i \in NextIds(1) :
          items' = [items EXCEPT ![i] = [owner |-> req[r].user, pictures |-> req[r].names, of |-> NoEntry,
                                         changed |-> FALSE]]
    /\ req' = Ended(r)
    /\ UNCHANGED <<accounts, store, storage, astray, doubled, events>>

\* _set_images replaces them all
WriteAdded(r) ==
    /\ At(r, {"add"}, "writing") /\ Own(r)
    /\ LET all == req[r].known \cup req[r].names
       IN /\ Cardinality(all) <= MaxImages
          /\ items' = [items EXCEPT ![req[r].id].pictures = all]
          /\ astray' = astray \cup Differ(req[r].known, items[req[r].id].pictures)
    /\ req' = Ended(r)
    /\ UNCHANGED <<accounts, store, storage, doubled, events>>

Deletes(r, names) == [req EXCEPT ![r].step = "tidying", ![r].names = names]

AllKnown(r) == req[r].known
Doomed(r) == req[r].known \ req[r].keep

\* An item that came with an export, as it came or not
Texts(i) == IF items[i].of = NoEntry THEN {FALSE} ELSE BOOLEAN

WriteKept(r) ==
    /\ At(r, {"edit"}, "writing") /\ Own(r)
    /\ \E changed \in Texts(req[r].id) :
          items' = [items EXCEPT ![req[r].id].pictures = req[r].keep, ![req[r].id].changed = changed]
    /\ LET now == items[req[r].id].pictures
       IN astray' = astray \cup Differ(req[r].known, now) \cup Differ(req[r].then, now)
    /\ req' = Deletes(r, Doomed(r))
    /\ UNCHANGED <<accounts, store, storage, doubled, events>>

\* Without a row to delete it deletes the files all the same
WriteRemoved(r) ==
    /\ At(r, {"remove"}, "writing")
    /\ items' = IF Own(r) THEN [items EXCEPT ![req[r].id] = NoItem] ELSE items
    /\ astray' = astray \cup (IF Own(r) THEN Differ(req[r].known, items[req[r].id].pictures) ELSE {})
    /\ req' = Deletes(r, req[r].known)
    /\ UNCHANGED <<accounts, store, storage, doubled, events>>

\* Everything of the account goes with it
WriteClosed(r) ==
    /\ At(r, {"close"}, "writing")
    /\ accounts' = accounts \ {req[r].user}
    /\ items' = [i \in Ids |-> IF i \in Of(req[r].user) THEN NoItem ELSE items[i]]
    /\ astray' = astray \cup Differ(req[r].known, AllOf(req[r].user))
    /\ req' = Deletes(r, req[r].known)
    /\ UNCHANGED <<store, storage, doubled, events>>

\* "Nothing already here is replaced or doubled": what is new, and what was when it looked
Everything(r) == 1..Entries
NewEntries(r) == Missing(r) \cup req[r].found

WriteImport(r) ==
    /\ At(r, {"import"}, "writing") /\ req[r].user \in accounts
    /\ LET new == NewEntries(r)
           place(e) == Max(Saved \cup {0}) + Cardinality({f \in new : f <= e})
       IN /\ NextIds(Cardinality(new)) \subseteq Ids
          /\ items' = [i \in Ids |-> IF \E e \in new : place(e) = i
                                     THEN LET e == CHOOSE e \in new : place(e) = i
                                          IN [owner |-> req[r].user, pictures |-> req[r].stored[e], of |-> e, changed |-> FALSE]
                                     ELSE items[i]]
          /\ req' = Deletes(r, req[r].names \ UNION {req[r].stored[e] : e \in new})
    /\ doubled' = doubled \cup (req[r].found \ Missing(r)) \cup (Missing(r) \cap Unrecognised(req[r].user))
    /\ UNCHANGED <<accounts, store, storage, astray, events>>

\* The transaction fails: the item or the account is gone, the item has too many
\* pictures, or the database stayed busy
RollBack(r) ==
    /\ req[r] # NoRequest /\ req[r].step = "writing"
    /\ Fail(r)
    /\ UNCHANGED <<table, given, storage, astray, doubled, events>>

\* delete_images, after the commit
Tidy(r) ==
    /\ req[r] # NoRequest /\ req[r].step = "tidying"
    /\ files' = WithoutNames(r) /\ req' = Ended(r)
    /\ UNCHANGED <<table, given, storage, astray, doubled, events>>

\* set_title_if_missing: an untitled item gets the title of its page, once there is a copy
Retitle(i) ==
    /\ i \in Saved /\ items[i].of # NoEntry
    /\ items' = [items EXCEPT ![i].changed = TRUE]
    /\ UNCHANGED <<accounts, store, storage, req, astray, doubled, events>>

-----------------------------------------------------------------------------
(* The server stops and starts; time passes                                 *)

UnderWay == {r \in Requests : req[r] # NoRequest}

Restart ==
    /\ UnderWay # {}
    /\ astray' = astray \cup UNION {req[r].names : r \in UnderWay}
    /\ req' = [r \in Requests |-> NoRequest]
    /\ age' = Minute
    /\ UNCHANGED <<table, store, used, doubled, events>>

Tick ==
    /\ age < Minute \/ sinceRoom < Minute
    /\ age' = Min({age + 1, Minute})
    /\ sinceRoom' = IF Size < Limit THEN 0 ELSE Min({sinceRoom + 1, Minute})
    /\ UNCHANGED <<table, store, used, req, astray, doubled, events>>

SavingInit ==
    /\ items = [i \in Ids |-> NoItem] /\ accounts = Users
    /\ files = {} /\ given = {}
    /\ used = 0 /\ age = Minute /\ sinceRoom = 0
    /\ req = [r \in Requests |-> NoRequest]
    /\ astray = {} /\ doubled = {} /\ events = 0

Asks(r) ==
    \E u \in Users :
        \/ \E n \in 0..MaxImages : AskCapture(r, u, n)
        \/ \E i \in Ids : AskAdd(r, u, i) \/ AskRemove(r, u, i) \/ \E keep \in SUBSET Named : AskEdit(r, u, i, keep)
        \/ AskMail(r, u) \/ AskImport(r, u) \/ AskClose(r, u)

Work(r) ==
    \/ \E p \in Pictures : StoreFile(r, p) \/ Break(r, p)
    \/ Refuse(r) \/ ReadItem(r) \/ ReadAgain(r) \/ ReadAccount(r) \/ ReadEntries(r) \/ HoldLock(r)
    \/ WriteItem(r) \/ WriteAdded(r) \/ WriteKept(r) \/ WriteRemoved(r) \/ WriteClosed(r) \/ WriteImport(r)
    \/ RollBack(r) \/ Tidy(r)

RoomIsSeen == sinceRoom' = IF Size < Limit \/ Cardinality(files') < Limit THEN 0 ELSE sinceRoom

SavingNext ==
    \/ (\E r \in Requests : Asks(r) \/ TurnAway(r) \/ Work(r)) /\ RoomIsSeen
    \/ (Restart \/ \E i \in Ids : Retitle(i)) /\ RoomIsSeen
    \/ Tick

SavingSpec == SavingInit /\ [][SavingNext]_savingVars

-----------------------------------------------------------------------------
SavingTypeOK ==
    /\ items \in [Ids -> Rows \cup {NoItem}] /\ accounts \subseteq Users
    /\ files \subseteq given /\ given \subseteq Pictures
    /\ used \in Nat /\ age \in 0..Minute /\ sinceRoom \in 0..Minute
    /\ req \in [Requests -> Requested \cup {NoRequest}]
    /\ astray \subseteq given /\ doubled \subseteq 1..Entries /\ events \in 0..MaxEvents

\* Every picture an item shows has its file, at every moment of every edit, add,
\* removal and import, but for pictures of one item whose edits crossed.
PicturesHaveFiles == Named \ astray \subseteq files

\* "Don't leave orphaned files behind" (stash.py:206): with nothing under way, every
\* file is some item's picture, but for those of edits that crossed or were cut off.
NoFileIsLeft == UnderWay = {} => files \ astray \subseteq Named

\* "Merges: nothing already here is replaced or doubled" (accounts.py:90), but for an
\* entry that imports at once both found missing, and for one whose item isn't told
\* by its address, title and text any more when the export is brought in again: it
\* was edited, or got its page's title.
NothingIsDoubled ==
    \A u \in Users : \A i, j \in Of(u) : items[i].of = items[j].of /\ i # j => items[i].of \in doubled \cup {NoEntry}

Begins(r, kinds) == req[r] = NoRequest /\ req'[r] # NoRequest /\ req'[r].kind \in kinds

\* "A save just past the limit can slip through within that minute" (storage.py:3):
\* none of the app, of an add-on or of an export does once storage has been full for
\* a minute.  Mail does: a check by hand never looks at the limit.
StopsWhenFull == [][\A r \in Requests : Begins(r, Checked) => sinceRoom < Minute]_savingVars

-----------------------------------------------------------------------------
(* What the code's own documentation says and its steps do not keep        *)

\* mail.py:102, "at the storage limit mailboxes aren't checked: the mail waits there for later"
MailWaitsWhenFull == [][\A r \in Requests : Begins(r, {"mail"}) => sinceRoom < Minute]_savingVars

\* accounts.py:90, "Merges: nothing already here is replaced or doubled"
AllIsMerged == \A u \in Users : \A i, j \in Of(u) : items[i].of = items[j].of /\ i # j => items[i].of = NoEntry
=============================================================================
