# Feedstash in TLA+

Feedstash is a feed reader with a "stash" of saved items: a FastAPI server over
one SQLite file (`app/`), a page of plain JavaScript modules
(`app/static/js/`), and clients that sync. This directory holds TLA+ models of
the parts of it that are hard to test: what several requests, fetches, workers,
apps and restarts can do to each other. TLC checks the models on small
instances; TLAPS proves the main safety properties for every value of the
constants. Paths below are relative to the repository.

    tlc -workers 2 -config PageCapture.cfg MCPageCapture    # a run
    tlapm PageCapture_proofs.tla                            # a proof module

`PROJECT.json` lists the runs, which lines each definition models, a
deliberately broken variant of the code (a *slip*) for every property, the
hazards and the theorems. The slips are in the modules,
next to the definition they would replace, under a comment that begins with
"Slip".

## The ground everything stands on

* **One process, one event loop.** Coroutines (`ingest.refresh`, `PageWorker`,
  `MailWorker`) interleave at `await`s. Synchronous handlers and
  `to_thread` calls run in threads, side by side with them and each other.
* **SQLite transactions** (`app/db/database.py:22-46`). Each
  `db.transaction()` has a connection of its own. Up to its first write a
  transaction holds no lock, and each SELECT sees what is committed by then, so
  *two SELECTs of one transaction may see different states*; from the first
  write on nobody else writes, and everything is committed at once. Hence the
  grain of every model: each SELECT before the first write is a step of its own
  where it matters, and the rest of the transaction is one step.
* **Ids are reused.** `INTEGER PRIMARY KEY` without `AUTOINCREMENT` gives out one
  more than the largest id *in use* (`NextId` in the models); so after deleting
  the last row the next one gets its id, also when it is another account's.
  Only `stash_changes.seq` and sign-in providers are `AUTOINCREMENT`.
* **Start-up** (`Database.initialize`) runs the migrations, refills the search
  index and queues pages that are missing.

## Inventory

| Component | State | Operations | Interacts with | What is hard | Must hold |
|---|---|---|---|---|---|
| Page capture (`services/pages.py`, `repositories/pages.py`, `pages/fetch.py`) | `item_pages` rows, the worker's batch | queue, requeue, claim, store a result, restart | stash edits, sites | late results, restarts, leases | a row per item with a web address; no fetched copy under an address it isn't of; every page settles |
| Stash change log (`migrations.py` 344-429, `items.changes`) | `stash_changes`, apps' cursors and copies | triggers, changes, summary, search | every write of an item | log and items read apart, reused ids, lost answers | no gaps, no ghosts, only one's own; convergence |
| Feed refresh rounds (`ingest.refresh`, `scheduler.py`) | rounds, tasks, site locks, slots, rests | begin, lock, rest, gap, slot, fetch, store, raise | scheduler, Refresh, follows | several rounds, one raises | one fetch per site; rests kept; rounds end; every feed is fetched |
| Following (`subscriptions.py`, `feeds.py`, `store_result`) | feeds, their addresses, fetches under way | follow, import, change, unfollow, store | refresh rounds, stash | checks apart from writes; late results; twins | addresses are the owner's; one copy of two goes on; no backlog in the stash |
| Storing and cleanup (`save_entries`, `insert_new`, `purge*`) | articles, `purged_articles` | store, mark, star, hourly cleanup | feeds' documents, readers | days, boundaries, what a feed still lists | what is gone stays gone; what is read goes; nothing grows |
| Read marks in the browser (`articles.js`, `autorefresh.js`) | page state, pending sets, requests | setRead, flushMarks, poll, leave, reload | `POST /api/articles/mark` | overlapping calls, lost and late requests | no mark forgotten, every mark sent |
| Article lists (`repositories/articles.py`, `web/api/articles.py`, `articles.js`) | page's list, cursor, max_id; apps' since_id | page, new count, mark all, undo, ids | storing, cleanup, marks | paging a set that changes; two SELECTs; seconds | nothing missed; mark-all spares what is new; undo finds what it marked |
| Stash saving and pictures (`services/stash.py`, `images.py`, `storage.py`) | items, `item_images`, files on disk, the measured size | capture, add, edit and remove pictures, delete, close an account | page queue, log | files and rows are not one transaction; a limit measured once a minute | every picture shown has its file; no file is left over; saving stops when storage is full |
| Stash organisation (`stash_rules.py`, `stash_folders.py`, `smart_lists.py`, `to_stash.py`) | rules, folders, tags, smart lists | rules on new items and on everything in batches, rename, merge and delete tags, save an article | stash edits | a batch reads before it locks; long runs beside edits | rules only add and reach everything; no rule or list is hollow; a link is saved once |
| Account transfer (`account_transfer.py`) | one account's rows and files | export, import | everything | importing twice, also at once | nothing is replaced or doubled |
| Saving by email (`services/mail.py`, `mail/`) | mailboxes, remembered messages, the worker | check, save, remember, mark, start, stop | stash | stop between two transactions; worker restarted while it ends | each message once, and every one |
| Full text (`services/full_text.py`, `PageWorker`) | state per article | claim, store, by hand, reset at start | page worker, articles | late results, reused ids, restarts | nothing stays "working" when nobody works |
| Accounts (`services/accounts.py`, `users.py`, `invites.py`, `password_resets.py`) | users, invites, resets, cookies | set-up, invite, reset, admin, delete, password | everything | check, hash, then write, by two requests | an admin remains; a link works once; a new password ends sessions |
| Signing in (`web/auth.py`, `sso.py`, `web/api/sign_in.py`) | providers, switches, lists, and a copy of them in memory | add, change, remove, list, switch; come in | accounts | reloads read piece by piece | a way in is left; memory is the database; trust isn't inherited |
| Google Reader API (`web/api/greader.py`) | articles | streams, contents, edit-tag, mark all with `ts` | article lists | ids and contents apart; dates against arrival | nothing missed; mark-all spares what is new |
| OPML and bookmark parsing, folders and order of the sidebar, muted words, feed fetching and parsing, search, updates, logs, email sending, start-up, extension and the rest of the interface | — | — | — | data transformations, or one transaction each | — |

Everything but the last row is modelled, in full or in part; `PROJECT.json` says
for each component what is left out and why.

## Modules

Every component is a module with its state as `VARIABLES`, one action per
operation and a `Spec`; `MC*` gives TLC the constants a `.cfg` can't write;
`*_proofs` has its theorems. A property's comment states it in words and
names the code it is about. Bounds are constants called `Max...` with "bound"
in their comment.

| Module | Models | Proofs |
|---|---|---|
| `PageQueue` | what the page queue promises, abstractly | — |
| `PageCapture` | page queue and worker; implements `PageQueue` | `PageCapture_proofs` |
| `StashSync` | stash change log and apps | `StashSync_proofs` |
| `FeedRefresh` | refresh rounds | `FeedRefresh_proofs` |
| `Following` | feeds, addresses and their fetches | `Following_proofs` |
| `Retention` | storing and cleaning up articles | `Retention_proofs` |
| `ReadMarks` | read marks on their way to the server | `ReadMarks_proofs` |
| `ArticleList` | paging, mark-all-read, undo, an app's sync by ids, the Google Reader API | `ReadMarks_proofs` |
| `FullText` | full text of articles; extends `ArticleList` | `ReadMarks_proofs` |
| `Saving` | items, picture files, the storage limit, account import | `Retention_proofs` |
| `Organize` | rules, tags, folders, smart lists, saving articles | `FeedRefresh_proofs` |
| `MailCheck` | a mailbox, its checks and the worker | `StashSync_proofs` |
| `Accounts` | accounts, invites, resets, passwords, cookies | `Accounts_proofs` |
| `SignIn` | providers, switches and their copy in memory | `PageCapture_proofs` |
| `Largest` | that `Max` of a finite set of naturals is in it and bounds it | itself |

Five proof modules are about two components each, which do not share state: `PageCapture_proofs`
also holds the proofs about `SignIn`, `StashSync_proofs` those about `MailCheck`,
`FeedRefresh_proofs` `Organize`, `Retention_proofs` `Saving`, and `ReadMarks_proofs` `ArticleList` and
`FullText`. A module that extends both must not see one name twice, so the second component's
`Init`, `Next`, `Spec`, `TypeOK` and parameters carry its name (`SignInInit`, `MailSpec`,
`ListTypeOK`, ...).

`FullText` is composed with `ArticleList`: it extends its state and its steps,
so articles come, go and give their ids away while their text is fetched, and
one run checks both. `PageCapture` is shown to implement `PageQueue` under the
mapping `View`, which forgets attempts, leases, batches and times.

The others meet at interfaces: `FeedRefresh` says *when* a feed is
fetched (its `EveryFeedIsFetched` is the fairness `Following` assumes of
`BeginRefresh`), `Following` *what a fetch does to the feed*, `Retention` *what
becomes of its entries*, `ArticleList` *how those are listed*, and `ReadMarks` how
marks on them travel. A stash edit is one atomic step with its row in the page
queue and its entry in the log (triggers), so `PageCapture`, `StashSync`, `Saving`
and `Organize` each see the same edits from one side: the queue, the log, the files and
the tags. `MailCheck` ends where `Saving` begins, and `SignIn` says who may come in
where `Accounts` says what an account is.

### PageCapture

`item[i]` is an item's first web address (or `NotWeb`), `page[i]` its `item_pages`
row: address, status, attempts, how long until it is due (`not_before` as a
countdown) and its copy: the address it was taken of, and whether it came with the save. `batch` is what `run_once` gathers,
`strays` are fetches whose batch is no longer waited for because one result could
not be stored (`asyncio.gather` raises; the others run on). `worker` is the worker's
task: `"off"` with the server, `"starting"` until its reset of interrupted rows is done,
`"looping"`, or `"ended"` by an error in that reset, which is outside the loop's `try` (`pages.py:119`).
`Capture(u, of)`, `ChangeAddress`, `Remove` and `Requeue` are the stash's requests; a page sent
along is of the save's `url` (`of`) and stored under the item's first link (`u`), which may be another.
`BeginLoop`, `Claim`, `Finish`, `LoseResult` and `Tick` are the worker and its clock; `Stop` and `Start`
a restart, with `queue_missing`. `Matches` is the `WHERE item_id = ? AND url = ?`
under which every result is stored.

`PageQueue` is the promise without the machinery: of each item no page, or one with an
address, a state and the address of its copy. Pages `Appear`, are replaced (`Replace`)
when the address changes or the item goes, wait `Again`, and `Settle` with a new copy or the
one they had. That every page settles in the end is `EveryPageSettles` of `PageCapture`, since it
excepts a worker that ended. `Queue` in `PageCapture` is its instance.

### StashSync

`item`, `entry` and `last` are the items, the log (one entry per item id: `item_id`
is UNIQUE over all accounts) and `sqlite_sequence`. An app's request goes through
`Ask`, `ReadRows` (log) and `ReadItems` (items), which are separate SELECTs, and
`Receive` or `LoseAnswer`. Accounts in `Listers` start from the summary's cursor and the lists by
offset, the others from `since=0`, as README.md:278 describes both.

### FeedRefresh

A round (one call of `refresh`) has a task per site; `task[r][s]` is where the
coroutine is, in the order of the code: lock, look at the rest, sleep the gap, wait for
a slot, fetch, store. `queue[s]` is a site's `asyncio.Lock` with its waiters in order.
A fault while storing is recorded as an error (`StoreFails`); a fault while
recording raises out of the round (`RecordFails`), whose other tasks go on with a closed
client (`Break`). `FollowLimited` is a follow that is told "too many requests".

### Following

`feed[i]` is a row of `feeds`, with two marks of its past (`given`, `flooded`).
`job[j]` is a request or fetch with *what it read when it began*: `id`, `url`,
`first`. `Answer` is the network, `Check` the reads of `store_result`
(`exists`, `followed_as_another`), `StoreRefresh` its writes, `Create` and
`ChangeSource` the ends of a follow and of a change of address. `web` says where each
address leads, `https://` back to `http://` included, and `Move` changes that.

### Retention

One feed. `article` and `remembered` are the two tables, with times as ages in days that stop
counting past the end of their retention, so time is unbounded in a finite model. `Begin`/`Store`/`Miss`
are a fetch; whether it takes entries of any age (`keep_old`) is read at `Begin` and used at `Store`. The
document is an input of `Store`, any at all: an entry may be dated anew by each (`parser.py:166-170`
falls back to `updated_parsed`, and to the clock). `Purge` is the cleanup: `purge`, `purge_read` and
`forget_purged`, one transaction. A store and a cleanup read the clock before their transaction
begins: `late` is whether a day has begun since.

### ReadMarks

`pending[TRUE]` and `pending[FALSE]` are `pendingRead` and `pendingUnread`; `call[c]` is a call
of `flushMarks` that waits for an answer. `OnTimer`, `OnPoll` and `OnLeave` begin one (read
marks go first), `Answered` and `Fail` let it go on with the other half; `Fail` gives marks
back unless the opposite is pending by then. `Handle` is the server's; a request the page gave up on
may still be handled later (`HandleLate`).

### ArticleList

`listed`, `cursor`, `maxId`, `done` are `state.list`; a page's request is `ReadRows`,
then (first page only) `ReadMax`, then `Receive`. `PressMarkAll`/`MarkAll`/`Undo` are
`markScope` and its endpoints, `Poll` is `pollForNew`. `App...` is an app that asks
`GET /api/articles/ids?state=all&since_id=`: of what is asked for it gets the `IdsLimit` newest by date
(`WithinLimit`), and goes on from the largest id of all. An app of the Google Reader API lists with the
same cursor (`continuation`), asks for the contents of the ids it got (`ReadContents`:
what is gone by then is left out) and marks all with the date of the newest it has
(`ReaderMarksAll`, `ts`). `reading` says who reads in a behaviour: the page, one of the
two apps, or nobody. Articles come (`Store`), go (`Delete`)
and are marked (`Mark`) at any moment. `excused` and `untold` keep the entries that the
properties except, by the event that excepts them.

### FullText

`text[i]` is `full_status` and `full_content` of the row with that id, `fetches` the jobs under
way, by the worker and by hand. `Elsewhere` is any step of `ArticleList`, after which
a row that goes takes its text along. `Claim`, `Ask`, `Finish`, `LoseResult` are
`claim_full_text`, the request for one article, and the end of either; results are stored
`WHERE id = ?`, so one may reach another article. `Stop`, `Start`, `ResetInterrupted` and
`ResetFails` are a restart, with the worker's `_reset_interrupted`.

### Saving

A request goes through the steps of its handler: room is checked (`Ask`, `Storage._measure`),
files are written one by one (`Store`, `Refuse`, `Break`), what it needs is read (`ReadItem`,
`ReadAgain`, `ReadAccount`, `ReadEntries`), the write lock is taken (`HoldLock`), rows are
written and committed (`Write...`) or not (`RollBack`), and files are deleted (`Tidy`). `files` and
`items` are what no transaction holds together. `astray` are pictures
of items whose edits crossed or were cut off by `Restart`. An export's entry is recognised by what
the import compares (address, title, text and time): `doubled` are entries that two
imports at once both found missing, or whose item was edited or retitled (`services/pages.py:38`) before the
export came in again. A saved mail (`AskMail`) brings its picture without a look at the limit.

### Organize

`RunBegins` ... `RunEnds` are `apply_rules_to_everything`: ids first, then batches, in each of which
rules and the first item are read before the first write takes the lock. Ids are gone through in
their order, so `run.todo` and `run.batch` are sets: a batch is the least `RulesBatch` of what
is to do (`BatchOf`), and the next item the least of the batch. `SaveLooks` and
`SaveCreates` are an article being saved, `AutoStash` the same from its feed (one
transaction that holds the lock). `DeleteTag`, `RenameTag`, `DeleteFolder` go through items, rules
and the smart list as the code does; `ListChange` and `ListWritten` are the two halves of
editing a smart list.

### MailCheck

`check[c]` is a check under way, by the `"worker"` or by `"hand"`, with the messages it listed;
each goes through `Look` (`already_saved`), `Save`, `Remember` and `Mark`, with the failures of
each (`SavingFails`, `RememberingFails`, `NotMarked`). `task` is the worker's loop:
`ReadAccounts`, `Stops`/`End`, `Open`, `RoundDone`; `Connect` and `Start` are a mailbox being
saved and `start()` being called after it. `old` are the messages remembered for 180 days,
which the end of a round forgets whatever the mailbox says of them (`ForgetOld`). `Failing` messages
are never saved, `Sticky` ones never marked read; both stay listed. `Restart`, `LoseFlag`,
`Ages` and `Disconnect` come at any moment.

### Accounts

A request (`job`) looks (`read`), hashes or waits for the write lock, and writes (`enter`);
then its browser gets a cookie with the account's session number. `End...` are the writes,
each with the conditions its handler checks again in its transaction, and those only. A job's
`late` says that another of its group wrote after it looked. `uses` counts what each link
did, `born` and `typed` (in cookies) are history for the properties.

### SignIn

`rows` and `settings` are the database, `sso`, `off`, `listed`, `unreadable` and `snapshot`
the attributes of `SignIn` in `sso.py`. A change takes `lock`, is checked on *memory*
(`MayGoAhead`), written (`RowsAfter`, `SettingsAfter`), and reloaded in `ReadSettings`,
`ReadProviders`, `Install`, of which each sees what other reloads left in memory. `Add` is
the one that takes no lock. An edited issuer is one of the changes: the row keeps its id, and with it the
trust of those who came through it. `ComeBack` and `LetIn` are a sign-in through a provider.

## What each run shows, and its bounds

| Run | States | Shows |
|---|---|---|
| `PageCapture` | 583 812 | `PageMatchesItem`: an item has a row exactly when it has a web address, for that address. `CopyIsOfItsAddress`: no late result is shown under another address. `ImplementsPageQueue` (refinement): through restarts and lost results the queue does only what `PageQueue` does. `EveryPageSettles` (liveness). About 2 minutes. |
| `StashSync` | 181 541 | `NoGaps`, `NoGhosts`, `OnlyOwn` for two accounts and two kinds of apps; `CatchesUp` (liveness). |
| `FeedRefresh` | 105 870 | `OneRoundPerSite`; `RestIsKept` (action property); `EveryRoundEnds`, `EveryFeedIsFetched` (liveness). |
| `Following` | 292 935 | `AddressIsItsOwn`, `FirstFetchIsNotStashed`; `SomeCopyUpdates` (liveness). |
| `Retention` | 41 570 | `GoneStaysGone` (action property); `ReadGoesAway` (liveness). |
| `ReadMarks` | 281 934 | `MarksAreKept`; `EveryMarkIsSent` (liveness). |
| `ArticleList` | 1 738 211 | `NothingIsMissed`, `MarkAllCanBeUndone`, `AppMissesNothing`; `SparesNew` (action property); `WorkIsUnderWay` of the full text fetched meanwhile. About 100 s. |
| `Saving` | 977 687 | `PicturesHaveFiles`, `NoFileIsLeft`, `NothingIsDoubled`; `StopsWhenFull` (action property). About 2 minutes. |
| `MailCheck` | 129 409 | `OnceOnly`, `NothingIsLost`; `EveryMessageIsSaved` (liveness). |
| `Accounts` | 136 024 | `PasswordEndsSessions`, `LinksWorkOnce`, `SomeAdminStays`. |
| `SignIn` | 1 312 783 | `AWayInIsLeft`, `MemoryIsTheDatabase`, `TrustIsNotInherited`. |
| `Organize` | 598 330 | `SavedOnce`, `NothingIsHollow`; `RunReachesAll` (action property). |

Twelve more configurations end in a counterexample: each checks a sentence of a comment
or of the documentation, or something one may expect, that the code does not keep (listed further
down), and is run by hand. Several are hazards that a property above excepts by name.

| Configuration | Module | Violated |
|---|---|---|
| `StashSyncReusedId` | `MCStashSync` | `AllDeletedAreTold` |
| `FollowingBacklog` | `MCFollowing` | `BacklogStaysOut` |
| `FollowingBack` | `MCFollowing` | `OneCopyStops` |
| `RetentionEdited` | `Retention` | `AllGoneStaysGone` |
| `ArticleListSync` | `MCArticleList` | `AppIsToldAll` |
| `ArticleListReader` | `MCArticleList` | `ReaderSparesUnseen` |
| `SavingMail` | `MCSaving` | `MailWaitsWhenFull` |
| `SavingMerge` | `MCSaving` | `AllIsMerged` |
| `MailCheckStarts` | `MCMailCheck` | `ConnectingStarts` |
| `MailCheckFull` | `MCMailCheck` | `NoneIsKeptBack` |
| `SignInAdding` | `MCSignIn` | `SomeoneCanSignIn` |
| `OrganizeOnlyAdds` | `MCOrganize` | `RulesOnlyEverAdd` |

Why the bounds are enough, run by run:

* **PageCapture**: two ids and two addresses let a fetch come late to a changed
  address, to a deleted item and to an id given to another item; two edits and one
  fault reach each of these and a restart in between. `MaxAttempts` is the
  code's 3. Times keep their order (deadline 2 < lease 3, delays between), which is
  all that is used of them: the theorems hold for any such times.
* **StashSync**: three ids with two accounts (a reused id that changes hands and
  one that doesn't), answers of one entry and pages of one item so that every list
  takes several requests, four writes.
* **FeedRefresh**: three feeds on two sites (one site has a second feed, which the
  gap and a rest can drop), two rounds, one slot between them all, one rate limit or
  database fault, and a follow at any moment. So rounds meet at a site, at the slot, and
  one can raise while the other waits for its locks.
* **Following**: one account, two ids (a feed and its copy, or a feed and one that
    gets its id), two fetches, three events, one of which may be that a feed is there as http and https from
  the start; a web in which a feed has moved to where http:// is refused, and one in which https:// of a host leads back
  and the other host answers both. Feeds of different accounts meet only
  through reused ids, which one account shows as well (the theorems are for any number).
* **Retention**: `RetentionDays` 2, `KeepPerFeed` 1, two entries, two
  fetches, every document of any dates, a clock that is up to a day late. With one kept per feed, two entries are what it takes for one to be purged.
  An account's choice of days is 0 or 1, so that reading can end before and after the
  retention.
* **ReadMarks**: two articles, two calls at once, three presses (read, unread,
  read again), one failure.
* **ArticleList** (with **FullText**): three entries, two of them of one date; pages of
    one article, answers of two ids at most to the app that syncs; two marks, one deletion, two seconds. All orders of ids against dates are
  initial states. Two of the entries want full text, one request by hand and one fault
  (a restart, a failed write or an import).
* **Saving**: one account (another's items differ from its own in nothing these
  properties tell apart; closing an account is one of the requests), two requests at
  once of three in all, so that any two cross and the last one finds what they left; three
  pictures, two to an item, a limit of two, a measurement that is good for one tick, an export of two
  entries. An entry is edited or retitled between two imports, and mail comes at the limit.
* **MailCheck**: three messages, of which the oldest can't be saved and the newest can't be marked read, and
  two to a check, so that a message is saved behind one that always fails; checks by the
  worker and by hand at once; three events (a mailbox connected or removed, a check by hand, a stop, a lost
  flag, a message remembered for 180 days) and one error of the database. In `MailCheckFull` the failing one
  fills a check.
* **Accounts**: three ids, room for two, two browsers, two requests at once, three
  requests or expiries in all: a reused id, links of an account that went, and any
  two requests that cross.
* **SignIn**: one account, without a password, that is an admin; one provider of the
  server's, and two added ones (the second shows whether an id comes back); two requests at once of three.
* **Organize**: two links and tags, three items in batches of two, two folders and rules, four
  kinds of rules and of smart lists; two edits beside one run over everything, or beside
  two requests that save, or beside a list being edited. A behaviour has one kind of long
  request (`kind`): two kinds share only single transactions, which are edits here.

Deadlock is checked in the runs of `FeedRefresh` and `Retention`. In the others bounded
events simply run out: a stopped model is one in which nobody edits any more. What
"everyone waits for everyone" would be in the code is `EveryRoundEnds`, `EveryPageSettles`
and `EveryMessageIsSaved`.

### Fairness, and why the code has it

* A coroutine that can go on is run by the event loop: weak fairness of
  `FeedRefresh!Work`, `PageCapture!Finish`, `Following!GoOn`. Fetches have
  deadlines (`asyncio.timeout` in `fetch_page`; the HTTP client's), so they end.
* The scheduler loops for ever and survives exceptions (`scheduler.py:76-85`): strong fairness of
  `Scheduled`, since rounds of other people may disable it now and then.
* The page worker, *once in its loop*, survives exceptions (`pages.py:120-129`): weak fairness of
  `Claim` and `Finish`. Its reset of interrupted rows comes before the loop's `try`
  (`pages.py:119`): an error there ends the worker until the server is started
  again, so `BeginLoop` is fair only while the task is starting, and `EveryPageSettles` excepts a worker that ended.
  Weak fairness of `Start`: a stopped server is started again.
* The mail worker's loop goes on while a mailbox is connected (`mail.py:153-170`), and a
  request that saved a mailbox calls `start()`: weak fairness of `Loop` and `Start`. A
  mailbox is reached, and a message saved and marked, if that is tried again and again:
  strong fairness of `Open`, of `Save` for messages that can be saved at all, and of `Mark` for those that
  can be saved and marked (`Stuck` are the others). Which message a check takes next is not
  chosen: weak fairness of its steps together.
* Time passes (`Tick`, `Day`).
* Apps keep asking (weak `Sync`), and of infinitely many answers not all are lost
  (strong `Receive`). The page polls every minute (strong `OnPoll`: the two calls
  the model allows may be taken now and then).
* No fairness for anything a person does, and none that a fault stops: faults
  are bounded instead (`MaxFaults`, `MaxTroubles`, `MaxFailures`), so "in the end" means
  "once faults cease".

## What is proved

Every safety invariant and every action property that a run checks is also a theorem. For each
component the proofs establish `Init => IInv`, `IInv /\ [Next]_vars => IInv'` (a lemma for each
action or kind of action) and, from these, `Spec => []IInv` and the properties below, for *all*
values of the constants that meet the module's `ASSUME`s (which TLC evaluates in every run).
Each inductive invariant was first checked by TLC on the run's instance.

| Theorem | Property | Argument |
|---|---|---|
| `PageCapture_proofs!QueueFollowsItems`, `CopiesAreOfTheirAddress` | `PageMatchesItem`, `CopyIsOfItsAddress` | `PageMatchesItem` speaks of a running server only and isn't inductive: at `Start` one must know that the rows there are of the right address. `RowIsOfItem` says so in every state. |
| `PageCapture_proofs!QueueIsImplemented` | `ImplementsPageQueue` | Step by step: an action that changes one row is one of `PageQueue`'s (`RowGoesOn`, `RowReplaced`), what `Capture` and `Start` add appears (`RowsAppear`), and claims and the clock aren't seen. Needs that a new item's id has no row, which is `RowIsOfItem` and `Largest`. |
| `StashSync_proofs!ChangesHaveNoGaps`, `ChangesLeaveNoGhosts`, `AppsHaveOnlyTheirOwn` | `NoGaps`, `NoGhosts`, `OnlyOwn` | The invariant relates every stage of a request to the log: for each id an app is not up to date about, its entry is beyond the cursor *or in the answer on its way*, at each of the SELECTs. Entries have different places in the log, so "the first `Limit` after the cursor" leaves out only later ones. |
| `FeedRefresh_proofs!OneRoundTalksToASite`, `RestsAreKept` | `OneRoundPerSite`, `RestIsKept` | Tasks past the lock are heads of their site's queue, and a queue holds a round once; a task that has looked at its site and now waits (`LookedAtAwake`) finds it awake, since only the lock's holder can make it rest (with `Follows` false). A new round's turn comes with a look of its own. |
| `Following_proofs!AddressesAreTheirOwn`, `FirstFetchesAreNotStashed` | `AddressIsItsOwn`, `FirstFetchIsNotStashed` | A fetch that isn't orphaned began with a fact about its feed that only grows (`fetched`), and `Upgraded` compares addresses before it writes. |
| `Retention_proofs!RemovedStaysRemoved` | `GoneStaysGone` | What a cleanup removed is remembered (`GoneIsRemembered`) or past the window by the date it was stored with, up to the day a clock may be late; so what comes back is taken by a first fetch, listed as newer, or just past its last day. |
| `ReadMarks_proofs!NoMarkIsForgotten` | `MarksAreKept` | A request against the reader's last choice is older than that choice, which is then still gathered; were it sent too, the two would have crossed. |
| `ReadMarks_proofs!UnreadIsListed`, `MarkAllSparesTheNew`, `UndoFindsTheBatch`, `CopiesMissNothing` | `NothingIsMissed`, `SparesNew`, `MarkAllCanBeUndone`, `AppMissesNothing` | The order of rows (by date, then id, either way) is strict and total, so a page, the first `PageSize` of what comes after the cursor, leaves out only rows after its last (lemmas `RowsAreOrdered` and `PagesLeaveNothing`). Hence at each step of an answer (`Pages`, `WillHave`) every unread article is listed, in the answer, beyond its cursor, or newer than the `max_id` that will be polled. `BatchesAgree` ties an entry's batch to the time it was read; `AppKnows` says what an app's half-finished answer covers. |
| `ReadMarks_proofs!TextsKeepToLists` | (`FullSpec => ListSpec`) | `FullText` implements `ArticleList`: every step of the text worker is a step of the list or leaves it alone, so all of the above holds while texts are fetched. |
| `ReadMarks_proofs!TextsAreUnderWay` | `WorkIsUnderWay` | A row that says "working" is in the hands of a fetch of the worker's or among those a restart left behind (`WorkIsKnown`), in spite of ids that other articles get. |
| `Retention_proofs!ItemsHaveTheirFiles`, `NoOrphansStay`, `ImportsDoubleNothing`, `FullStorageStops` | `PicturesHaveFiles`, `NoFileIsLeft`, `NothingIsDoubled`, `StopsWhenFull` | `PicturesOk`: a file is named by one item, or by one request that made it or will delete it, and what a request will delete no item names, each but for `astray`. What a request knew of an item it removes is still that item's own (`KnownIsThere`). `RoomSeen`: a measurement is as old as the last room seen, or says it is full. |
| `StashSync_proofs!SavesOnceOnly`, `LosesNothing` | `OnceOnly`, `NothingIsLost` | A message with an item is remembered, or read and in no check's hands, or about to be remembered (`Safe`), or was forgotten while the mailbox could hand it over (`Again`); one check has it in hand (`OneSaves`), and what passes for saved is (`SavedFirst`). |
| `FeedRefresh_proofs!ArticlesAreSavedOnce`, `NothingIsLeftHollow`, `RulesTakeNothing`, `RunsReachEverything` | `SavedOnce`, `NothingIsHollow`, `RulesOnlyAdd` (proved only; what it excepts is what matters for a run), `RunReachesAll` | `RunCovers`: of what the rules began with and nobody else changed, all is still to do, in the batch, or already as the rules make it, and applying rules twice changes nothing more. `ReadForWrite`: the item about to be written is as it was read or known to have changed. `SavesAreKnown`: a link being saved by two, or there already, is known. |
| `Accounts_proofs!PasswordsEndSessions`, `NoLinkWorksTwice`, `AnAdminStays` | `PasswordEndsSessions`, `LinksWorkOnce`, `SomeAdminStays` | `SessionInv`: a cookie, or a sign-in under way, that holds an account's session number holds its password as well; numbers only grow. `LinkInv`: a token names one link of both tables, and an unused one has done nothing. `AdminInv`: a removal that nothing crossed leaves another admin. |
| `PageCapture_proofs!AWayInStays`, `TheCopyIsTrue`, `NoTrustIsInherited` | `AWayInIsLeft`, `MemoryIsTheDatabase`, `TrustIsNotInherited` | `WritesLeaveAWay`: what was checked leaves a way in once it is written, whatever is added in between; for that, every unreadable provider is known to any reload however old (`UnreadableAreKnown`). `OneReload`: until an added provider's reload crosses another's, one reload goes on at a time, and what it has read is what the database says. `IdsAreGivenOnce`: an id names the provider it was given to wherever it is kept. |

Each component's `TypeOK` is a theorem too (it holds more than types: no guid both stored and
remembered, no address followed twice, no mark gathered both ways, no item, rule or list in a folder
that is gone). `Largest` has the lemmas about `Max` that `NextId` and cursors need.

The constants are assumed to be what the code makes them, and no more: sizes and limits are numbers,
what stands for "nothing" is not one of the things, keys of the server's providers are not
ids of added ones (`p1`, `p2`, ... in the code), and in `ArticleList` there are finitely many
entries, so that a page of them is defined.

Model-checked only: every liveness property, since proofs about
fairness need `ENABLED`, which the prover does not reason about. Nothing is assumed beyond the
`ASSUME`s; no module with a theorem has a `RECURSIVE` operator, and nothing is proved by
induction over data: lists and batches are sets with an order, and "the first n" is defined by
counting.

## What the code says and does not do

Each of these has a configuration that ends in a counterexample:

1. **A deleted item that apps are never told of** (`StashSyncReusedId`,
   `migrations.py:357`). `stash_changes.item_id` is UNIQUE over all accounts. Delete the
   newest item, let another account save one, and the tombstone is replaced.
2. **A backlog in the stash** (`FollowingBacklog`, `ingest.py:121`). An imported feed
   whose first fetch failed has `last_fetched_at`; if auto-save is set, the next
   fetch, which brings everything, counts as not the first.
3. **An article that comes back** (`RetentionEdited`, `articles.py:430` "old enough that refreshes skip
   them anyway"). `forget_purged` goes by the date an article was stored with. An entry edited since is dated by
   `updated` (`parser.py:166-170`), one without a date counts as of now at every refresh
   (`ingest.py:70`): both pass the window again once their guid is forgotten. So does one whose last day
   ends between a store's look at the clock (`ingest.py:100`) and its transaction.
4. **An article a sync never tells** (`ArticleListSync`, `web/api/articles.py:86`).
   The ids and `max_id` are two SELECTs; what is stored in between is at or below
   `max_id` and not among the ids. The list on the page has the same window
   (`articles.py:103-109`): such an article is pinned but not shown, isn't counted as new, and is
   marked read with the rest. And an answer is cut off after the 10 000 newest by
   date (`repositories/articles.py:160-163`) while `max_id` is the top of all, so older-dated articles are never told.
5. **Articles an app has not seen** (`ArticleListReader`, `greader.py:379`). `ts` "spares
   anything newer", by publication: an article that arrived later and is dated earlier is marked.
6. **A mailbox that nobody checks** (`MailCheckStarts`, `mail.py:106`, `:154`). "Connecting one starts it
   again": `start()` does nothing while the loop that found no mailbox is ending.
7. **A provider added beside a change** (`SignInAdding`, `sign_in.py:161`, against :28). Adding
   takes no lock; its reload may put old switches back in memory, on which
   another change is then checked, and the last way in is turned off.
8. **Two copies that stop each other** (`FollowingBack`, `ingest.py:104` "so this older copy stops").
   Where a site sends `https://` back to `http://`, which the fetcher follows (`fetcher.py:72`), the `http://`
   copy finds its twin at the `https://` address, and the other way round (`ingest.py:106-113`).
9. **An export brought in twice** (`SavingMerge`, `web/api/accounts.py:90`, README.md:231 "bringing the same file in
   twice changes nothing"). Items are recognised by time, address, title and text
   (`account_transfer.py:283-287`): one that was edited, or got its page's title (`services/pages.py:38`), is
   doubled.
10. **Mail at the storage limit** (`SavingMail`, `mail.py:102` "the mail waits there for later"). A check by
    hand (`web/api/mail.py:81-87`) saves without a look at the limit, and the worker looks once per round.
11. **Mail kept back** (`MailCheckFull`, `imap.py:80`). A check takes the 25 oldest unread. Messages that fail every
    time, or can't be marked read, stay among them; as many as that, and newer ones are never listed.
12. **Rules that take away** (`OrganizeOnlyAdds`, `stash_rules.py:121`). "Only adds", but a batch's first
   changed item is read before the lock: a tag added meanwhile is lost, a removed one
   is back, a folder chosen meanwhile is overwritten.

Others, which the models show or allow, and which the properties except by name:

* A page asked for again while its fetch runs is settled by that fetch
  (`repositories/pages.py:79`; `requeue` says "Fetches an item's page again", :46). An
  interruption may cost one attempt more than three (:93).
* A late page result is accepted for a new item with the old one's id *and*
  address (:75): the copy is right, its time isn't.
* Lists by offset (`items.py:230`) skip an item when one before it is deleted
  between pages; an app that starts from the lists may lack it until it is written again.
* `SAME_SITE_GAP_SECONDS` isn't kept between two rounds (`ingest.py:27`), and a rest
  begun by a *follow* isn't seen by a round that already waits in the gap or for a
  slot (`ingest.py:168`, against the comment at :30).
* A feed unfollowed during its fetch, and another followed that gets its id: the
  entries are stored in that feed (`ingest.py:103`).
* Two follows of `http://` and `https://` of one feed at once are both
  inserted (`ingest.py:104` says this was possible before 0.9.0). The older copy then
  stops, as it should.
* A second fetch of a new feed that was begun before the first ended takes entries of
  any age after a cleanup. Raising `RETENTION_DAYS` brings forgotten articles back.
* Two requests of `flushMarks` about one article, one each way, can be under way at
  once if the first takes longer than 800 ms. The server then may end with the
  opposite of what was chosen (README.md:267: "marking something read in one shows
  up everywhere").
* A list reloaded while marks are on their way shows the old state until the next
  reload.
* Undo matches `read_at = batch` in whole seconds, so marks made by hand in that
  second, which `markScope` flushes right before, are undone as well.
* Articles' ids are reused, so "article ids grow in fetch order" (`articles.py:128`) has exceptions.
* Full text is stored `WHERE id = ?` alone (`articles.py:294-299`): when the id is another
  article's by then, it gets the text. A failed write leaves "working" until the next
  start; a later failure replaces the status "ready" and keeps the text; if
  `_reset_interrupted` fails, the page worker has ended for good (`pages.py:119`); an import
  may bring "working".
* A page sent with a save is of the save's `url` (`stash.py:167`) and stored under the item's
  first link (`stash.py:202`), which is another where `url` is among the links but not
  first (`items.py:100-105`). `CopyIsOfItsAddress` speaks of fetched copies; the sent one stays until it is replaced.
* Saving: a failed `write_bytes` leaves part of a file; edits of one item's pictures that cross can
  lose a picture or leave one named whose file is gone; two imports at once may
  double an entry.
* Mail: a stop between saving a message and remembering it (`mail.py:49-53`) saves it again,
  against `migrations.py:213-214` "nothing is saved twice"; so do messages without a
  Message-ID whose mark failed. `forget_seen` goes by age alone (`repositories/mail.py:84`; "won't hand the message
  over again"): one still unread after 180 days is saved again. An error outside a mailbox's check ends the loop until a mailbox is
  connected or the server restarts. A mailbox removed while a round is under way is
  still checked.
* Accounts: ids of users, invites and resets are reused, so a request under way
  may act on another's row. Two requests that create an account at once may
  take one address, or more room than there is; two removals of admin rights that
  cross leave no admin (`crossed` in `SomeAdminStays`).
* Rules: a rule whose folder is deleted keeps nothing to do (`ON DELETE SET NULL`,
  `migrations.py:206`); a run that read it before files into whatever folder has
  the id by then. An article two requests save at once is saved twice.

## What the models leave out

* **Data**: what a document parses to, what extraction makes of a page, the words
  of errors, titles, order and folders; search and muted words. An entry is its guid and
  date, a page its address, an item its owner and version.
* **PageCapture**: how copies are read and previewed; imports of accounts, which write `item_pages` rows
  themselves, for the address the item in the same file has (`account_transfer.py:316-325`).
* **StashSync**: the `more` flag (it only says to ask at once); fields of items.
* **Following** assumes of the web that http and https of a host are one feed, and that redirects end.
* **Retention**: one feed, since cleanup and storing go feed by feed; unfollowing; an entry with a date to come counts as
  undated (`parser.py:165-173`).
* **ReadMarks**: other devices' marks; the default list of what is unread. Its liveness is for
  a page that stays open.
* **ArticleList**: one scope, a list of what is unread; "older than", starred
  lists and searches; apps that ask with a limit. Of the Reader API names of streams,
  starred and read streams, and the edits of subscriptions, which are the page's transactions.
* **FullText**: that only recent articles are taken up by the worker; what becomes of a page.
* **Saving**: ids of accounts given again; the order of pictures; reading zip and JSON, and the
  tables of an export besides items.
* **Organize**: what a rule looks for besides a link; names and order; "reviewed", which goes as
  "archived" does.
* **MailCheck**: parsing of mail, tests of a connection, the separate email worker that
  posts to the API.
* **Accounts**: the limiter of failed sign-ins, API tokens (one transaction each), names and
  preferences.
* **SignIn**: the exchange with a provider, trying one out, what an issuer is, names and icons; a reload that fails.
* **Crashes** are in `PageCapture`, `FullText`, `Saving`, `MailCheck` and `Organize`, where something on
  disk says that work was under way or files and rows come apart. Elsewhere a restart drops
  what is in memory, which is a subset of what losing a request or ending a fetch already
  does, except that rests are forgotten (`FeedRefresh` starts with none).
* **Not modelled at all**, since each is a transformation of data or one transaction:
  parsing of OPML, bookmarks and feeds, muted words, search (triggers within the write they
  follow), the order of the sidebar, updates, logs, sending of email, and views.

## Plan

Done, in this order: PageCapture, StashSync, FeedRefresh, Following, Retention, ReadMarks,
ArticleList; Saving, Accounts, SignIn, MailCheck, FullText (composed with ArticleList),
Organize, the Reader API; PageQueue and its refinement. To come:

1. **Proofs**: done for every safety invariant and action property of the runs.
2. **Refinement**: an abstract mutual exclusion for `FeedRefresh`, and "an app's copy is a past
   state of the stash" for `StashSync`.
3. **Algorithms**: the sign-in limiter, backoff and rest lengths, cursor parsing, each against a
   reference definition over bounded inputs.
