----------------------------- MODULE Following -----------------------------
(***************************************************************************)
(* Which address a followed feed has, and what its fetches may do to it:   *)
(* following, changing an address and importing an OPML file               *)
(* (app/services/subscriptions.py), unfollowing, and storing what a        *)
(* refresh fetched (app/feeds/ingest.py, store_result).  Every one of      *)
(* these fetches first, or reads first, and writes later, while the others *)
(* go on: a transaction that has only read holds no lock (database.py).    *)
(*                                                                         *)
(* When fetches happen, and one after another on a site, is FeedRefresh's  *)
(* subject; which articles they bring is left out, but for the first ones. *)
(***************************************************************************)
EXTENDS Integers, FiniteSets, FiniteSetsExt

CONSTANTS Users,
          MaxId,     \* feed ids are 1..MaxId
          Hosts,
          Webs,      \* where addresses may lead: the answer's address, after redirects or a refusal of http
          Workers,   \* requests and fetches that may be under way at once
          MaxEvents, \* bound: requests of users, sites that move, fetches that fail
          NoFeed, NoJob

Ids == 1..MaxId
Addresses == [host : Hosts, secure : BOOLEAN]

\* secure_url, for addresses that are http or https
Secure(a) == [a EXCEPT !.secure = TRUE]
Plain(a) == [a EXCEPT !.secure = FALSE]

\* Of the sites: http:// and https:// of a host are one feed, and what an address
\* leads to leads no further.
ASSUME Parameters ==
    /\ MaxId \in Nat \ {0} /\ MaxEvents \in Nat \ {0}
    /\ Webs \subseteq [Addresses -> Addresses]
    /\ \A w \in Webs, a \in Addresses :
        /\ w[a].host = w[Secure(a)].host
        /\ w[w[a]] = w[a]

\* A row of the feeds table, with two things of its past: the address it was given
\* by its owner, and whether its first articles went to the stash
Feeds == [owner : Users, url : Addresses, given : Addresses,
          fetched : BOOLEAN,   \* last_fetched_at is not NULL
          seen : BOOLEAN,      \* a fetch of it succeeded: the articles it then listed are here
          auto : BOOLEAN,      \* auto_stash
          stopped : BOOLEAN,   \* last_error says that it is followed under another address
          flooded : BOOLEAN]

\* A request or a fetch under way: what it read at its start, how far it is, the address that
\* answered, and whether the feed it is about was unfollowed since
JobsUnderWay ==
    [kind : {"refresh", "follow", "change", "import"}, user : Users, id : Ids, url : Addresses,
     first : BOOLEAN, step : {"ask", "answered", "checked", "twin", "failed"}, got : Addresses,
     orphan : BOOLEAN]

ASSUME Distinct == NoFeed \notin Feeds /\ NoJob \notin JobsUnderWay

VARIABLES feed, job, web, events

vars == <<feed, job, web, events>>

Followed == {i \in Ids : feed[i] # NoFeed}
FeedsOf(u) == {i \in Followed : feed[i].owner = u}
Busy == {j \in Workers : job[j] # NoJob}

\* INTEGER PRIMARY KEY without AUTOINCREMENT: one more than the largest id in use
NextId == 1 + Max(Followed \cup {0})

Event == events < MaxEvents /\ events' = events + 1

-----------------------------------------------------------------------------
(* The beginnings                                                          *)

Begin(j, kind, u, i, a, first, step) ==
    /\ job[j] = NoJob
    /\ job' = [job EXCEPT ![j] = [kind |-> kind, user |-> u, id |-> i, url |-> a, first |-> first,
                                  step |-> step, got |-> a, orphan |-> FALSE]]
    /\ UNCHANGED <<feed, web>>

\* A round of refreshes reads the feed's state; its turn comes later
BeginRefresh(j, i) ==
    /\ i \in Followed
    /\ Begin(j, "refresh", feed[i].owner, i, feed[i].url, ~feed[i].fetched, "ask")
    /\ UNCHANGED events

\* Bound: an id is left for each feed that may be created
Creating == {k \in Busy : job[k].kind \in {"follow", "import"}}
IdLeft == Max(Followed \cup {0}) + Cardinality(Creating) < MaxId

\* POST /api/feeds, for an address of the same feed or a page that links to it
BeginFollow(j, u, a) == Event /\ IdLeft /\ Begin(j, "follow", u, 1, a, TRUE, "ask")

\* An OPML file's outline: nothing is fetched
BeginImport(j, u, a) == Event /\ IdLeft /\ Begin(j, "import", u, 1, a, TRUE, "answered")

\* PATCH /api/feeds/{id} with `url`
BeginChange(j, u, i, a) == Event /\ Begin(j, "change", u, i, a, TRUE, "ask")

-----------------------------------------------------------------------------
(* The fetch                                                               *)

\* A site's lock is held from the fetch to the end of its storing
HasLock(j) ==
    job[j].kind = "refresh" =>
        \A k \in Busy \ {j} : job[k].kind = "refresh" /\ job[k].url.host = job[j].url.host
                              => job[k].step = "ask"

Answer(j) ==
    /\ job[j] # NoJob /\ job[j].step = "ask" /\ HasLock(j)
    /\ job' = [job EXCEPT ![j].step = "answered", ![j].got = web[job[j].url]]
    /\ UNCHANGED <<feed, web, events>>

\* A request that fetched in vain ends; a refresh has an error to record
Fail(j) ==
    /\ Event
    /\ job[j] # NoJob /\ job[j].step = "ask" /\ HasLock(j)
    /\ job' = [job EXCEPT ![j] = IF @.kind = "refresh" THEN [@ EXCEPT !.step = "failed"] ELSE NoJob]
    /\ UNCHANGED <<feed, web>>

-----------------------------------------------------------------------------
(* What is read before anything is written, without a lock                 *)

\* is_followed, with `other_than`
IsFollowed(u, a, others) == \E i \in FeedsOf(u) \ others : feed[i].url \in {a, Secure(a), Plain(a)}

\* Slip: the feed under http:// counts as well
TwinsBothWays(j) == {i \in FeedsOf(feed[job[j].id].owner) \ {job[j].id} :
                        feed[i].url \in {job[j].got, Secure(job[j].url), Plain(job[j].url)} \ {job[j].url}}

\* followed_as_another, as store_result asks it
Twins(j) == {i \in FeedsOf(feed[job[j].id].owner) \ {job[j].id} :
                feed[i].url \in {job[j].got, Secure(job[j].url)} \ {job[j].url}}

Refused(j) ==
    CASE job[j].kind = "refresh" -> job[j].id \notin Followed
      [] job[j].kind = "change"  -> \/ job[j].id \notin FeedsOf(job[j].user)
                                    \/ IsFollowed(job[j].user, job[j].got, {job[j].id})
      [] OTHER                   -> IsFollowed(job[j].user, job[j].got, {})

Check(j) ==
    /\ job[j] # NoJob /\ job[j].step = "answered"
    /\ job' = [job EXCEPT ![j] =
           IF Refused(j) THEN NoJob
           ELSE [@ EXCEPT !.step = IF job[j].kind = "refresh" /\ Twins(j) # {} THEN "twin" ELSE "checked"]]
    /\ UNCHANGED <<feed, web, events>>

-----------------------------------------------------------------------------
(* The writes, as one transaction                                          *)

End(j) == job' = [job EXCEPT ![j] = NoJob] /\ UNCHANGED <<web, events>>
Ready(j, kinds, step) == job[j] # NoJob /\ job[j].kind \in kinds /\ job[j].step = step

\* UNIQUE (user_id, url): the write raises and is rolled back
Taken(u, a, others) == \E i \in FeedsOf(u) \ others : feed[i].url = a

\* Slip: an address edited meanwhile is overwritten
UpgradedAnyway(j, f) ==
    IF job[j].got = Secure(job[j].url) /\ ~Taken(f.owner, job[j].got, {}) THEN job[j].got ELSE f.url

\* upgrade_to_https
Upgraded(j, f) ==
    IF /\ job[j].got = Secure(job[j].url)
       /\ f.url = job[j].url
       /\ ~Taken(f.owner, job[j].got, {})
    THEN job[j].got ELSE f.url

\* Slip: a changed address is fetched for the first time, too
FirstFetchOfAFeed(j) == job[j].first /\ job[j].kind # "change"

\* save_entries' first_fetch
FirstFetch(j) == job[j].first

\* save_entries, and _auto_stash of what is new; `flooded` is when that is all the feed lists
Filled(j, f) == [f EXCEPT !.fetched = TRUE, !.seen = TRUE, !.stopped = FALSE,
                          !.flooded = @ \/ (f.auto /\ ~FirstFetch(j) /\ ~f.seen)]

\* store_result.  A feed that is gone by now takes nothing (its articles have no feed to refer to).
StoreRefresh(j) ==
    /\ Ready(j, {"refresh"}, "checked")
    /\ feed' = [feed EXCEPT ![job[j].id] =
                   IF @ = NoFeed THEN NoFeed ELSE [Filled(j, @) EXCEPT !.url = Upgraded(j, feed[job[j].id])]]
    /\ End(j)

\* record_checked with the twin's name, or record_error
RecordTrouble(j) ==
    /\ Ready(j, {"refresh"}, "twin") \/ Ready(j, {"refresh"}, "failed")
    /\ feed' = [feed EXCEPT ![job[j].id] =
                   IF @ = NoFeed THEN NoFeed
                   ELSE [@ EXCEPT !.fetched = TRUE, !.stopped = (job[j].step = "twin")]]
    /\ End(j)

NewFeed(j, fetched) ==
    [owner |-> job[j].user, url |-> job[j].got, given |-> job[j].got, fetched |-> fetched, seen |-> fetched,
     auto |-> FALSE, stopped |-> FALSE, flooded |-> FALSE]

\* _save_followed, and import_opml's create
Create(j) ==
    /\ Ready(j, {"follow", "import"}, "checked")
    /\ feed' = IF Taken(job[j].user, job[j].got, {}) THEN feed
               ELSE [feed EXCEPT ![NextId] = NewFeed(j, job[j].kind = "follow")]
    /\ End(j)

\* change_source
ChangeSource(j) ==
    /\ Ready(j, {"change"}, "checked")
    /\ feed' = IF job[j].id \notin FeedsOf(job[j].user) \/ Taken(job[j].user, job[j].got, {job[j].id}) THEN feed
               ELSE [feed EXCEPT ![job[j].id] = [Filled(j, @) EXCEPT !.url = job[j].got, !.given = job[j].got]]
    /\ End(j)

-----------------------------------------------------------------------------
(* Requests that write at once                                             *)

\* DELETE /api/feeds/{id}
Unfollow(u, i) ==
    /\ Event
    /\ i \in FeedsOf(u)
    /\ feed' = [feed EXCEPT ![i] = NoFeed]
    /\ job' = [j \in Workers |-> IF job[j] # NoJob /\ job[j].kind \in {"refresh", "change"} /\ job[j].id = i
                                 THEN [job[j] EXCEPT !.orphan = TRUE] ELSE job[j]]
    /\ UNCHANGED web

\* PATCH /api/feeds/{id} with `auto_stash`
SetAutoStash(u, i) ==
    /\ Event
    /\ i \in FeedsOf(u)
    /\ feed' = [feed EXCEPT ![i].auto = ~@]
    /\ UNCHANGED <<job, web>>

\* Sites move (external)
Move ==
    /\ Event
    /\ \E w \in Webs : w # web /\ web' = w
    /\ UNCHANGED <<feed, job>>

-----------------------------------------------------------------------------
Legacy(u, a) == [owner |-> u, url |-> a, given |-> a, fetched |-> TRUE, seen |-> TRUE, auto |-> FALSE,
                 stopped |-> FALSE, flooded |-> FALSE]

\* Nothing is followed, or one feed is as both http and https ("possible before 0.9.0"),
\* which counts as an event
Init ==
    /\ \/ feed = [i \in Ids |-> NoFeed] /\ events = 0
       \/ /\ \E u \in Users, a \in Addresses :
                feed = [i \in Ids |-> IF i = 1 THEN Legacy(u, Plain(a))
                                      ELSE IF i = 2 THEN Legacy(u, Secure(a)) ELSE NoFeed]
          /\ events = 1
    /\ job = [j \in Workers |-> NoJob]
    /\ web \in Webs

Request(j) == \E u \in Users, a \in Addresses :
    BeginFollow(j, u, a) \/ BeginImport(j, u, a) \/ \E i \in Ids : BeginChange(j, u, i, a)

GoOn(j) == Answer(j) \/ Check(j) \/ StoreRefresh(j) \/ RecordTrouble(j) \/ Create(j) \/ ChangeSource(j)

Next ==
    \/ \E j \in Workers : \/ \E i \in Ids : BeginRefresh(j, i)
                          \/ Request(j) \/ GoOn(j) \/ Fail(j)
    \/ \E u \in Users, i \in Ids : Unfollow(u, i) \/ SetAutoStash(u, i)
    \/ Move

\* What is under way goes on, and every feed is refreshed again and again (FeedRefresh: EveryFeedIsFetched)
Fairness ==
    /\ \A j \in Workers : WF_vars(GoOn(j))
    /\ \A i \in Ids : SF_vars(\E j \in Workers : BeginRefresh(j, i))

Spec == Init /\ [][Next]_vars /\ Fairness

-----------------------------------------------------------------------------
\* The table's own constraint is part of its type
TypeOK ==
    /\ feed \in [Ids -> Feeds \cup {NoFeed}]
    /\ \A i, k \in Followed : feed[i].owner = feed[k].owner /\ feed[i].url = feed[k].url => i = k
    /\ job \in [Workers -> JobsUnderWay \cup {NoJob}]
    /\ web \in Webs
    /\ events \in 0..MaxEvents

\* A feed has the address its owner last gave it, or the https:// one of it: no
\* fetch of an address it had before, or of a feed that had its id before,
\* puts an old address back (upgrade_to_https).
AddressIsItsOwn == \A i \in Followed : feed[i].url \in {feed[i].given, Secure(feed[i].given)}

Stashing(i) == i \in Followed /\ feed'[i] # NoFeed /\ ~feed[i].flooded /\ feed'[i].flooded
Orphaned(i) == \E j \in Busy : job[j].orphan /\ job[j].id = i

\* All that a feed lists never goes to the stash on the first fetch of it that
\* ends, whatever other fetches, changes of address and settings cross it (but
\* for what was fetched for another feed that had the id).
FirstFetchIsNotStashed == [][\A i \in Ids : Stashing(i) => feed[i].fetched \/ Orphaned(i)]_vars

SameStories(i, k) == feed[i].owner = feed[k].owner /\ web[feed[i].url].host = web[feed[k].url].host

\* The site now sends https:// back to http://
LeadsBack(a) == ~web[Secure(web[a])].secure

\* Its stories still come: a feed is stopped only while its owner has a copy of
\* it that isn't, so no two copies stop in favour of each other.  Two do where a
\* site sends https:// back to http://, which the fetcher follows (fetcher.py:72):
\* the http:// copy takes the https:// one for its twin and the other way round.
SomeCopyUpdates ==
    <>[](\A i \in Followed : \/ LeadsBack(feed[i].url)
                            \/ \E k \in Followed : SameStories(i, k) /\ ~feed[k].stopped)

-----------------------------------------------------------------------------
(* What the code's own documentation says and its steps do not keep        *)

\* ingest.py:63, "the other new articles also go to the stash, except on a first
\* fetch (a whole backlog arriving at once)"
BacklogStaysOut == \A i \in Followed : feed[i].flooded => Orphaned(i)

\* ingest.py:104, "storing here would bring every story twice, so this older copy
\* stops": a feed that stops has a copy under another address that goes on
OneCopyStops ==
    <>[](\A i \in Followed : \E k \in Followed : SameStories(i, k) /\ ~feed[k].stopped)
=============================================================================
