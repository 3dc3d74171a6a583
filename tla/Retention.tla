---------------------------- MODULE Retention ----------------------------
(***************************************************************************)
(* What is stored of a followed feed, and for how long: save_entries and   *)
(* insert_new on one side, the hourly cleanup on the other                 *)
(* (app/feeds/ingest.py, app/feeds/scheduler.py,                           *)
(* app/db/repositories/articles.py), with a feed that goes on listing what *)
(* was removed and a reader who reads and stars.                           *)
(*                                                                         *)
(* Cleanup and storing work feed by feed, so one feed will do.  Times are  *)
(* kept as ages in days, so that the clock needs no bound: past the end of *)
(* its retention one age is like another.  Both read the clock before they *)
(* write, so a day may begin in between.                                   *)
(***************************************************************************)
EXTENDS Integers, FiniteSets, FiniteSetsExt

CONSTANTS Guids,         \* the guids of the feed's entries
          RetentionDays, \* RETENTION_DAYS
          KeepPerFeed,   \* KEEP_PER_FEED
          MaxReadDays,   \* the most an account can choose as read_retention_days
          Fetches,       \* fetches of the feed under way at once
          NoArticle, NoGuid, NoFetch, Unread, Absent

\* Bound: how many days may have begun since a clock was read
Late == {0, 1}

\* Ages of publication and of reading, each with a last one that stands for all older ones
Old == RetentionDays + 2
Ages == 0..Old
LongAgo == MaxReadDays + 2
ReadAges == 0..LongAgo

ASSUME Parameters ==
    /\ RetentionDays \in Nat \ {0} /\ KeepPerFeed \in Nat \ {0}
    /\ MaxReadDays \in Nat
    /\ IsFiniteSet(Guids)

Articles == [age : Ages, read : ReadAges \cup {Unread}, starred : BOOLEAN]

ASSUME Distinct ==
    /\ NoArticle \notin Articles /\ NoGuid \notin Ages /\ Absent \notin Ages
    /\ Unread \notin ReadAges /\ NoFetch \notin BOOLEAN

VARIABLES
    fetch,      \* fetches under way: whether they take entries of any age (keep_old)
    fetched,    \* last_fetched_at is not NULL
    article,    \* the articles table
    remembered, \* purged_articles: their publication
    keepRead,   \* users.read_retention_days
    gone        \* history: the publication of what a cleanup removed, until it is stored again

vars == <<fetch, fetched, article, remembered, keepRead, gone>>

Stored == {g \in Guids : article[g] # NoArticle}
Gone == {g \in Guids : gone[g] # NoGuid}

-----------------------------------------------------------------------------
(* Fetching and storing                                                    *)

\* A round reads the feed's state, and a change of address takes no old entries
Begin(j) ==
    /\ fetch[j] = NoFetch
    /\ \E keepOld \in {~fetched, FALSE} : fetch' = [fetch EXCEPT ![j] = keepOld]
    /\ UNCHANGED <<fetched, article, remembered, keepRead, gone>>

\* What a feed's document lists and how long ago each entry is dated (external).  An
\* edit may move a date (updated_parsed); without one an entry counts as of the clock.
Documents == [Guids -> Ages \cup {Absent}]

\* Entries within the retention window by the clock, or any
InWindow(age, keepOld, late) == keepOld \/ age - late <= RetentionDays

\* UNIQUE (feed_id, guid), and not one the cleanup removed
New(g) == article[g] = NoArticle /\ remembered[g] = NoGuid

Arrived(age, isRead, late) == [age |-> age, read |-> IF isRead THEN late ELSE Unread, starred |-> FALSE]

\* save_entries in the transaction of store_result or change_url, whose clock was
\* read before it began.  What is muted or goes to the stash arrives read.
Store(j) ==
    /\ fetch[j] # NoFetch
    /\ \E document \in Documents, late \in Late :
          LET new == {g \in Guids : /\ document[g] # Absent /\ New(g)
                                   /\ InWindow(document[g], fetch[j], late)} IN
          /\ \E read \in SUBSET new :
                article' = [g \in Guids |->
                    IF g \in new THEN Arrived(document[g], g \in read, late) ELSE article[g]]
          /\ gone' = [g \in Guids |-> IF g \in new THEN NoGuid ELSE gone[g]]
    /\ fetch' = [fetch EXCEPT ![j] = NoFetch]
    /\ fetched' = TRUE
    /\ UNCHANGED <<remembered, keepRead>>

\* record_checked: nothing changed, or the fetch failed; a change of address that failed writes nothing
Miss(j) ==
    /\ fetch[j] # NoFetch
    /\ fetch' = [fetch EXCEPT ![j] = NoFetch]
    /\ fetched' \in {fetched, TRUE}
    /\ UNCHANGED <<article, remembered, keepRead, gone>>

-----------------------------------------------------------------------------
(* The reader                                                              *)

\* Slip: without WHERE read_at IS NULL
MarkedAgain(g) == [article[g] EXCEPT !.read = 0]

\* set_read
MarkedRead(g) == IF article[g].read = Unread THEN [article[g] EXCEPT !.read = 0] ELSE article[g]

Mark(g) ==
    /\ g \in Stored
    /\ \E row \in {MarkedRead(g), [article[g] EXCEPT !.read = Unread], [article[g] EXCEPT !.starred = ~@]} :
          article' = [article EXCEPT ![g] = row]
    /\ UNCHANGED <<fetch, fetched, remembered, keepRead, gone>>

\* PATCH /api/account
Choose(d) ==
    /\ keepRead' = d
    /\ UNCHANGED <<fetch, fetched, article, remembered, gone>>

-----------------------------------------------------------------------------
(* The hourly cleanup, one transaction with the clock of before it         *)

\* ROW_NUMBER() OVER (ORDER BY published_at DESC, id DESC) <= keep_per_feed; of what is past
\* all retention, which are the newest is left open
AreNewest(S) ==
    /\ Cardinality(S) = Min({KeepPerFeed, Cardinality(Stored)})
    /\ \A g \in S, h \in Stored \ S : article[g].age <= article[h].age

\* purge
PastRetention(newest, late) ==
    {g \in Stored \ newest : ~article[g].starred /\ article[g].age - late > RetentionDays}

\* purge_read
ReadExpired(late) == {g \in Stored : /\ keepRead > 0 /\ ~article[g].starred
                                     /\ article[g].read # Unread /\ article[g].read - late > keepRead}

\* Slip: forgets the guids on their last day
ForgettableTooSoon(late) == {a \in Ages : a - late >= RetentionDays}

\* forget_purged
Forgettable(late) == {a \in Ages : a - late > RetentionDays}

\* What is remembered after purge_read and forget_purged
Remembered(g, read, late) ==
    LET a == IF g \in read THEN article[g].age ELSE remembered[g]
    IN IF a \in Forgettable(late) THEN NoGuid ELSE a

Purge ==
    /\ \E newest \in SUBSET Stored, late \in Late :
        /\ AreNewest(newest)
        /\ LET old == PastRetention(newest, late)
               read == ReadExpired(late) \ old
           IN /\ article' = [g \in Guids |-> IF g \in old \cup read THEN NoArticle ELSE article[g]]
              /\ remembered' = [g \in Guids |-> Remembered(g, read, late)]
              /\ gone' = [g \in Guids |-> IF g \in old \cup read THEN article[g].age ELSE gone[g]]
    /\ UNCHANGED <<fetch, fetched, keepRead>>

-----------------------------------------------------------------------------
Older(a) == IF a = Old THEN a ELSE a + 1
OlderRead(a) == IF a = LongAgo THEN a ELSE a + 1

OlderGuid(a) == IF a = NoGuid THEN NoGuid ELSE Older(a)

Day ==
    /\ article' = [g \in Guids |->
           IF article[g] = NoArticle THEN NoArticle
           ELSE [article[g] EXCEPT !.age = Older(@), !.read = IF @ = Unread THEN Unread ELSE OlderRead(@)]]
    /\ remembered' = [g \in Guids |-> OlderGuid(remembered[g])]
    /\ gone' = [g \in Guids |-> OlderGuid(gone[g])]
    /\ UNCHANGED <<fetch, fetched, keepRead>>

\* A feed that was followed or imported just now
Init ==
    /\ fetch = [j \in Fetches |-> NoFetch]
    /\ fetched = FALSE
    /\ article = [g \in Guids |-> NoArticle]
    /\ remembered = [g \in Guids |-> NoGuid]
    /\ keepRead \in 0..MaxReadDays
    /\ gone = [g \in Guids |-> NoGuid]

Next ==
    \/ \E g \in Guids : Mark(g)
    \/ \E j \in Fetches : Begin(j) \/ Store(j) \/ Miss(j)
    \/ \E d \in 0..MaxReadDays : Choose(d)
    \/ Purge
    \/ Day

\* Days pass, and the scheduler loops for ever
Fairness == WF_vars(Day) /\ WF_vars(Purge)

Spec == Init /\ [][Next]_vars /\ Fairness

-----------------------------------------------------------------------------
\* A guid is never both stored and remembered
TypeOK ==
    /\ fetch \in [Fetches -> BOOLEAN \cup {NoFetch}]
    /\ fetched \in BOOLEAN
    /\ article \in [Guids -> Articles \cup {NoArticle}]
    /\ remembered \in [Guids -> Ages \cup {NoGuid}]
    /\ \A g \in Stored : remembered[g] = NoGuid
    /\ keepRead \in 0..MaxReadDays
    /\ gone \in [Guids -> Ages \cup {NoGuid}]

ComesBack(g) == g \in Gone /\ article[g] = NoArticle /\ article'[g] # NoArticle
TakesAll == \E j \in Fetches : fetch[j] = TRUE /\ fetch'[j] = NoFetch

\* The feed now lists it as newer than what was removed: an edit moved its date, or it has none
ListedNewer(g) == article'[g].age < gone[g]

\* Its last day in the window has just passed: by the clock a store read before, it hasn't
JustPast(g) == gone[g] = RetentionDays + 1

\* What a cleanup removed doesn't come back while the feed goes on listing it,
\* whichever of the two cleanups it was, and however fetches, edits, days and
\* cleanups follow each other.  It does where the feed has since dated it newer
\* (forget_purged goes by the date it was stored with), on the day its retention
\* ends, and by a second fetch that was begun before the feed's first one ended,
\* which takes everything.
GoneStaysGone == [][\A g \in Guids : ComesBack(g) => TakesAll \/ ListedNewer(g) \/ JustPast(g)]_vars

Reading(g) == g \in Stored /\ article[g].read # Unread /\ ~article[g].starred /\ keepRead > 0

\* "Read articles can go sooner" (README.md:137): what was read, and isn't taken
\* back or starred, is removed in the end, however often it is marked.
ReadGoesAway == \A g \in Guids : Reading(g) ~> ~Reading(g)

-----------------------------------------------------------------------------
(* What the code's own documentation says and its steps do not keep        *)

\* articles.py:430, "old enough that refreshes skip them anyway": also entries that
\* are edited, or count as of now
AllGoneStaysGone == [][\A g \in Guids : ComesBack(g) => TakesAll]_vars
=============================================================================
