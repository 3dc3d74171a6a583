---------------------------- MODULE ArticleList ----------------------------
(***************************************************************************)
(* The lists of unread articles that a reader pages through and that an    *)
(* app keeps a copy of, while articles arrive, are read, and go            *)
(* (app/db/repositories/articles.py, app/web/api/articles.py, and          *)
(* loadMore, resetList, markScope and pollForNew in app/static/js), or by  *)
(* apps that speak the Google Reader API (app/web/api/greader.py).         *)
(*                                                                         *)
(* A list is loaded by cursor and pinned to the largest id there was when  *)
(* its first page was loaded.  The page and that id are two SELECTs, each  *)
(* of which sees what is committed by then.  Times are whole seconds.      *)
(***************************************************************************)
EXTENDS Integers, FiniteSets, FiniteSetsExt

CONSTANTS Entries,      \* what is ever published
          Published,    \* published_at of each
          MaxId,        \* article ids are 1..MaxId
          PageSize,     \* PAGE_SIZE
          IdsLimit,     \* MAX_IDS, or the `limit` an app asks for
          NewestFirst,  \* the order of lists: prefs.order
          MaxSeconds,   \* bound: the clock
          MaxMarks,     \* bound: read and unread marks, by hand or for the whole list
          MaxDeletes,   \* bound: articles cleaned up or unfollowed
          NoArticle, NoRow

ASSUME ListParameters ==
    /\ IsFiniteSet(Entries) /\ Published \in [Entries -> Nat]
    /\ MaxId \in Nat /\ PageSize \in Nat \ {0} /\ IdsLimit \in Nat \ {0} /\ MaxSeconds \in Nat \ {0}
    /\ NewestFirst \in BOOLEAN
    /\ MaxMarks \in Nat /\ MaxDeletes \in Nat

Ids == 1..MaxId
Rows == [id : Ids, entry : Entries]

ASSUME ListDistinct == NoArticle \notin Entries /\ NoRow \notin Rows

VARIABLES
    article,   \* the articles table: the entry that has each id, or NoArticle
    arrived,   \* the entries that were ever stored
    readAt,    \* read_at of each entry, 0 while it is unread
    clock,
    listed,    \* state.list.articles, as rows
    cursor,    \* state.list.cursor, or a continuation, as the row it was made from
    maxId,     \* state.list.maxId: MaxId + 1 before there is one
    done,      \* state.list.done
    asked,     \* the request for a page: "no"; "rows", "max", "contents" before each SELECT; "answer"
    answer,    \* what it has read
    pressed,   \* "mark all as read" on its way to the server: batch, max_id, ts
    app,       \* an app that syncs: its request, what it has read, its since_id and its articles
    excused,   \* history: entries the list can't know of, see NothingIsMissed
    untold,    \* history: the same for the app, see AppMissesNothing
    batchOf,   \* history: the batch that marked each entry read, 0 if none or if it was touched since
    reading,   \* what is read with: the page, an app, an app of the Google Reader API, nothing
    marks, deletes

list == <<listed, cursor, maxId, done, asked, answer>>
history == <<excused, untold, batchOf>>
listBounds == <<reading, marks, deletes>>
listVars == <<article, arrived, readAt, clock, listed, cursor, maxId, done, asked, answer, pressed, app,
          excused, untold, batchOf, reading, marks, deletes>>

Used == {i \in Ids : article[i] # NoArticle}
Present == {article[i] : i \in Used}
Table == {[id |-> i, entry |-> article[i]] : i \in Used}
Unread == {r \in Table : readAt[r.entry] = 0}
\* MAX(id), and the id a new article gets: one more
Top == Max(Used \cup {0})

NoMax == MaxId + 1
HasList == reading \in {"page", "reader"}
NoPage == [rows |-> {}, next |-> NoRow, maxId |-> NoMax]
\* No ts: later than everything
AnyDate == Max({Published[e] : e \in Entries} \cup {0}) + 1

-----------------------------------------------------------------------------
(* The server's side of a list                                             *)

\* ORDER BY published_at, id
Before(r, s) ==
    LET p == Published[r.entry]
        q == Published[s.entry]
    IN IF NewestFirst THEN p > q \/ (p = q /\ r.id > s.id) ELSE p < q \/ (p = q /\ r.id < s.id)

\* Slip: the cursor goes by date alone
BeyondDate(r) ==
    \/ cursor = NoRow
    \/ Published[r.entry] # Published[cursor.entry] /\ Before(cursor, r)

Beyond(r) == cursor = NoRow \/ Before(cursor, r)

\* What a page's SELECT matches
Matching == {r \in Unread : r.id <= maxId /\ Beyond(r)}

\* The first PageSize rows of a set
FirstOf(S) == {r \in S : Cardinality({s \in S : Before(s, r)}) < PageSize}

\* rows[-1]
LastRow(S) == CHOOSE r \in S : \A s \in S : r = s \/ Before(s, r)

\* The cursor to the next page
NextCursor(S) == IF Cardinality(S) > PageSize THEN LastRow(FirstOf(S)) ELSE NoRow

ReadRows ==
    /\ asked = "rows"
    /\ answer' = [rows |-> FirstOf(Matching), next |-> NextCursor(Matching), maxId |-> maxId]
    /\ asked' = IF reading = "reader" THEN "contents" ELSE IF maxId = NoMax THEN "max" ELSE "answer"
    /\ excused' = IF cursor = NoRow THEN {} ELSE excused
    /\ UNCHANGED <<article, arrived, readAt, clock, listed, cursor, maxId, done, pressed, app, untold, batchOf, listBounds>>

ReadMax ==
    /\ asked = "max"
    /\ answer' = [answer EXCEPT !.maxId = Top]
    /\ asked' = "answer"
    /\ UNCHANGED <<article, arrived, readAt, clock, listed, cursor, maxId, done, pressed, app, history, listBounds>>

\* The Reader API selects ids, and then what is behind them, "if article_id in articles"
ReadContents ==
    /\ asked = "contents"
    /\ answer' = [answer EXCEPT !.rows = {r \in Table : \E s \in @ : r.id = s.id}]
    /\ asked' = "answer"
    /\ UNCHANGED <<article, arrived, readAt, clock, listed, cursor, maxId, done, pressed, app, history, listBounds>>

-----------------------------------------------------------------------------
(* The page's side: loadMore, resetList                                    *)

Receive ==
    /\ asked = "answer"
    /\ listed' = listed \cup answer.rows
    /\ cursor' = IF answer.next # NoRow THEN answer.next ELSE cursor
    /\ maxId' = answer.maxId
    /\ done' = (answer.next = NoRow)
    /\ asked' = "no" /\ answer' = NoPage
    /\ UNCHANGED <<article, arrived, readAt, clock, pressed, app, history, listBounds>>

\* The reader scrolls, or tries again after a request that failed
LoadMore ==
    /\ asked = "no"
    /\ ~done
    /\ asked' = "rows"
    /\ UNCHANGED <<article, arrived, readAt, clock, listed, cursor, maxId, done, answer, pressed, app, history, listBounds>>

LoadFails ==
    /\ asked # "no"
    /\ asked' = "no" /\ answer' = NoPage
    /\ UNCHANGED <<article, arrived, readAt, clock, listed, cursor, maxId, done, pressed, app, history, listBounds>>

\* A list under way is dropped: its answer won't be looked at
NewList ==
    /\ listed' = {} /\ cursor' = NoRow /\ maxId' = NoMax /\ done' = FALSE
    /\ asked' = "rows" /\ answer' = NoPage

\* Another view, and back
ResetList == NewList /\ UNCHANGED <<article, arrived, readAt, clock, pressed, app, history, listBounds>>

\* count_new since the list's max_id, which the page asks for every minute
New == {r \in Unread : r.id > maxId}

\* pollForNew, when the reader hasn't begun to read
Poll ==
    /\ asked = "no" /\ maxId # NoMax
    /\ New # {}
    /\ ResetList

-----------------------------------------------------------------------------
(* Marks                                                                   *)

\* Slip: an article that is marked read again is stamped again
StampedAgain(e) == [readAt EXCEPT ![e] = clock]

Stamped(e) == IF readAt[e] = 0 THEN [readAt EXCEPT ![e] = clock] ELSE readAt

\* set_read, from the page or an app
Mark(e, read) ==
    /\ e \in Present
    /\ marks < MaxMarks /\ marks' = marks + 1
    /\ readAt' = IF read THEN Stamped(e) ELSE [readAt EXCEPT ![e] = 0]
    /\ excused' = IF read \/ ~HasList THEN excused ELSE excused \cup {e}
    /\ batchOf' = IF read THEN batchOf ELSE [batchOf EXCEPT ![e] = 0]
    /\ UNCHANGED <<article, arrived, clock, list, pressed, app, untold, reading, deletes>>

\* markScope, once the page's own marks are flushed: the batch is the second in which
\* the server has the request, and the list on the page pins it, unless it is for
\* another view
PressMarkAll ==
    /\ pressed = NoRow
    /\ marks < MaxMarks /\ marks' = marks + 1
    /\ \E pin \in {maxId, NoMax} : pressed' = [batch |-> clock, maxId |-> pin, ts |-> AnyDate]
    /\ UNCHANGED <<article, arrived, readAt, clock, list, app, history, reading, deletes>>

\* The date of the newest article an app has
Newest == Max({Published[r.entry] : r \in listed} \cup {0})

\* POST mark-all-as-read, "ts" being what the app has the newest of, or without it
ReaderMarksAll ==
    /\ pressed = NoRow /\ listed # {}
    /\ marks < MaxMarks /\ marks' = marks + 1
    /\ \E ts \in {Newest, AnyDate} : pressed' = [batch |-> clock, maxId |-> NoMax, ts |-> ts]
    /\ UNCHANGED <<article, arrived, readAt, clock, list, app, history, reading, deletes>>

LoseMarkAll ==
    /\ pressed # NoRow
    /\ pressed' = NoRow
    /\ UNCHANGED <<article, arrived, readAt, clock, list, app, history, listBounds>>

\* Slip: max_id is left out
MarkedAll(r) == TRUE

\* published_before is ts // 1_000_000 + 1
MarkedWithAll(r) == r.id <= pressed.maxId /\ Published[r.entry] < pressed.ts + 1

\* The page loads its list again when it has the answer, unless the answer is lost or
\* is for a view that has nothing of the list in it (viewOverlaps)
Reloaded == NewList \/ UNCHANGED list

\* mark_scope_read
MarkAll ==
    LET S == {r.entry : r \in {s \in Unread : MarkedWithAll(s)}} IN
    /\ pressed # NoRow
    /\ readAt' = [e \in Entries |-> IF e \in S THEN pressed.batch ELSE readAt[e]]
    /\ batchOf' = [e \in Entries |-> IF e \in S THEN pressed.batch ELSE batchOf[e]]
    /\ pressed' = NoRow
    /\ Reloaded
    /\ UNCHANGED <<article, arrived, clock, app, excused, untold, listBounds>>

\* undo_mark_scope_read, of any batch so far: the toast offers the last
Undo(batch) ==
    LET S == {e \in Present : readAt[e] = batch} IN
    /\ batch <= clock
    /\ readAt' = [e \in Entries |-> IF e \in S THEN 0 ELSE readAt[e]]
    /\ batchOf' = [e \in Entries |-> IF batchOf[e] = batch THEN 0 ELSE batchOf[e]]
    /\ Reloaded
    /\ excused' = excused \cup S
    /\ UNCHANGED <<article, arrived, clock, pressed, app, untold, listBounds>>

-----------------------------------------------------------------------------
(* Articles come and go                                                    *)

\* UNIQUE (feed_id, guid), and what was removed stays away (see Retention)
Fresh(e) == e \notin arrived

\* insert_new
Store(e) ==
    /\ Fresh(e)
    /\ Top + 1 \in Ids
    /\ article' = [article EXCEPT ![Top + 1] = e]
    /\ arrived' = arrived \cup {e}
    /\ excused' = IF HasList /\ (asked = "max" \/ Top + 1 <= (IF asked = "answer" THEN answer.maxId ELSE maxId))
                  THEN excused \cup {e} ELSE excused
    /\ untold' = IF app.asked = "max" \/ Top + 1 <= Max({app.top, app.since}) THEN untold \cup {e} ELSE untold
    /\ UNCHANGED <<readAt, clock, list, pressed, app, batchOf, listBounds>>

\* The cleanup, or an unfollow: the id may be given to another article
Delete(i) ==
    /\ i \in Used
    /\ deletes < MaxDeletes /\ deletes' = deletes + 1
    /\ article' = [article EXCEPT ![i] = NoArticle]
    /\ UNCHANGED <<arrived, readAt, clock, list, pressed, app, history, reading, marks>>

Tick ==
    /\ clock < MaxSeconds
    /\ clock' = clock + 1
    /\ UNCHANGED <<article, arrived, readAt, list, pressed, app, history, listBounds>>

-----------------------------------------------------------------------------
(* An app that keeps a copy: GET /api/articles/ids with state=all          *)

AppSteps == {"no", "ids", "max", "answer"}

AppAsks ==
    /\ app.asked = "no"
    /\ app' = [app EXCEPT !.asked = "ids"]
    /\ UNCHANGED <<article, arrived, readAt, clock, list, pressed, history, listBounds>>

\* Slip: since_id is the next id
SinceNext(r) == r.id > app.since + 1

Since(r) == r.id > app.since

\* ORDER BY published_at DESC, id DESC
NewerDated(r, s) ==
    \/ Published[r.entry] > Published[s.entry]
    \/ Published[r.entry] = Published[s.entry] /\ r.id > s.id

\* LIMIT: the newest by date, while max_id will be the largest id of all
WithinLimit(S) == {r \in S : Cardinality({s \in S : NewerDated(s, r)}) < IdsLimit}

AppReadsIds ==
    LET S == {r \in Table : Since(r)}
        got == WithinLimit(S)
    IN
    /\ app.asked = "ids"
    /\ app' = [app EXCEPT !.asked = "max", !.got = got]
    /\ untold' = untold \cup {r.entry : r \in S \ got}
    /\ UNCHANGED <<article, arrived, readAt, clock, list, pressed, excused, batchOf, listBounds>>

AppReadsMax ==
    /\ app.asked = "max"
    /\ app' = [app EXCEPT !.asked = "answer", !.top = Top]
    /\ UNCHANGED <<article, arrived, readAt, clock, list, pressed, history, listBounds>>

AppReceives ==
    /\ app.asked = "answer"
    /\ app' = [asked |-> "no", got |-> {}, top |-> 0, since |-> app.top, known |-> app.known \cup app.got]
    /\ UNCHANGED <<article, arrived, readAt, clock, list, pressed, history, listBounds>>

\* The answer is lost, and the app will ask again
AppLoses ==
    /\ app.asked # "no"
    /\ app' = [app EXCEPT !.asked = "no", !.got = {}, !.top = 0]
    /\ UNCHANGED <<article, arrived, readAt, clock, list, pressed, history, listBounds>>

-----------------------------------------------------------------------------
\* Some entries are stored already, in any order
ListInit ==
    /\ article \in {t \in [Ids -> Entries \cup {NoArticle}] :
                       \A i, j \in Ids : i # j /\ t[i] # NoArticle => t[i] # t[j]}
    /\ arrived = Present
    /\ readAt = [e \in Entries |-> 0]
    /\ listed = {} /\ cursor = NoRow /\ maxId = NoMax /\ done = FALSE
    /\ reading \in {"page", "app", "reader", "nothing"}
    /\ clock = (IF reading = "page" THEN 1 ELSE MaxSeconds)  \* which only the page's Undo tells apart
    /\ asked = (IF HasList THEN "rows" ELSE "no")
    /\ answer = NoPage
    /\ pressed = NoRow
    /\ app = [asked |-> "no", got |-> {}, top |-> 0, since |-> 0, known |-> {}]
    /\ excused = {} /\ untold = {}
    /\ batchOf = [e \in Entries |-> 0]
    /\ marks = 0 /\ deletes = 0

List == ReadRows \/ Receive \/ LoadMore \/ LoadFails \/ ResetList \/ LoseMarkAll \/ MarkAll
Page == List \/ ReadMax \/ Poll \/ PressMarkAll \/ \E batch \in 1..MaxSeconds : Undo(batch)
Reader == List \/ ReadContents \/ ReaderMarksAll

App == AppAsks \/ AppReadsIds \/ AppReadsMax \/ AppReceives \/ AppLoses

\* What one device reads changes nothing for another, so one at a time is enough;
\* Mark, Store and Delete are anybody's
ListNext ==
    \/ reading = "page" /\ Page
    \/ reading = "app" /\ App
    \/ reading = "reader" /\ Reader
    \/ \E e \in Entries : Store(e) \/ \E read \in BOOLEAN : Mark(e, read)
    \/ \E i \in Ids : Delete(i)
    \/ Tick

ListSpec == ListInit /\ [][ListNext]_listVars

-----------------------------------------------------------------------------
ListTypeOK ==
    /\ article \in [Ids -> Entries \cup {NoArticle}]
    /\ \A i, j \in Used : article[i] = article[j] => i = j
    /\ Present \subseteq arrived /\ arrived \subseteq Entries
    /\ readAt \in [Entries -> 0..MaxSeconds]
    /\ clock \in 1..MaxSeconds
    /\ listed \subseteq Rows /\ cursor \in Rows \cup {NoRow} /\ maxId \in 0..NoMax /\ done \in BOOLEAN
    /\ asked \in {"no", "rows", "max", "contents", "answer"}
    /\ answer \in [rows : SUBSET Rows, next : Rows \cup {NoRow}, maxId : 0..NoMax]
    /\ pressed \in [batch : 1..MaxSeconds, maxId : 0..NoMax, ts : 0..AnyDate] \cup {NoRow}
    /\ app \in [asked : AppSteps, got : SUBSET Rows, top : 0..MaxId, since : 0..MaxId, known : SUBSET Rows]
    /\ excused \subseteq Entries /\ untold \subseteq Entries
    /\ batchOf \in [Entries -> 0..MaxSeconds]
    /\ reading \in {"page", "app", "reader", "nothing"} /\ marks \in 0..MaxMarks /\ deletes \in 0..MaxDeletes

\* An unread article is in the list, or will be in one of its next pages, or is
\* announced as new: whatever arrives, is read or goes while the list is loaded
\* and looked at, also by an app of the Reader API, which is announced nothing.
\* Excused are those that were marked unread meanwhile, that were stored between the
\* two SELECTs of the first page (or, for such an app, since), or that got the id of
\* an article that is gone.
Begun == IF reading = "reader" THEN done \/ cursor # NoRow ELSE maxId # NoMax
NothingIsMissed ==
    Begun => \A r \in Unread :
        \/ r.entry \in excused
        \/ r \in listed \cup New
        \/ ~done /\ Before(cursor, r)

\* "Mark all as read" in a list loaded to its end marks nothing that the reader
\* wasn't shown ("mark all as read" doesn't "pick up articles fetched meanwhile",
\* articles.py:74), but for the same exceptions.
SparesNew ==
    [][MarkAll /\ done /\ pressed.maxId = maxId /\ reading = "page" =>
         \A e \in Entries : readAt[e] = 0 /\ readAt'[e] # 0 =>
             e \in excused \/ \E r \in listed : r.entry = e]_listVars

\* What "mark all as read" marked keeps its batch for as long as nobody marks it
\* unread, so that Undo finds it: also when a flush or an app marks it read again.
MarkAllCanBeUndone ==
    \A e \in Present : batchOf[e] # 0 => readAt[e] = batchOf[e]

\* An app has every article up to its since_id, however its requests interleave
\* with fetches and whichever answers are lost, but for articles stored between
\* the two SELECTs of an answer, reused ids, and what the LIMIT cut off from an
\* answer: the app goes on from the largest id of all, so it isn't told of them.
AppMissesNothing ==
    \A r \in Table : r.id <= app.since => r \in app.known \/ r.entry \in untold

-----------------------------------------------------------------------------
(* What the documentation says and the code does not keep                  *)

\* web/api/articles.py:86, "`since_id` limits it to what arrived after a previous
\* sync": what arrives during one is told by it or by the next.
AppIsToldAll == \A r \in Table : r.id <= app.since => r \in app.known

\* web/api/greader.py:379, "`ts` (microseconds) spares anything newer, so articles that
\* arrived after the client last looked aren't marked read unseen".
ReaderSparesUnseen ==
    [][MarkAll /\ done /\ pressed.ts # AnyDate /\ reading = "reader" =>
         \A e \in Entries : readAt[e] = 0 /\ readAt'[e] # 0 => \E r \in listed : r.entry = e]_listVars
=============================================================================
