---------------------------- MODULE FeedRefresh ----------------------------
(***************************************************************************)
(* Rounds of feed refreshes (app/feeds/ingest.py, refresh) that run at the *)
(* same time on the server's one event loop: the scheduler's every minute, *)
(* and those of people who press Refresh or import an OPML file.  A round  *)
(* has one task per site; sites have a lock each, and rests after they     *)
(* answered "too many requests".                                           *)
(*                                                                         *)
(* What a fetch brings is left to another module: here it only ends, one   *)
(* way or another.  One tick of the clock is long (a part of a rest): the  *)
(* two seconds between fetches from one site may end before or after it.   *)
(***************************************************************************)
EXTENDS Integers, FiniteSets, FiniteSetsExt, Sequences

CONSTANTS Feeds,        \* feed ids; rounds take a site's feeds in their order
          Sites,
          SiteOf,       \* the site of each feed's address (_site)
          Rounds,       \* calls of refresh that may be under way at once
          Concurrency,  \* REFRESH_CONCURRENCY: fetches of one round at a time
          Rests,        \* what rest_site may come to: a minute to six hours, in ticks
          MaxTroubles,  \* bound: "too many requests" answers, and results and errors
                        \* that could not be stored
          Presses,      \* which feeds people refresh at once (a feed, a folder, all)
          NoRound

ASSUME Parameters ==
    /\ Feeds \subseteq Nat /\ IsFiniteSet(Feeds)
    /\ Rounds \subseteq Nat
    /\ SiteOf \in [Feeds -> Sites]
    /\ Presses \subseteq SUBSET Feeds
    /\ Concurrency \in Nat \ {0}
    /\ Rests \subseteq Nat \ {0}
    /\ MaxTroubles \in Nat
    /\ NoRound \notin {"scheduler", "press"}

Steps == {"none",     \* the round has no feeds there, or is done with them
          "lock",     \* waiting for the site's lock
          "first",    \* has it, about to look at the first feed
          "next",     \* about to look at another
          "sleep",    \* SAME_SITE_GAP_SECONDS
          "slot",     \* waiting for the semaphore
          "fetch",    \* the request is under way
          "store",    \* it ended; its result is being stored
          "record"}   \* it failed; its error is being stored

VARIABLES
    caller,   \* of each round: "scheduler", "press" or NoRound
    todo,     \* feeds the round has not come to
    task,     \* the step of each of its tasks
    queue,    \* _site_locks: the rounds in a site's lock, the holder first
    rest,     \* _resting: ticks until a site may be asked again
    followed, \* history: sites whose rest somebody's following began or prolonged
      \* sites fetched from less than SAME_SITE_GAP_SECONDS ago
    closed,   \* rounds that raised: their client is closed, nobody waits for them
    due,      \* feeds whose last_fetched_at is old enough
    troubles

vars == <<caller, todo, task, queue, rest, followed, closed, due, troubles>>

At(r, s) == {f \in todo[r] : SiteOf[f] = s}
\* Those who wait for a lock, each once
Queues == {q \in Seq(Rounds) : \A i, j \in DOMAIN q : q[i] = q[j] => i = j}

Active(r) == caller[r] # NoRound
Fetching(r) == {s \in Sites : task[r][s] \in {"fetch", "store", "record"}}
Goto(r, s, step) == task' = [task EXCEPT ![r][s] = step]

-----------------------------------------------------------------------------
(* The beginning of a round                                                *)

\* Each of its sites gets a task, which queues for the site's lock
Begin(r, who, feeds) ==
    /\ ~Active(r)
    /\ \A q \in Rounds : q < r => Active(q)
    /\ feeds # {}
    /\ caller' = [caller EXCEPT ![r] = who]
    /\ todo' = [todo EXCEPT ![r] = feeds]
    /\ LET sites == {SiteOf[f] : f \in feeds} IN
       /\ task' = [task EXCEPT ![r] = [s \in Sites |-> IF s \in sites THEN "lock" ELSE "none"]]
       /\ queue' = [s \in Sites |-> IF s \in sites THEN Append(queue[s], r) ELSE queue[s]]
    /\ UNCHANGED <<rest, followed, closed, due, troubles>>

\* RefreshScheduler.run_once: the due feeds, once its last round is over
Scheduled(r) ==
    /\ \A q \in Rounds : caller[q] = "scheduler" => q \in closed
    /\ Begin(r, "scheduler", due)

\* POST /api/refresh and /api/opml: the feeds of a folder, of a feed, all, or those just imported
Pressed(r) == \E feeds \in Presses : Begin(r, "press", feeds)

-----------------------------------------------------------------------------
(* refresh_site and refresh_one                                            *)

\* Slip: a lock for each call of refresh
HasOwnLock(r, s) == TRUE

HasLock(r, s) == Head(queue[s]) = r

Enter(r, s) ==
    /\ task[r][s] = "lock"
    /\ HasLock(r, s)
    /\ Goto(r, s, "first")
    /\ UNCHANGED <<caller, todo, queue, rest, followed, closed, due, troubles>>

\* async with semaphore: a free slot is taken without a chance for others to run
HasSlot(r) == Cardinality(Fetching(r)) < Concurrency

\* Slip: looks at the rest once, before the first feed
MayAskFirst(r, s) == task[r][s] = "first" => rest[s] = 0

MayAsk(r, s) == rest[s] = 0

\* The loop over the site's feeds
Look(r, s) ==
    /\ task[r][s] \in {"first", "next"}
    /\ At(r, s) # {} /\ MayAsk(r, s)
    /\ \/ task[r][s] = "first" /\ HasSlot(r) /\ Goto(r, s, "fetch")
       \/ task[r][s] = "first" /\ ~HasSlot(r) /\ Goto(r, s, "slot")
       \/ task[r][s] = "next" /\ Goto(r, s, "sleep")
    /\ UNCHANGED <<caller, todo, queue, rest, followed, closed, due, troubles>>

\* The gap between fetches from one site is over
WakeUp(r, s) ==
    /\ task[r][s] = "sleep"
    /\ Goto(r, s, IF HasSlot(r) THEN "fetch" ELSE "slot")
    /\ UNCHANGED <<caller, todo, queue, rest, followed, closed, due, troubles>>

TakeSlot(r, s) ==
    /\ task[r][s] = "slot"
    /\ HasSlot(r)
    /\ Goto(r, s, "fetch")
    /\ UNCHANGED <<caller, todo, queue, rest, followed, closed, due, troubles>>

\* rest_site: a shorter answer never cuts a longer rest short
Rested(s, n) == [rest EXCEPT ![s] = Max({@, n})]

\* The site answered, or the deadline passed.  A closed client makes fetches
\* fail, as they may anyway.
Fetched(r, s) ==
    /\ task[r][s] = "fetch"
    /\ \/ Goto(r, s, "store") /\ UNCHANGED <<rest, troubles>>
       \/ Goto(r, s, "record") /\ UNCHANGED <<rest, troubles>>
       \/ /\ troubles < MaxTroubles
          /\ troubles' = troubles + 1
          /\ \E n \in Rests : rest' = Rested(s, n)
          /\ Goto(r, s, "record")
    /\ UNCHANGED <<caller, todo, queue, followed, closed, due>>

Current(r, s) == Min(At(r, s))

\* Slip: a fetch that failed doesn't count as one
DueUnlessStored(r, s) == IF task[r][s] = "store" THEN due \ {Current(r, s)} ELSE due

\* record_success, record_checked: either way last_fetched_at is now
DueAfter(r, s) == due \ {Current(r, s)}

\* store_result, record_error
Stored(r, s) ==
    /\ task[r][s] \in {"store", "record"}
    /\ due' = DueAfter(r, s)
    /\ todo' = [todo EXCEPT ![r] = @ \ {Current(r, s)}]
    /\ Goto(r, s, "next")
    /\ UNCHANGED <<caller, queue, rest, followed, closed, troubles>>

\* store_result raises ("database is locked"): that is an error to record
StoreFails(r, s) ==
    /\ task[r][s] = "store"
    /\ troubles < MaxTroubles
    /\ troubles' = troubles + 1
    /\ Goto(r, s, "record")
    /\ UNCHANGED <<caller, todo, queue, rest, followed, closed, due>>

\* Slip: a task that ends early keeps the lock
KeepLock(r, s) == UNCHANGED queue /\ Goto(r, s, "none")

\* The task leaves the site, and the next round has its lock
Leave(r, s) ==
    /\ queue' = [queue EXCEPT ![s] = Tail(@)]
    /\ Goto(r, s, "none")

\* record_error raises too: the task ends, gather raises, the client is
\* closed, and the round's other tasks go on without anyone waiting for them
RecordFails(r, s) ==
    /\ task[r][s] = "record"
    /\ troubles < MaxTroubles
    /\ troubles' = troubles + 1
    /\ Leave(r, s)
    /\ todo' = [todo EXCEPT ![r] = @ \ At(r, s)]
    /\ closed' = closed \cup {r}
    /\ UNCHANGED <<caller, rest, followed, due>>

\* No feeds are left, or the site rests
Break(r, s) ==
    /\ task[r][s] \in {"first", "next"}
    /\ At(r, s) = {} \/ rest[s] > 0
    /\ Leave(r, s)
    /\ todo' = [todo EXCEPT ![r] = @ \ At(r, s)]
    /\ UNCHANGED <<caller, rest, followed, closed, due, troubles>>

\* gather returns
End(r) ==
    /\ Active(r)
    /\ \A s \in Sites : task[r][s] = "none"
    /\ caller' = [caller EXCEPT ![r] = NoRound]
    /\ closed' = closed \ {r}
    /\ UNCHANGED <<todo, task, queue, rest, followed, due, troubles>>

-----------------------------------------------------------------------------
(* What goes on around the rounds                                          *)

\* subscriptions.follow tries an address on the site and is told "too many requests"
FollowLimited(s) ==
    /\ troubles < MaxTroubles
    /\ troubles' = troubles + 1
    /\ \E n \in Rests : rest' = Rested(s, n)
    /\ followed' = followed \cup {s}
    /\ UNCHANGED <<caller, todo, task, queue, closed, due>>

Tick ==
    /\ \E s \in Sites : rest[s] > 0
    /\ rest' = [s \in Sites |-> IF rest[s] > 0 THEN rest[s] - 1 ELSE 0]
    /\ followed' = {s \in followed : rest'[s] > 0}
    /\ UNCHANGED <<caller, todo, task, queue, closed, due, troubles>>

\* REFRESH_INTERVAL_MINUTES went by since a feed was fetched
FallDue(f) ==
    /\ f \notin due
    /\ due' = due \cup {f}
    /\ UNCHANGED <<caller, todo, task, queue, rest, followed, closed, troubles>>

-----------------------------------------------------------------------------
\* The server has just started: rests are kept in memory alone
Init ==
    /\ caller = [r \in Rounds |-> NoRound]
    /\ todo = [r \in Rounds |-> {}]
    /\ task = [r \in Rounds |-> [s \in Sites |-> "none"]]
    /\ queue = [s \in Sites |-> <<>>]
    /\ rest = [s \in Sites |-> 0]
    /\ followed = {} /\ closed = {}
    /\ due \in SUBSET Feeds
    /\ troubles = 0

Work(r, s) ==
    \/ Enter(r, s) \/ Look(r, s) \/ WakeUp(r, s) \/ TakeSlot(r, s)
    \/ Fetched(r, s) \/ Stored(r, s) \/ Break(r, s)

Next ==
    \/ \E r \in Rounds : Scheduled(r) \/ Pressed(r) \/ End(r)
    \/ \E r \in Rounds, s \in Sites : Work(r, s) \/ StoreFails(r, s) \/ RecordFails(r, s)
    \/ \E s \in Sites : FollowLimited(s)
    \/ Tick
    \/ \E f \in Feeds : FallDue(f)

\* The event loop runs every task that can go on; fetches have a deadline, the
\* scheduler loops for ever, time passes.  Nobody has to press Refresh.
Fairness ==
    /\ \A r \in Rounds, s \in Sites : WF_vars(Work(r, s))
    /\ \A r \in Rounds : WF_vars(End(r))
    /\ SF_vars(\E r \in Rounds : Scheduled(r))
    /\ WF_vars(Tick)

Spec == Init /\ [][Next]_vars /\ Fairness

-----------------------------------------------------------------------------
TypeOK ==
    /\ caller \in [Rounds -> {"scheduler", "press", NoRound}]
    /\ todo \in [Rounds -> SUBSET Feeds]
    /\ task \in [Rounds -> [Sites -> Steps]]
    /\ queue \in [Sites -> Queues]
    /\ rest \in [Sites -> Nat]
    /\ followed \subseteq Sites /\ closed \subseteq Rounds
    /\ due \subseteq Feeds
    /\ troubles \in 0..MaxTroubles

\* "One refresh at a time talks to a site" (ingest.py:34): whatever rounds are
\* under way, and however one of them ended, no two fetch from one site at once.
OneRoundPerSite ==
    \A s \in Sites, r, q \in Rounds : s \in Fetching(r) \cap Fetching(q) => r = q

Starts(r, s) == task[r][s] # "fetch" /\ task'[r][s] = "fetch"

\* No refresh asks a site for a feed while the site rests: also not when the rest
\* began while the refresh waited for the lock, the gap or a slot.  Only a person
\* who follows a feed there takes no lock, so the rest that brings may be met by
\* a fetch that was already on its way.
RestIsKept ==
    [][\A r \in Rounds, s \in Sites : Starts(r, s) => rest[s] = 0 \/ s \in followed]_vars

\* A round ends (and a press of Refresh gets its answer), whatever the others do.
EveryRoundEnds == \A r \in Rounds : Active(r) ~> ~Active(r)

\* Once sites no longer turn fetches away, every feed that falls due is fetched:
\* rests, rounds that raised and other people's rounds only put it off.
EveryFeedIsFetched == \A f \in Feeds : f \in due ~> f \notin due

=============================================================================
