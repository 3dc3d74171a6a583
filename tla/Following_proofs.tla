-------------------------- MODULE Following_proofs --------------------------
(***************************************************************************)
(* Proofs about Following, for any number of users, feeds, hosts, requests *)
(* and fetches.                                                            *)
(*                                                                         *)
(* AddressIsItsOwn is inductive together with the types.  That a first     *)
(* fetch is not stashed needs what a fetch read at its start to be still   *)
(* true: unless its feed was unfollowed meanwhile, the feed is there, and  *)
(* if the fetch is not a first one it has been fetched (ReadsHold).        *)
(***************************************************************************)
EXTENDS Following, Largest, TLAPS

ReadsHold ==
    \A j \in Busy :
        /\ job[j].kind # "refresh" => job[j].first
        /\ job[j].kind = "refresh" /\ ~job[j].orphan =>
               job[j].id \in Followed /\ (job[j].first \/ feed[job[j].id].fetched)

\* UNIQUE (user_id, url)
OneRowPerAddress ==
    \A i, k \in Followed : feed[i].owner = feed[k].owner /\ feed[i].url = feed[k].url => i = k

IInv == TypeOK /\ AddressIsItsOwn /\ ReadsHold

\* The next id is larger than every one in use, so it is not in use itself.
LEMMA NextIdIsFree ==
    NextId \notin Followed
<1> DEFINE S == Followed \cup {0}
<1>1. S \in SUBSET (0..MaxId) /\ S # {} /\ MaxId \in Nat
  BY Parameters DEF Followed, Ids
<1>2. Max(S) \in S /\ \A y \in S : Max(S) >= y
  BY <1>1, MaxOfBounded
<1>3. PICK m \in S : m = Max(S) /\ \A y \in S : m >= y
  BY <1>2
<1>4. NextId = 1 + m
  BY <1>3 DEF NextId
<1>5. m \in Nat /\ \A y \in S : y \in Nat
  BY <1>1
<1> QED BY <1>3, <1>4, <1>5

\* The https:// address of an address is one, and has no other https:// address.
LEMMA SecureOf ==
    ASSUME NEW a \in Addresses
    PROVE  Secure(a) \in Addresses /\ Secure(Secure(a)) = Secure(a)
BY DEF Addresses, Secure

\* A stored fetch leaves a row with its owner, address and past as they were.
LEMMA FilledRow ==
    ASSUME NEW f \in Feeds, NEW j \in Workers, job[j] \in JobsUnderWay
    PROVE  /\ Filled(j, f) \in Feeds
           /\ Filled(j, f).owner = f.owner /\ Filled(j, f).url = f.url /\ Filled(j, f).given = f.given
           /\ Filled(j, f).fetched
BY DEF Filled, FirstFetch, Feeds, JobsUnderWay

\* What a step needs to show when it ends one request or fetch: the others still
\* know what they read, if no feed is gone and none lost that it was fetched.
LEMMA EndKeepsReads ==
    ASSUME IInv, NEW j \in Workers, End(j),
           \A i \in Followed : i \in Followed' /\ (feed[i].fetched => feed'[i].fetched)
    PROVE  ReadsHold'
<1>1. job' = [job EXCEPT ![j] = NoJob]
  BY DEF End
<1>2. \A k \in Busy' : k \in Busy /\ job'[k] = job[k]
  BY <1>1 DEF IInv, TypeOK, Busy
<1> QED BY <1>2 DEF IInv, ReadsHold

LEMMA EndKeepsTypes ==
    ASSUME IInv, NEW j \in Workers, End(j)
    PROVE  job' \in [Workers -> JobsUnderWay \cup {NoJob}] /\ web' \in Webs /\ events' \in 0..MaxEvents
BY DEF IInv, TypeOK, End

-----------------------------------------------------------------------------
LEMMA InitIInv == Init => IInv
<1> SUFFICES ASSUME Init PROVE IInv
  OBVIOUS
<1>1. job = [j \in Workers |-> NoJob] /\ web \in Webs /\ events \in {0, 1}
  BY DEF Init
<1>2. Busy = {}
  BY <1>1 DEF Busy
<1>3. CASE feed = [i \in Ids |-> NoFeed]
  <2>1. Followed = {}
    BY <1>3 DEF Followed
  <2> QED BY <1>1, <1>2, <1>3, <2>1, Parameters DEF IInv, TypeOK, AddressIsItsOwn, ReadsHold
<1>4. ASSUME NEW u \in Users, NEW a \in Addresses,
             feed = [i \in Ids |-> IF i = 1 THEN Legacy(u, Plain(a))
                                   ELSE IF i = 2 THEN Legacy(u, Secure(a)) ELSE NoFeed]
      PROVE  IInv
  <2>1. Plain(a) \in Addresses /\ Secure(a) \in Addresses /\ Plain(a) # Secure(a)
    BY DEF Plain, Secure, Addresses
  <2>2. \A b \in Addresses : /\ Legacy(u, b) \in Feeds /\ Legacy(u, b) # NoFeed
                             /\ Legacy(u, b).url = b /\ Legacy(u, b).given = b
    <3> TAKE b \in Addresses
    <3>1. Legacy(u, b) \in Feeds
      BY DEF Legacy, Feeds
    <3>2. Legacy(u, b).url = b /\ Legacy(u, b).given = b
      BY DEF Legacy
    <3> QED BY <3>1, <3>2, Distinct
  <2>3. \A i \in Followed : \/ i = 1 /\ feed[i] = Legacy(u, Plain(a))
                            \/ i = 2 /\ feed[i] = Legacy(u, Secure(a))
    BY <1>4 DEF Followed
  <2>4. feed \in [Ids -> Feeds \cup {NoFeed}]
    BY <1>4, <2>1, <2>2
  <2>5. OneRowPerAddress
    BY <2>1, <2>2, <2>3 DEF OneRowPerAddress
  <2>6. AddressIsItsOwn
    BY <2>1, <2>2, <2>3 DEF AddressIsItsOwn
  <2> QED BY <1>1, <1>2, <2>4, <2>5, <2>6, Parameters DEF IInv, TypeOK, ReadsHold, OneRowPerAddress
<1>5. CASE feed # [i \in Ids |-> NoFeed]
  <2>1. PICK u \in Users, a \in Addresses :
             feed = [i \in Ids |-> IF i = 1 THEN Legacy(u, Plain(a))
                                   ELSE IF i = 2 THEN Legacy(u, Secure(a)) ELSE NoFeed]
    BY <1>5 DEF Init
  <2> QED BY <2>1, <1>4
<1> QED BY <1>3, <1>5

-----------------------------------------------------------------------------
\* A step that leaves the feeds alone and adds or moves on one job.
LEMMA JobStep ==
    ASSUME IInv, NEW j \in Workers, NEW new \in JobsUnderWay \cup {NoJob},
           job' = [job EXCEPT ![j] = new], UNCHANGED <<feed, web>>, events' \in 0..MaxEvents,
           new # NoJob => /\ new.kind # "refresh" => new.first
                          /\ new.kind = "refresh" /\ ~new.orphan =>
                                 new.id \in Followed /\ (new.first \/ feed[new.id].fetched)
    PROVE  IInv'
<1>1. TypeOK'
  BY DEF IInv, TypeOK, Followed
<1>2. AddressIsItsOwn'
  BY DEF IInv, AddressIsItsOwn, Followed
<1>3. \A k \in Busy' :
         \/ k = j /\ new # NoJob /\ job'[k] = new
         \/ k \in Busy /\ job'[k] = job[k]
  BY DEF IInv, TypeOK, Busy
<1>4. ReadsHold'
  BY <1>3 DEF IInv, ReadsHold, Followed
<1> QED BY <1>1, <1>2, <1>4 DEF IInv

-----------------------------------------------------------------------------
(* The steps of requests and fetches                                       *)

LEMMA BeginStep ==
    ASSUME IInv, NEW j \in Workers,
           \/ \E i \in Ids : BeginRefresh(j, i)
           \/ Request(j)
    PROVE  IInv'
<1>1. ASSUME NEW i \in Ids, BeginRefresh(j, i)
      PROVE  IInv'
  <2> DEFINE new == [kind |-> "refresh", user |-> feed[i].owner, id |-> i, url |-> feed[i].url,
                     first |-> ~feed[i].fetched, step |-> "ask", got |-> feed[i].url, orphan |-> FALSE]
  <2>1. feed[i] \in Feeds /\ i \in Followed
    BY <1>1, Distinct DEF BeginRefresh, Followed, IInv, TypeOK
  <2>2. new \in JobsUnderWay
    BY <2>1 DEF Feeds, JobsUnderWay
  <2>3. job' = [job EXCEPT ![j] = new] /\ UNCHANGED <<feed, web, events>>
    BY <1>1 DEF BeginRefresh, Begin
  <2>4. /\ new.kind = "refresh" /\ new.id = i /\ (new.first \/ feed[i].fetched)
        /\ events \in 0..MaxEvents
    BY DEF IInv, TypeOK
  <2> HIDE DEF new
  <2> QED BY <2>1, <2>2, <2>3, <2>4, JobStep
<1>2. ASSUME NEW u \in Users, NEW a \in Addresses, NEW i \in Ids,
             NEW kind \in {"follow", "change", "import"}, NEW step \in {"ask", "answered"},
             Event, Begin(j, kind, u, i, a, TRUE, step)
      PROVE  IInv'
  <2> DEFINE new == [kind |-> kind, user |-> u, id |-> i, url |-> a, first |-> TRUE, step |-> step,
                     got |-> a, orphan |-> FALSE]
  <2>1. new \in JobsUnderWay
    BY DEF JobsUnderWay
  <2>2. job' = [job EXCEPT ![j] = new] /\ UNCHANGED <<feed, web>>
    BY <1>2 DEF Begin
  <2>3. new.kind # "refresh" /\ new.first
    OBVIOUS
  <2>4. events' \in 0..MaxEvents
    BY <1>2, Parameters DEF Event, IInv, TypeOK
  <2> HIDE DEF new
  <2> QED BY <2>1, <2>2, <2>3, <2>4, JobStep
<1>3. 1 \in Ids
  BY Parameters DEF Ids
<1>4. ASSUME Request(j)
      PROVE  IInv'
  <2>1. PICK u \in Users, a \in Addresses :
             BeginFollow(j, u, a) \/ BeginImport(j, u, a) \/ \E i \in Ids : BeginChange(j, u, i, a)
    BY <1>4 DEF Request
  <2>2. CASE BeginFollow(j, u, a)
    BY <2>2, <1>2, <1>3 DEF BeginFollow
  <2>3. CASE BeginImport(j, u, a)
    BY <2>3, <1>2, <1>3 DEF BeginImport
  <2>4. ASSUME NEW i \in Ids, BeginChange(j, u, i, a)
        PROVE  IInv'
    BY <2>4, <1>2 DEF BeginChange
  <2> QED BY <2>1, <2>2, <2>3, <2>4
<1> QED BY <1>1, <1>4

LEMMA FetchStep ==
    ASSUME IInv, NEW j \in Workers, Answer(j) \/ Fail(j) \/ Check(j)
    PROVE  IInv'
<1>1. j \in Busy /\ job[j] \in JobsUnderWay
  BY Distinct DEF Answer, Fail, Check, Busy, IInv, TypeOK
<1>2. UNCHANGED <<feed, web>> /\ events' \in 0..MaxEvents
  BY Parameters DEF Answer, Fail, Check, Event, IInv, TypeOK
<1>3. \E step \in {"answered", "failed", "twin", "checked"}, got \in Addresses :
         \/ job' = [job EXCEPT ![j] = [job[j] EXCEPT !.step = step, !.got = got]]
         \/ job' = [job EXCEPT ![j] = NoJob]
  <2>1. CASE Answer(j)
    <3>1. web[job[j].url] \in Addresses
      BY <1>1, Parameters DEF IInv, TypeOK, JobsUnderWay
    <3>2. job' = [job EXCEPT ![j] = [job[j] EXCEPT !.step = "answered", !.got = web[job[j].url]]]
      BY <2>1 DEF Answer, IInv, TypeOK
    <3> QED BY <3>1, <3>2
  <2>2. job[j].got \in Addresses /\ \A step : [job[j] EXCEPT !.step = step] = [job[j] EXCEPT !.step = step, !.got = job[j].got]
    BY <1>1 DEF JobsUnderWay
  <2>3. CASE Fail(j)
    BY <2>2, <2>3 DEF Fail, IInv, TypeOK
  <2>4. CASE Check(j)
    BY <2>2, <2>4 DEF Check, IInv, TypeOK
  <2> QED BY <2>1, <2>3, <2>4
<1>4. PICK step \in {"answered", "failed", "twin", "checked"}, got \in Addresses :
         \/ job' = [job EXCEPT ![j] = [job[j] EXCEPT !.step = step, !.got = got]]
         \/ job' = [job EXCEPT ![j] = NoJob]
  BY <1>3
<1>5. CASE job' = [job EXCEPT ![j] = NoJob]
  BY <1>2, <1>5, JobStep
<1>6. CASE job' = [job EXCEPT ![j] = [job[j] EXCEPT !.step = step, !.got = got]]
  <2> DEFINE new == [job[j] EXCEPT !.step = step, !.got = got]
  <2>1. /\ new \in JobsUnderWay
        /\ new.kind = job[j].kind /\ new.id = job[j].id /\ new.first = job[j].first
        /\ new.orphan = job[j].orphan
    BY <1>1 DEF JobsUnderWay
  <2>2. /\ job[j].kind # "refresh" => job[j].first
        /\ job[j].kind = "refresh" /\ ~job[j].orphan =>
               job[j].id \in Followed /\ (job[j].first \/ feed[job[j].id].fetched)
    BY <1>1 DEF IInv, ReadsHold
  <2>3. job' = [job EXCEPT ![j] = new]
    BY <1>6
  <2> HIDE DEF new
  <2> QED BY <1>2, <2>1, <2>2, <2>3, JobStep
<1> QED BY <1>4, <1>5, <1>6

-----------------------------------------------------------------------------
(* The writes                                                              *)

\* What a write needs to show when it changes one row and ends its job.
LEMMA RowStep ==
    ASSUME IInv, NEW j \in Workers, End(j), NEW i \in Ids, NEW f \in Feeds,
           feed' = [feed EXCEPT ![i] = f],
           f.url \in {f.given, Secure(f.given)},
           \A k \in FeedsOf(f.owner) \ {i} : feed[k].url # f.url,
           i \in Followed /\ feed[i].fetched => f.fetched
    PROVE  IInv'
<1>1. f # NoFeed
  BY Distinct
<1>2. Followed' = Followed \cup {i} /\ feed'[i] = f /\ \A k \in Ids \ {i} : feed'[k] = feed[k]
  BY <1>1 DEF Followed, IInv, TypeOK
<1>3. OneRowPerAddress'
  BY <1>2 DEF OneRowPerAddress, FeedsOf, Followed, IInv, TypeOK
<1>4. feed' \in [Ids -> Feeds \cup {NoFeed}]
  BY DEF IInv, TypeOK
<1>5. TypeOK'
  BY <1>3, <1>4, EndKeepsTypes DEF TypeOK, OneRowPerAddress
<1>6. AddressIsItsOwn'
  BY <1>2 DEF AddressIsItsOwn, Followed, IInv
<1>7. \A k \in Followed : k \in Followed' /\ (feed[k].fetched => feed'[k].fetched)
  BY <1>2 DEF Followed
<1>8. ReadsHold'
  BY <1>7, EndKeepsReads
<1> QED BY <1>5, <1>6, <1>8 DEF IInv

\* A write that finds its feed gone, or that the table refuses, changes no row.
LEMMA NoRowStep ==
    ASSUME IInv, NEW j \in Workers, End(j), feed' = feed
    PROVE  IInv'
<1>1. TypeOK'
  BY EndKeepsTypes DEF IInv, TypeOK, Followed
<1>2. AddressIsItsOwn'
  BY DEF IInv, AddressIsItsOwn, Followed
<1>3. ReadsHold'
  BY EndKeepsReads DEF Followed
<1> QED BY <1>1, <1>2, <1>3 DEF IInv

LEMMA WriteStep ==
    ASSUME IInv, NEW j \in Workers,
           StoreRefresh(j) \/ RecordTrouble(j) \/ Create(j) \/ ChangeSource(j)
    PROVE  IInv'
<1> DEFINE i == job[j].id
<1>1. job[j] \in JobsUnderWay /\ i \in Ids /\ End(j)
  BY Distinct DEF StoreRefresh, RecordTrouble, Create, ChangeSource, Ready, IInv, TypeOK, JobsUnderWay
<1>2. feed \in [Ids -> Feeds \cup {NoFeed}]
  BY DEF IInv, TypeOK
<1>3. CASE StoreRefresh(j)
  <2>1. CASE feed[i] = NoFeed
    BY <1>1, <1>2, <1>3, <2>1, NoRowStep DEF StoreRefresh
  <2>2. CASE feed[i] # NoFeed
    <3> DEFINE f == [Filled(j, feed[i]) EXCEPT !.url = Upgraded(j, feed[i])]
    <3>1. feed[i] \in Feeds /\ i \in Followed
      BY <1>1, <1>2, <2>2 DEF Followed
    <3>2. feed' = [feed EXCEPT ![i] = f]
      BY <1>2, <1>3, <2>2 DEF StoreRefresh
    <3>3. Upgraded(j, feed[i]) \in Addresses
      BY <1>1, <3>1 DEF Upgraded, Feeds, JobsUnderWay
    <3>4. /\ f \in Feeds /\ f.owner = feed[i].owner /\ f.given = feed[i].given
          /\ f.url = Upgraded(j, feed[i]) /\ f.fetched
      BY <1>1, <3>1, <3>3, FilledRow DEF Feeds
    <3>5. feed[i].url \in {feed[i].given, Secure(feed[i].given)} /\ feed[i].given \in Addresses
      BY <3>1 DEF IInv, AddressIsItsOwn, Feeds
    <3>6. Upgraded(j, feed[i]) \in {feed[i].url, Secure(feed[i].url)}
      BY DEF Upgraded
    <3>7. f.url \in {f.given, Secure(f.given)}
      BY <3>4, <3>5, <3>6, SecureOf
    <3>8. \A k \in FeedsOf(f.owner) \ {i} : feed[k].url # f.url
      <4>1. CASE Upgraded(j, feed[i]) = feed[i].url
        BY <3>1, <3>4, <4>1 DEF IInv, TypeOK, FeedsOf
      <4>2. CASE Upgraded(j, feed[i]) # feed[i].url
        <5>1. ~Taken(feed[i].owner, job[j].got, {}) /\ Upgraded(j, feed[i]) = job[j].got
          BY <4>2 DEF Upgraded
        <5> QED BY <5>1, <3>4 DEF Taken
      <4> QED BY <4>1, <4>2
    <3> HIDE DEF f
    <3> QED BY <1>1, <3>2, <3>4, <3>7, <3>8, RowStep
  <2> QED BY <2>1, <2>2
<1>4. CASE RecordTrouble(j)
  <2>1. CASE feed[i] = NoFeed
    BY <1>1, <1>2, <1>4, <2>1, NoRowStep DEF RecordTrouble
  <2>2. CASE feed[i] # NoFeed
    <3> DEFINE f == [feed[i] EXCEPT !.fetched = TRUE, !.stopped = (job[j].step = "twin")]
    <3>1. feed[i] \in Feeds /\ i \in Followed
      BY <1>1, <1>2, <2>2 DEF Followed
    <3>2. feed' = [feed EXCEPT ![i] = f]
      BY <1>2, <1>4, <2>2 DEF RecordTrouble
    <3>3. f \in Feeds /\ f.owner = feed[i].owner /\ f.given = feed[i].given /\ f.url = feed[i].url /\ f.fetched
      BY <3>1 DEF Feeds
    <3>4. f.url \in {f.given, Secure(f.given)}
      BY <3>1, <3>3 DEF IInv, AddressIsItsOwn
    <3>5. \A k \in FeedsOf(f.owner) \ {i} : feed[k].url # f.url
      BY <3>1, <3>3 DEF IInv, TypeOK, FeedsOf
    <3> HIDE DEF f
    <3> QED BY <1>1, <3>2, <3>3, <3>4, <3>5, RowStep
  <2> QED BY <2>1, <2>2
<1>5. CASE Create(j)
  <2>1. CASE Taken(job[j].user, job[j].got, {}) \/ NextId \notin Ids
    <3>1. feed' = feed
      BY <1>2, <1>5, <2>1 DEF Create
    <3> QED BY <1>1, <3>1, NoRowStep
  <2>2. CASE ~Taken(job[j].user, job[j].got, {}) /\ NextId \in Ids
    <3> DEFINE f == NewFeed(j, job[j].kind = "follow")
    <3>1. feed' = [feed EXCEPT ![NextId] = f]
      BY <1>5, <2>2 DEF Create
    <3>2. /\ f \in Feeds /\ f.url = job[j].got /\ f.given = job[j].got /\ f.owner = job[j].user
      BY <1>1 DEF NewFeed, Feeds, JobsUnderWay
    <3>3. NextId \notin Followed
      BY NextIdIsFree
    <3>4. \A k \in FeedsOf(f.owner) : feed[k].url # f.url
      BY <2>2, <3>2 DEF Taken
    <3> HIDE DEF f
    <3> QED BY <1>1, <2>2, <3>1, <3>2, <3>3, <3>4, RowStep
  <2> QED BY <2>1, <2>2
<1>6. CASE ChangeSource(j)
  <2>1. CASE i \notin FeedsOf(job[j].user) \/ Taken(job[j].user, job[j].got, {i})
    BY <1>1, <1>6, <2>1, NoRowStep DEF ChangeSource
  <2>2. CASE i \in FeedsOf(job[j].user) /\ ~Taken(job[j].user, job[j].got, {i})
    <3> DEFINE f == [Filled(j, feed[i]) EXCEPT !.url = job[j].got, !.given = job[j].got]
    <3>1. feed[i] \in Feeds /\ i \in Followed /\ feed[i].owner = job[j].user
      BY <1>1, <1>2, <2>2 DEF FeedsOf, Followed
    <3>2. feed' = [feed EXCEPT ![i] = f]
      BY <1>2, <1>6, <2>2 DEF ChangeSource
    <3>3. f \in Feeds /\ f.owner = job[j].user /\ f.given = job[j].got /\ f.url = job[j].got /\ f.fetched
      BY <1>1, <3>1, FilledRow DEF Feeds, JobsUnderWay
    <3>4. \A k \in FeedsOf(f.owner) \ {i} : feed[k].url # f.url
      BY <2>2, <3>3 DEF Taken
    <3> HIDE DEF f
    <3> QED BY <1>1, <3>2, <3>3, <3>4, RowStep
  <2> QED BY <2>1, <2>2
<1> QED BY <1>3, <1>4, <1>5, <1>6

-----------------------------------------------------------------------------
\* DELETE: the fetches and changes that are under way for the feed are marked.
LEMMA UnfollowStep ==
    ASSUME IInv, NEW u \in Users, NEW i \in Ids, Unfollow(u, i)
    PROVE  IInv'
<1>1. feed' = [feed EXCEPT ![i] = NoFeed] /\ web' = web /\ events' \in 0..MaxEvents
  BY Parameters DEF Unfollow, Event, IInv, TypeOK
<1>2. /\ Followed' = Followed \ {i}
      /\ \A k \in Followed' : feed'[k] = feed[k]
  BY <1>1 DEF Followed, IInv, TypeOK
<1> DEFINE About(j) == job[j] # NoJob /\ job[j].kind \in {"refresh", "change"} /\ job[j].id = i
<1>3. \A j \in Workers : job'[j] = IF About(j) THEN [job[j] EXCEPT !.orphan = TRUE] ELSE job[j]
  BY DEF Unfollow
<1>4. ASSUME NEW j \in Workers, job[j] # NoJob
      PROVE  /\ job'[j] \in JobsUnderWay /\ job'[j].kind = job[j].kind /\ job'[j].first = job[j].first
             /\ job'[j].id = job[j].id
             /\ job'[j].orphan = (job[j].orphan \/ About(j))
  <2>1. job[j] \in JobsUnderWay
    BY <1>4 DEF IInv, TypeOK
  <2>2. CASE About(j)
    <3>1. job'[j] = [job[j] EXCEPT !.orphan = TRUE]
      BY <1>3, <2>2
    <3> QED BY <3>1, <2>1, <2>2 DEF JobsUnderWay
  <2>3. CASE ~About(j)
    <3>1. job'[j] = job[j]
      BY <1>3, <2>3
    <3>2. job[j].orphan \in BOOLEAN
      BY <2>1 DEF JobsUnderWay
    <3> QED BY <3>1, <3>2, <2>1, <2>3
  <2> QED BY <2>2, <2>3
<1>5. job' \in [Workers -> JobsUnderWay \cup {NoJob}]
  <2>1. \A j \in Workers : job'[j] \in JobsUnderWay \cup {NoJob}
    BY <1>3, <1>4 DEF IInv, TypeOK
  <2>2. job' = [j \in Workers |-> job'[j]]
    BY DEF Unfollow
  <2> QED BY <2>1, <2>2
<1>6. TypeOK'
  BY <1>1, <1>2, <1>5 DEF TypeOK, IInv
<1>7. AddressIsItsOwn'
  BY <1>2 DEF AddressIsItsOwn, IInv
<1>8. \A j \in Busy' : j \in Busy
  BY <1>3 DEF Busy
<1>9. ReadsHold'
  <2> SUFFICES ASSUME NEW j \in Busy'
               PROVE  /\ job'[j].kind # "refresh" => job'[j].first
                      /\ job'[j].kind = "refresh" /\ ~job'[j].orphan =>
                             job'[j].id \in Followed' /\ (job'[j].first \/ feed'[job'[j].id].fetched)
    BY DEF ReadsHold
  <2>1. j \in Busy /\ j \in Workers /\ job[j] # NoJob
    BY <1>8 DEF Busy
  <2>2. /\ job[j].kind # "refresh" => job[j].first
        /\ job[j].kind = "refresh" /\ ~job[j].orphan =>
               job[j].id \in Followed /\ (job[j].first \/ feed[job[j].id].fetched)
    BY <2>1 DEF IInv, ReadsHold
  <2>3. job'[j].kind = "refresh" /\ ~job'[j].orphan => job[j].id # i
    BY <1>4, <2>1
  <2> HIDE DEF About
  <2> QED BY <1>2, <1>4, <2>1, <2>2, <2>3
<1> QED BY <1>6, <1>7, <1>9 DEF IInv

\* A setting of a row changes nothing that IInv speaks of; nor does a site that moves.
LEMMA SetAutoStashStep ==
    ASSUME IInv, NEW u \in Users, NEW i \in Ids, SetAutoStash(u, i)
    PROVE  IInv'
<1>1. i \in Followed /\ feed[i] \in Feeds
  BY DEF SetAutoStash, FeedsOf, Followed, IInv, TypeOK
<1> DEFINE f == [feed[i] EXCEPT !.auto = ~@]
<1>2. feed' = [feed EXCEPT ![i] = f] /\ UNCHANGED <<job, web>> /\ events' \in 0..MaxEvents
  BY Parameters DEF SetAutoStash, Event, IInv, TypeOK
<1>3. f \in Feeds /\ f.owner = feed[i].owner /\ f.given = feed[i].given /\ f.url = feed[i].url
      /\ f.fetched = feed[i].fetched
  BY <1>1 DEF Feeds
<1> HIDE DEF f
<1>4. /\ Followed' = Followed /\ feed'[i] = f /\ feed' \in [Ids -> Feeds \cup {NoFeed}]
      /\ \A k \in Ids : k # i => feed'[k] = feed[k]
  BY <1>1, <1>2, <1>3, Distinct DEF Followed, IInv, TypeOK
<1>5. \A k \in Followed : /\ feed'[k].owner = feed[k].owner /\ feed'[k].given = feed[k].given
                         /\ feed'[k].url = feed[k].url /\ feed'[k].fetched = feed[k].fetched
  BY <1>3, <1>4 DEF Followed
<1>6. TypeOK'
  BY <1>2, <1>4, <1>5 DEF TypeOK, IInv
<1>7. AddressIsItsOwn'
  BY <1>4, <1>5 DEF AddressIsItsOwn, IInv
<1>8. ReadsHold'
  BY <1>2, <1>4, <1>5 DEF ReadsHold, IInv, Busy
<1> QED BY <1>6, <1>7, <1>8 DEF IInv

LEMMA StepIInv == IInv /\ [Next]_vars => IInv'
<1> SUFFICES ASSUME IInv, [Next]_vars PROVE IInv'
  OBVIOUS
<1>1. ASSUME NEW j \in Workers, \E i \in Ids : BeginRefresh(j, i)
      PROVE  IInv'
  BY <1>1, BeginStep
<1>2. ASSUME NEW j \in Workers, Request(j)
      PROVE  IInv'
  BY <1>2, BeginStep
<1>3. ASSUME NEW j \in Workers, GoOn(j) \/ Fail(j)
      PROVE  IInv'
  BY <1>3, FetchStep, WriteStep DEF GoOn
<1>4. ASSUME NEW u \in Users, NEW i \in Ids, Unfollow(u, i) \/ SetAutoStash(u, i)
      PROVE  IInv'
  BY <1>4, UnfollowStep, SetAutoStashStep
<1>5. CASE Move
  BY <1>5, Parameters DEF Move, Event, IInv, TypeOK, AddressIsItsOwn, ReadsHold, Followed, Busy
<1>6. CASE UNCHANGED vars
  BY <1>6 DEF vars, IInv, TypeOK, AddressIsItsOwn, ReadsHold, Followed, Busy
<1> QED BY <1>1, <1>2, <1>3, <1>4, <1>5, <1>6 DEF Next

-----------------------------------------------------------------------------
\* The inductive invariant: types, UNIQUE (user_id, url), addresses, and that
\* what fetches read at their start still holds.
THEOREM Invariance == Spec => []IInv
BY InitIInv, StepIInv, PTL DEF Spec

\* The types, and that no owner has two feeds at one address.
THEOREM TypeCorrect == Spec => []TypeOK
<1>1. IInv => TypeOK
  BY DEF IInv
<1> QED BY <1>1, Invariance, PTL

\* No fetch of an old address, or of a feed that had the id before, ever puts an
\* address in a feed that its owner didn't give it (but for its https:// one).
THEOREM AddressesAreTheirOwn == Spec => []AddressIsItsOwn
<1>1. IInv => AddressIsItsOwn
  BY DEF IInv
<1> QED BY <1>1, Invariance, PTL

\* What a feed lists on the first fetch of it that ends never goes to the stash.
THEOREM FirstFetchesAreNotStashed == Spec => FirstFetchIsNotStashed
<1> DEFINE Kept(i) == Stashing(i) => feed[i].fetched \/ Orphaned(i)
<1>1. ASSUME IInv, Next, NEW i \in Ids
      PROVE  Kept(i)
  <2> SUFFICES ASSUME Stashing(i) PROVE feed[i].fetched \/ Orphaned(i)
    OBVIOUS
  <2>1. /\ i \in Followed /\ feed'[i] # NoFeed /\ ~feed[i].flooded /\ feed'[i].flooded
        /\ feed[i] # NoFeed /\ feed[i] \in Feeds
    BY <1>1 DEF Stashing, Followed, IInv, TypeOK
  <2>2. ASSUME NEW j \in Workers, StoreRefresh(j) \/ ChangeSource(j)
        PROVE  feed[i].fetched \/ Orphaned(i)
    <3>1. j \in Busy /\ job[j] \in JobsUnderWay
      BY <1>1, <2>2, Distinct DEF StoreRefresh, ChangeSource, Ready, Busy, IInv, TypeOK
    <3>2. job[j].id = i /\ ~job[j].first
      <4>1. job[j].id = i
        BY <1>1, <2>1, <2>2 DEF StoreRefresh, ChangeSource, IInv, TypeOK
      <4>2. ASSUME job[j].first
            PROVE  Filled(j, feed[i]).flooded = feed[i].flooded /\ Filled(j, feed[i]) \in Feeds
        BY <2>1, <4>2 DEF Filled, FirstFetch, Feeds
      <4>3. feed'[i].flooded = Filled(j, feed[i]).flooded
        <5>1. Filled(j, feed[i]) \in Feeds
          BY <2>1, <3>1, FilledRow DEF Busy
        <5>2. CASE StoreRefresh(j)
          BY <1>1, <2>1, <4>1, <5>1, <5>2 DEF StoreRefresh, IInv, TypeOK, Feeds
        <5>3. CASE ChangeSource(j)
          <6>1. feed' # feed
            BY <2>1
          <6> QED BY <1>1, <2>1, <4>1, <5>1, <5>3, <6>1 DEF ChangeSource, IInv, TypeOK, Feeds
        <5> QED BY <2>2, <5>2, <5>3
      <4> QED BY <2>1, <4>1, <4>2, <4>3
    <3> QED BY <1>1, <3>1, <3>2 DEF IInv, ReadsHold, Orphaned
  <2>3. ASSUME NEW j \in Workers, RecordTrouble(j) \/ Create(j)
        PROVE  FALSE
    <3>1. CASE RecordTrouble(j)
      BY <1>1, <2>1, <3>1 DEF RecordTrouble, IInv, TypeOK, Feeds
    <3>2. CASE Create(j)
      BY <1>1, <2>1, <3>2, NextIdIsFree DEF Create, IInv, TypeOK
    <3> QED BY <2>3, <3>1, <3>2
  <2>4. ASSUME NEW u \in Users, NEW k \in Ids, Unfollow(u, k) \/ SetAutoStash(u, k)
        PROVE  FALSE
    <3>1. CASE Unfollow(u, k)
      BY <1>1, <2>1, <3>1 DEF Unfollow, IInv, TypeOK
    <3>2. CASE SetAutoStash(u, k)
      BY <1>1, <2>1, <3>2 DEF SetAutoStash, IInv, TypeOK, Feeds
    <3> QED BY <2>4, <3>1, <3>2
  <2>5. feed' # feed
    BY <2>1
  <2>6. \A j \in Workers : (\E k \in Ids : BeginRefresh(j, k)) \/ Request(j) \/ Answer(j) \/ Check(j) \/ Fail(j)
                          => UNCHANGED feed
    BY DEF BeginRefresh, Request, BeginFollow, BeginImport, BeginChange, Begin, Answer, Check, Fail
  <2>7. Move => UNCHANGED feed
    BY DEF Move
  <2> QED BY <1>1, <2>2, <2>3, <2>4, <2>5, <2>6, <2>7 DEF Next, GoOn
<1>2. IInv /\ [Next]_vars => [\A i \in Ids : Kept(i)]_vars
  BY <1>1
<1> QED BY <1>2, Invariance, PTL DEF Spec, FirstFetchIsNotStashed
=============================================================================
