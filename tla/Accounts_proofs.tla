-------------------------- MODULE Accounts_proofs --------------------------
(***************************************************************************)
(* Proofs about Accounts, for any number of accounts, links, browsers and  *)
(* requests under way.                                                     *)
(*                                                                         *)
(* None of the three properties is inductive.  Each needs what a request   *)
(* under way knows of the rows it read: a session number read with a       *)
(* password is current or lower (SessionInv), a token names one link of    *)
(* both tables and an unused one has done nothing (LinkInv), a removal     *)
(* that nobody crossed leaves another admin (AdminInv).                    *)
(***************************************************************************)
EXTENDS Accounts, Largest, FiniteSetTheorems, SequenceTheorems, TLAPS

Making == {"setup", "account", "cli", "accept", "sso"}

\* Who makes an account gives its address; the first set-up makes an admin
JobsAreSound ==
    \A j \in Workers : job[j] # NoJob =>
        /\ job[j].kind \in Making => job[j].email \in Emails
        /\ job[j].kind = "setup" => job[j].flag = TRUE
        /\ job[j].kind \in Removing => job[j].step = "read"

\* REFERENCES users (id) ON DELETE CASCADE
ResetsHaveAccounts == \A k \in Ids : resets[k] # NoLink => resets[k].to \in Users

\* The links of both tables
Places == {"invites", "resets"} \X Ids
Link(p) == IF p[1] = "invites" THEN invites[p[2]] ELSE resets[p[2]]

\* A token names one link, and one that is unused has done nothing yet
LinkInv ==
    /\ \A p, q \in Places : Link(p) # NoLink /\ Link(q) # NoLink /\ Link(p).token = Link(q).token => p = q
    /\ \A p \in Places : Link(p) # NoLink =>
          /\ Link(p).token \in 1..Len(uses)
          /\ Link(p).used = FALSE => uses[Link(p).token] = 0
    /\ LinksWorkOnce

\* What was read of an account with its password: the number is old, or the password is still the same
Current(user, born, version, word) ==
    user # NoUser /\ user.born = born =>
        /\ version <= user.version
        /\ version = user.version => user.word = word

SessionInv ==
    /\ \A i \in Ids : users[i] # NoUser => users[i].born <= births
    /\ \A b \in Browsers : cookie[b] # NoCookie =>
          /\ cookie[b].born <= births
          /\ cookie[b].typed # NoWord => Current(users[cookie[b].id], cookie[b].born, cookie[b].version, cookie[b].typed)
    /\ \A j \in Workers : job[j] # NoJob /\ job[j].kind = "sign in" =>
          /\ job[j].born <= births
          /\ Current(users[job[j].id], job[j].born, job[j].number, job[j].word)

\* While nothing crossed, a removal under way leaves another admin
AdminInv ==
    /\ SomeAdminStays
    /\ \A j \in Workers : job[j] # NoJob /\ job[j].kind \in Removing /\ job[j].late = FALSE =>
          crossed \/ \E k \in Admins : k # job[j].id

IInv == TypeOK /\ JobsAreSound /\ ResetsHaveAccounts /\ LinkInv /\ SessionInv /\ AdminInv

-----------------------------------------------------------------------------
(* Tables and ids                                                          *)

\* The next id of a table is larger than every one in use, so it is not in use itself.
LEMMA NextIdIsFree ==
    ASSUME NEW table
    PROVE  NextId(table) \notin Rows(table)
<1> DEFINE S == Rows(table) \cup {0}
<1>1. S \in SUBSET (0..MaxId) /\ S # {} /\ MaxId \in Nat
  BY Parameters DEF Rows, Ids
<1>2. Max(S) \in S /\ \A y \in S : Max(S) >= y
  BY <1>1, MaxOfBounded
<1>3. PICK m \in S : m = Max(S) /\ \A y \in S : m >= y
  BY <1>2
<1>4. NextId(table) = 1 + m
  BY <1>3 DEF NextId
<1>5. m \in Nat /\ \A y \in S : y \in Nat
  BY <1>1
<1> QED BY <1>3, <1>4, <1>5

\* An id is an account's, or a link's, where its row is one
LEMMA RowsOf ==
    ASSUME TypeOK
    PROVE  /\ \A i \in Ids : i \in Users <=> users[i] # NoUser
           /\ \A i \in Users : i \in Ids /\ users[i] \in Accounts
           /\ \A k \in Ids : k \in Rows(invites) <=> invites[k] # NoLink
           /\ \A k \in Ids : k \in Rows(resets) <=> resets[k] # NoLink
           /\ \A k \in Ids : invites[k] # NoLink => invites[k] \in Links
           /\ \A k \in Ids : resets[k] # NoLink => resets[k] \in Links
BY Distinct DEF TypeOK, Users, Rows

-----------------------------------------------------------------------------
(* Requests under way                                                      *)

\* What is left of a request under way after a step: nothing, or what the rest of it needs
Inherits(new, old) ==
    new # NoJob =>
        /\ old # NoJob /\ new.kind = old.kind /\ new.email = old.email /\ new.flag = old.flag
        /\ new.born = old.born /\ new.number = old.number /\ new.word = old.word
        /\ old.kind \in Removing \cup {"sign in"} =>
               new.id = old.id /\ new.step = old.step /\ (new.late = TRUE \/ new.late = old.late)

AreJobs(jobs) == jobs \in [Workers -> Jobs \cup {NoJob}]

\* A request that ends leaves the others as they are.
LEMMA Ending ==
    ASSUME TypeOK, NEW j \in Workers
    PROVE  AreJobs(End(j)) /\ \A k \in Workers : Inherits(End(j)[k], job[k])
<1>1. \A k \in Workers : End(j)[k] = IF k = j THEN NoJob ELSE job[k]
  BY DEF TypeOK, End
<1> QED BY <1>1 DEF TypeOK, End, Inherits, AreJobs

\* So does one that ends before others of a group, but for their being late.
LEMMA EndingBefore ==
    ASSUME TypeOK, NEW j \in Workers, NEW group, NEW jobs, jobs = EndBefore(j, group)
    PROVE  /\ AreJobs(jobs)
           /\ \A k \in Workers : Inherits(jobs[k], job[k])
           /\ \A k \in Workers : jobs[k] # NoJob /\ jobs[k].kind \in group /\ jobs[k].step = "read" => jobs[k].late = TRUE
<1>1. \A k \in Workers : jobs[k] = IF k = j THEN NoJob
                                   ELSE IF job[k] # NoJob /\ job[k].kind \in group /\ job[k].step = "read"
                                        THEN [job[k] EXCEPT !.late = TRUE] ELSE job[k]
  BY DEF EndBefore
<1>2. ASSUME NEW r \in Jobs
      PROVE  LET l == [r EXCEPT !.late = TRUE]
             IN /\ l \in Jobs /\ l.late = TRUE /\ l.kind = r.kind /\ l.email = r.email /\ l.flag = r.flag
                /\ l.step = r.step /\ l.id = r.id /\ l.born = r.born /\ l.number = r.number /\ l.word = r.word
  BY DEF Jobs
<1>3. ASSUME NEW k \in Workers
      PROVE  /\ jobs[k] \in Jobs \cup {NoJob}
             /\ Inherits(jobs[k], job[k])
             /\ jobs[k] # NoJob /\ jobs[k].kind \in group /\ jobs[k].step = "read" => jobs[k].late = TRUE
  <2>1. CASE k = j
    BY <1>1, <2>1 DEF Inherits
  <2>2. CASE k # j /\ job[k] # NoJob /\ job[k].kind \in group /\ job[k].step = "read"
    <3>1. jobs[k] = [job[k] EXCEPT !.late = TRUE] /\ job[k] \in Jobs
      BY <1>1, <2>2 DEF TypeOK
    <3>2. /\ jobs[k] \in Jobs /\ jobs[k].late = TRUE /\ jobs[k].kind = job[k].kind
          /\ jobs[k].email = job[k].email /\ jobs[k].flag = job[k].flag /\ jobs[k].step = job[k].step
          /\ jobs[k].id = job[k].id /\ jobs[k].born = job[k].born /\ jobs[k].number = job[k].number
          /\ jobs[k].word = job[k].word
      BY <1>2, <3>1
    <3> QED BY <2>2, <3>2 DEF Inherits
  <2>3. CASE k # j /\ ~(job[k] # NoJob /\ job[k].kind \in group /\ job[k].step = "read")
    <3>1. jobs[k] = job[k]
      BY <1>1, <2>3
    <3> QED BY <2>3, <3>1 DEF TypeOK, Inherits
  <2> QED BY <2>1, <2>2, <2>3
<1> QED BY <1>1, <1>3 DEF EndBefore, AreJobs

\* A browser enters with the request that it came with.
LEMMA Entering ==
    ASSUME TypeOK, NEW j \in Workers, job[j] # NoJob, job[j].kind \notin Removing \cup {"sign in"},
           NEW i \in Ids, NEW jobs, AreJobs(jobs), \A k \in Workers \ {j} : Inherits(jobs[k], job[k])
    PROVE  AreJobs(EnterNext(jobs, j, i)) /\ \A k \in Workers : Inherits(EnterNext(jobs, j, i)[k], job[k])
<1> DEFINE new == [job[j] EXCEPT !.step = "enter", !.id = i, !.late = FALSE]
<1>1. job[j] \in Jobs
  BY DEF TypeOK
<1>2. /\ new \in Jobs /\ new.kind = job[j].kind /\ new.email = job[j].email /\ new.flag = job[j].flag
      /\ new.born = job[j].born /\ new.number = job[j].number /\ new.word = job[j].word
  BY <1>1 DEF Jobs
<1>3. EnterNext(jobs, j, i) = [jobs EXCEPT ![j] = new]
  BY DEF EnterNext
<1> HIDE DEF new
<1>4. AreJobs(EnterNext(jobs, j, i))
  BY <1>2, <1>3 DEF AreJobs
<1>5. Inherits(new, job[j])
  BY <1>2 DEF Inherits
<1>6. \A k \in Workers : EnterNext(jobs, j, i)[k] = IF k = j THEN new ELSE jobs[k]
  BY <1>3 DEF AreJobs
<1> QED BY <1>4, <1>5, <1>6

\* The others stay with it, whether it ended before some of them or before none.
LEMMA OthersStay ==
    ASSUME TypeOK, NEW j \in Workers
    PROVE  /\ AreJobs(job) /\ \A k \in Workers \ {j} : Inherits(job[k], job[k])
           /\ AreJobs(EndBefore(j, Creating)) /\ \A k \in Workers \ {j} : Inherits(EndBefore(j, Creating)[k], job[k])
BY EndingBefore DEF TypeOK, AreJobs, Inherits

-----------------------------------------------------------------------------
(* What keeps each part of the invariant                                   *)

\* What a request under way is sound by stays.
LEMMA JobsKept ==
    ASSUME JobsAreSound, \A k \in Workers : Inherits(job'[k], job[k])
    PROVE  JobsAreSound'
BY DEF JobsAreSound, Inherits, Removing, Making

\* A row stays the same account's, with its password or with a higher number; or it is a new account's.
Continues(i) ==
    \/ /\ users[i] # NoUser /\ users'[i].born = users[i].born
       /\ \/ users'[i].version = users[i].version /\ users'[i].word = users[i].word
          \/ users'[i].version = users[i].version + 1
    \/ births' = births + 1 /\ users'[i].born = births'

Continuing == \A i \in Ids : users'[i] # NoUser => Continues(i)

\* A number that was read with a password stays current, or old, while every row continues.
LEMMA StaysCurrent ==
    ASSUME TypeOK, Continuing, NEW id \in Ids, NEW born \in Nat, NEW version \in Nat, NEW word,
           born <= births, Current(users[id], born, version, word)
    PROVE  Current(users'[id], born, version, word)
<1> SUFFICES ASSUME users'[id] # NoUser, users'[id].born = born
             PROVE  version <= users'[id].version /\ (version = users'[id].version => users'[id].word = word)
  BY DEF Current
<1>1. Continues(id) /\ births \in Nat
  BY DEF TypeOK, Continuing
<1>2. users[id] # NoUser /\ users[id].born = born
  BY <1>1 DEF Continues
<1>3. users[id].version \in Nat
  BY <1>2 DEF TypeOK, Accounts
<1> QED BY <1>1, <1>2, <1>3 DEF Continues, Current

\* A browser's cookie, or a request that signs in, is sound where it was, or was made so by the step.
LEMMA SessionsKept ==
    ASSUME IInv, births' \in {births, births + 1}, Continuing,
           \A b \in Browsers : cookie'[b] # NoCookie =>
               \/ cookie'[b] = cookie[b]
               \/ /\ cookie'[b].born <= births'
                  /\ cookie'[b].typed # NoWord =>
                        Current(users'[cookie'[b].id], cookie'[b].born, cookie'[b].version, cookie'[b].typed),
           \A j \in Workers : Inherits(job'[j], job[j])
    PROVE  SessionInv'
<1>1. TypeOK /\ SessionInv /\ births \in Nat
  BY DEF IInv, TypeOK
<1>2. ASSUME NEW i \in Ids, users'[i] # NoUser
      PROVE  users'[i].born <= births'
  <2>1. Continues(i)
    BY <1>2 DEF Continuing
  <2>2. users[i] # NoUser => users[i].born \in Nat /\ users[i].born <= births
    BY <1>1 DEF SessionInv, TypeOK, Accounts
  <2> QED BY <1>1, <2>1, <2>2 DEF Continues
<1>3. ASSUME NEW b \in Browsers, cookie'[b] # NoCookie
      PROVE  /\ cookie'[b].born <= births'
             /\ cookie'[b].typed # NoWord =>
                   Current(users'[cookie'[b].id], cookie'[b].born, cookie'[b].version, cookie'[b].typed)
  <2> DEFINE c == cookie[b]
  <2> SUFFICES ASSUME cookie'[b] = c
               PROVE  c.born <= births' /\ (c.typed # NoWord => Current(users'[c.id], c.born, c.version, c.typed))
    BY <1>3
  <2>1. c.id \in Ids /\ c.born \in Nat /\ c.version \in Nat /\ c.born <= births
        /\ (c.typed # NoWord => Current(users[c.id], c.born, c.version, c.typed))
    BY <1>1, <1>3 DEF TypeOK, Cookies, SessionInv
  <2> HIDE DEF c
  <2>2. c.typed # NoWord => Current(users'[c.id], c.born, c.version, c.typed)
    BY <1>1, <2>1, StaysCurrent
  <2> QED BY <1>1, <2>1, <2>2
<1>4. ASSUME NEW j \in Workers, job'[j] # NoJob, job'[j].kind = "sign in"
      PROVE  /\ job'[j].born <= births'
             /\ Current(users'[job'[j].id], job'[j].born, job'[j].number, job'[j].word)
  <2> DEFINE r == job[j]
  <2>1. /\ r # NoJob /\ r.kind = "sign in" /\ job'[j].id = r.id /\ job'[j].born = r.born
        /\ job'[j].number = r.number /\ job'[j].word = r.word
    BY <1>4 DEF Inherits
  <2>2. r.id \in Ids /\ r.born \in Nat /\ r.number \in Nat /\ r.born <= births
        /\ Current(users[r.id], r.born, r.number, r.word)
    BY <1>1, <2>1 DEF TypeOK, Jobs, SessionInv
  <2> HIDE DEF r
  <2>3. Current(users'[r.id], r.born, r.number, r.word)
    BY <1>1, <2>2, StaysCurrent
  <2>4. r.born <= births'
    BY <1>1, <2>2
  <2> QED BY <2>1, <2>3, <2>4
<1> QED BY <1>2, <1>3, <1>4 DEF SessionInv

\* While nobody loses the rights of an admin, removals under way leave whom they left.
LEMMA AdminsKept ==
    ASSUME AdminInv, Admins \subseteq Admins', crossed \in BOOLEAN, crossed' \in BOOLEAN, crossed => crossed',
           Users' # {} => Users # {} \/ Admins' # {} \/ crossed',
           \A j \in Workers : Inherits(job'[j], job[j])
    PROVE  AdminInv'
<1>1. SomeAdminStays'
  BY DEF AdminInv, SomeAdminStays
<1>2. ASSUME NEW j \in Workers, job'[j] # NoJob, job'[j].kind \in Removing, job'[j].late = FALSE
      PROVE  crossed' \/ \E k \in Admins' : k # job'[j].id
  <2>1. job[j] # NoJob /\ job[j].kind \in Removing /\ job[j].late = FALSE /\ job'[j].id = job[j].id
    BY <1>2 DEF Inherits
  <2>2. crossed \/ \E k \in Admins : k # job[j].id
    BY <2>1 DEF AdminInv
  <2> QED BY <2>1, <2>2
<1> QED BY <1>1, <1>2 DEF AdminInv

\* What is left of a link names it still, and is unused only if it was.
LinkStays(p) ==
    Link(p)' # NoLink => /\ Link(p) # NoLink /\ Link(p)'.token = Link(p).token
                         /\ Link(p)'.used = FALSE => Link(p).used = FALSE

\* Where no link is new and none did what it is for.
LEMMA LinksKept ==
    ASSUME LinkInv, UNCHANGED uses, \A p \in Places : LinkStays(p)
    PROVE  LinkInv'
<1>1. UNCHANGED <<Places, uses>> /\ (\A p \in Places : LinkStays(p)) /\ LinkInv
  BY DEF Places
<1> QED BY <1>1 DEF LinkInv, LinkStays, LinksWorkOnce

\* A new link has a token of its own, which has done nothing.
LEMMA LinkMade ==
    ASSUME TypeOK, LinkInv, NEW p \in Places, \A q \in Places \ {p} : LinkStays(q),
           Link(p)' # NoLink, Link(p)'.token = NewToken, uses' = Append(uses, 0)
    PROVE  LinkInv'
<1>1. /\ uses' \in Seq(Nat) /\ Len(uses') = Len(uses) + 1 /\ Len(uses) \in Nat /\ uses'[NewToken] = 0
      /\ \A t \in 1..Len(uses) : uses'[t] = uses[t]
      /\ DOMAIN uses = 1..Len(uses) /\ DOMAIN uses' = 1..Len(uses')
  BY DEF TypeOK, NewToken
<1>2. \A q \in Places : Link(q)' # NoLink =>
          \/ q = p /\ Link(q)'.token = Len(uses) + 1
          \/ q # p /\ LinkStays(q) /\ Link(q) # NoLink /\ Link(q).token \in 1..Len(uses)
  BY DEF LinkInv, LinkStays, NewToken
<1>3. \A q, r \in Places : Link(q)' # NoLink /\ Link(r)' # NoLink /\ Link(q)'.token = Link(r)'.token => q = r
  <2> TAKE q, r \in Places
  <2> HAVE Link(q)' # NoLink /\ Link(r)' # NoLink /\ Link(q)'.token = Link(r)'.token
  <2>1. CASE q = p \/ r = p
    BY <1>1, <1>2, <2>1 DEF LinkStays
  <2>2. CASE q # p /\ r # p
    BY <1>2, <2>2 DEF LinkStays, LinkInv
  <2> QED BY <2>1, <2>2
<1>4. ASSUME NEW q \in Places, Link(q)' # NoLink
      PROVE  Link(q)'.token \in 1..Len(uses') /\ (Link(q)'.used = FALSE => uses'[Link(q)'.token] = 0)
  <2>1. CASE q = p
    BY <1>1, <1>2, <1>4, <2>1 DEF NewToken
  <2>2. CASE q # p
    BY <1>1, <1>2, <1>4, <2>2 DEF LinkStays, LinkInv
  <2> QED BY <2>1, <2>2
<1>5. LinksWorkOnce'
  <2> SUFFICES ASSUME NEW t \in 1..Len(uses') PROVE uses'[t] <= 1
    BY <1>1 DEF LinksWorkOnce
  <2>1. t \in 1..Len(uses) \/ t = NewToken
    BY <1>1 DEF NewToken
  <2> QED BY <1>1, <2>1 DEF LinkInv, LinksWorkOnce
<1>6. Places' = Places
  BY DEF Places
<1> QED BY <1>3, <1>4, <1>5, <1>6 DEF LinkInv

\* A link that was unused is used now, and may count as such.
LEMMA LinkUsed ==
    ASSUME TypeOK, LinkInv, NEW p \in Places, \A q \in Places : LinkStays(q),
           Link(p) # NoLink, Link(p).used = FALSE, Link(p)'.used = TRUE,
           \/ uses' = uses
           \/ uses' = [uses EXCEPT ![Link(p).token] = @ + 1]
    PROVE  LinkInv'
<1> DEFINE t == Link(p).token
<1>1. t \in 1..Len(uses) /\ uses[t] = 0
  BY DEF LinkInv
<1>2. /\ uses' \in Seq(Nat) /\ Len(uses') = Len(uses)
      /\ DOMAIN uses = 1..Len(uses) /\ DOMAIN uses' = 1..Len(uses)
      /\ uses'[t] <= 1 /\ \A k \in 1..Len(uses) \ {t} : uses'[k] = uses[k]
  <2>1. uses \in Seq(Nat) /\ uses' \in {uses, [uses EXCEPT ![t] = 1]}
    BY <1>1 DEF TypeOK
  <2>2. CASE uses' = uses
    BY <1>1, <2>1, <2>2
  <2>3. CASE uses' = [uses EXCEPT ![t] = 1]
    BY <1>1, <2>1, <2>3, ExceptSeq
  <2> QED BY <2>1, <2>2, <2>3
<1>3. \A q \in Places : Link(q)' # NoLink /\ q # p => Link(q).token # t
  BY DEF LinkStays, LinkInv
<1>4. \A q, r \in Places : Link(q)' # NoLink /\ Link(r)' # NoLink /\ Link(q)'.token = Link(r)'.token => q = r
  BY DEF LinkStays, LinkInv
<1>5. ASSUME NEW q \in Places, Link(q)' # NoLink
      PROVE  Link(q)'.token \in 1..Len(uses') /\ (Link(q)'.used = FALSE => uses'[Link(q)'.token] = 0)
  BY <1>2, <1>3, <1>5 DEF LinkStays, LinkInv
<1>6. LinksWorkOnce'
  BY <1>1, <1>2 DEF LinksWorkOnce, LinkInv
<1>7. Places' = Places
  BY DEF Places
<1> QED BY <1>4, <1>5, <1>6, <1>7 DEF LinkInv

\* One row of users changes, as the same account's.
LEMMA ChangedRow ==
    ASSUME TypeOK, NEW i \in Users, NEW new \in Accounts, users' = [users EXCEPT ![i] = new]
    PROVE  /\ users' \in [Ids -> Accounts \cup {NoUser}]
           /\ \A k \in Ids : users'[k] = IF k = i THEN new ELSE users[k]
           /\ Users' = Users
           /\ Admins' \ {i} = Admins \ {i}
<1>1. i \in Ids /\ users[i] \in Accounts
  BY RowsOf
<1>2. /\ users' \in [Ids -> Accounts \cup {NoUser}]
      /\ \A k \in Ids : users'[k] = IF k = i THEN new ELSE users[k]
  BY <1>1 DEF TypeOK
<1>3. Users' = Users
  BY <1>1, <1>2, Distinct DEF Users, Rows
<1> QED BY <1>2, <1>3 DEF Admins, Users, Rows

\* A row more is a new account's, at an id nobody has.
LEMMA InsertedRow ==
    ASSUME TypeOK, JobsAreSound, NEW j \in Workers, Insert(j), job[j] # NoJob, job[j].kind \in Making
    PROVE  LET n == NextId(users)
           IN /\ n \in Ids /\ users[n] = NoUser
              /\ users' \in [Ids -> Accounts \cup {NoUser}] /\ births' = births + 1 /\ births' \in Nat
              /\ users'[n].born = births' /\ users'[n].admin = job[j].flag
              /\ \A k \in Ids \ {n} : users'[k] = users[k]
              /\ Users' = Users \cup {n}
              /\ Admins \subseteq Admins'
<1> DEFINE n == NextId(users)
<1>1. n \in Ids /\ n \notin Users /\ users[n] = NoUser
  BY NextIdIsFree, RowsOf DEF Insert, Users
<1>2. job[j] \in Jobs /\ job[j].email \in Emails
  BY DEF TypeOK, JobsAreSound
<1>3. Row(j) \in Accounts /\ Row(j).born = births + 1 /\ Row(j).admin = job[j].flag
  <2>1. job[j].flag \in BOOLEAN /\ job[j].word \in Words \cup {NoWord}
    BY <1>2 DEF Jobs
  <2>2. births + 1 \in Nat /\ 0 \in Nat
    BY DEF TypeOK
  <2>3. Row(j) \in Accounts
    BY <1>2, <2>1, <2>2, Zenon DEF Row, Accounts
  <2> QED BY <2>3 DEF Row
<1>4. users' = [users EXCEPT ![n] = Row(j)] /\ births' = births + 1
  BY DEF Insert
<1> HIDE DEF n
<1>5. /\ users' \in [Ids -> Accounts \cup {NoUser}]
      /\ \A k \in Ids : users'[k] = IF k = n THEN Row(j) ELSE users[k]
  BY <1>1, <1>3, <1>4 DEF TypeOK
<1>6. Users' = Users \cup {n}
  BY <1>1, <1>3, <1>5, Distinct DEF Users, Rows
<1>7. Admins \subseteq Admins'
  BY <1>1, <1>5, <1>6 DEF Admins, Users, Rows
<1>8. births' \in Nat
  BY <1>4 DEF TypeOK
<1> QED BY <1>1, <1>3, <1>4, <1>5, <1>6, <1>7, <1>8 DEF n

-----------------------------------------------------------------------------
(* Looking                                                                 *)

\* What a request is when it has looked.
Suited(r) ==
    /\ r \in Jobs
    /\ r.kind \in Making => r.email \in Emails
    /\ r.kind = "setup" => r.flag = TRUE
    /\ r.kind \in Removing => r.step = "read" /\ \E k \in Admins : k # r.id
    /\ r.kind = "sign in" => r.born <= births /\ Current(users[r.id], r.born, r.number, r.word)

\* Beginning one keeps the invariant.
LEMMA Beginning ==
    ASSUME IInv, NEW j \in Workers, NEW r, Suited(r), Begin(j, r)
    PROVE  IInv'
<1>1. TypeOK /\ r \in Jobs /\ UNCHANGED <<users, invites, resets, cookie, births, uses, crossed>>
  BY DEF IInv, Suited, Begin
<1>2. job' = [job EXCEPT ![j] = r] /\ job[j] = NoJob
  BY DEF Begin
<1>3. AreJobs(job') /\ \A k \in Workers : job'[k] = IF k = j THEN r ELSE job[k]
  BY <1>1, <1>2 DEF TypeOK, AreJobs
<1>4. TypeOK'
  BY <1>1, <1>3, Parameters DEF TypeOK, AreJobs, Begin, Event
<1>5. JobsAreSound'
  BY <1>3 DEF IInv, JobsAreSound, Suited
<1>6. ResetsHaveAccounts' /\ LinkInv'
  <2>1. \A p \in Places : LinkStays(p)
    BY <1>1 DEF LinkStays, Link
  <2> QED BY <1>1, <2>1, LinksKept DEF IInv, ResetsHaveAccounts, Users, Rows
<1>7. SessionInv'
  BY <1>1, <1>3 DEF IInv, SessionInv, Suited
<1>8. AdminInv'
  <2>1. Users' = Users /\ Admins' = Admins
    BY <1>1 DEF Users, Rows, Admins
  <2>2. SomeAdminStays'
    BY <1>1, <2>1 DEF IInv, AdminInv, SomeAdminStays
  <2>3. ASSUME NEW k \in Workers, job'[k] # NoJob, job'[k].kind \in Removing, job'[k].late = FALSE
        PROVE  crossed' \/ \E a \in Admins' : a # job'[k].id
    BY <1>1, <1>3, <2>1, <2>3 DEF IInv, AdminInv, Suited
  <2> QED BY <2>2, <2>3 DEF AdminInv
<1> QED BY <1>4, <1>5, <1>6, <1>7, <1>8 DEF IInv

\* Unless it is the only one, there is an admin besides any account.
LEMMA AnotherAdmin ==
    ASSUME NEW i, OthersManage(i), Admins # {}
    PROVE  \E k \in Admins : k # i
<1> SUFFICES ASSUME \A k \in Admins : k = i PROVE FALSE
  OBVIOUS
<1>1. Admins = {i}
  OBVIOUS
<1>2. Cardinality(Admins) = 1
  BY <1>1, FS_Singleton
<1> QED BY <1>1, <1>2 DEF OthersManage

\* Every request begins as one that is suited.
LEMMA Requesting ==
    ASSUME IInv, NEW j \in Workers, Request(j)
    PROVE  \E r : Suited(r) /\ Begin(j, r)
<1> PICK b \in Browsers :
        \/ SignOutOthers(j, b)
        \/ \E e \in Emails : ComeFromElsewhere(j, b, e)
        \/ \E to \in Emails \cup {Anyone} : Invite(j, b, to)
        \/ \E w \in Words : \/ ChangePassword(j, b, w)
                            \/ \E i \in Ids : AdminReset(j, b, i, w) \/ Reset(j, b, i, w)
                            \/ \E e \in Emails : \/ SignIn(j, b, e, w) \/ SetUp(j, b, e, w)
                                                 \/ \E k \in Ids : AcceptInvite(j, b, k, e, w)
                                                 \/ \E a \in BOOLEAN : CreateAccount(j, b, e, w, a)
                                                                       \/ CommandLine(j, e, w, a)
        \/ \E i \in Ids : Delete(j, b, i) \/ \E a \in BOOLEAN : SetAdmin(j, b, i, a)
  BY DEF Request
<1>0. /\ TypeOK /\ births \in Nat
      /\ \A i \in Users : i \in Ids /\ users[i] # NoUser /\ users[i] \in Accounts
      /\ Counts(b) => cookie[b].id \in Ids /\ cookie[b].id \in Users
      /\ Admin(b) => cookie[b].id \in Admins
      /\ \A k \in Ids : Usable(invites[k]) => invites[k].token \in Nat
      /\ \A k \in Ids : Usable(resets[k]) => resets[k].token \in Nat
  BY RowsOf DEF IInv, TypeOK, Counts, Admin, Admins, Cookies, Usable, Links
<1> 1 \in Ids
  BY Parameters DEF Ids
<1>1. CASE SignOutOthers(j, b)
  <2> DEFINE r == [Idle("others", b) EXCEPT !.id = cookie[b].id]
  <2>1. Begin(j, r) /\ cookie[b].id \in Ids
    BY <1>0, <1>1 DEF SignOutOthers
  <2>2. Suited(r)
    BY <2>1 DEF Suited, Jobs, Idle, Making, Removing, Creating
  <2> QED BY <2>1, <2>2
<1>2. ASSUME NEW e \in Emails, ComeFromElsewhere(j, b, e)
      PROVE  \E r : Suited(r) /\ Begin(j, r)
  <2> DEFINE r == NewAccount("sso", b, e, NoWord, Users = {})
  <2>1. Begin(j, r)
    BY <1>2 DEF ComeFromElsewhere
  <2>2. Suited(r)
    BY DEF Suited, Jobs, Idle, NewAccount, Making, Removing, Creating
  <2> QED BY <2>1, <2>2
<1>3. ASSUME NEW to \in Emails \cup {Anyone}, Invite(j, b, to)
      PROVE  \E r : Suited(r) /\ Begin(j, r)
  <2> DEFINE r == [Idle("invite", Anyone) EXCEPT !.email = to]
  <2>1. Begin(j, r)
    BY <1>3 DEF Invite
  <2>2. Suited(r)
    BY DEF Suited, Jobs, Idle, Making, Removing, Creating
  <2> QED BY <2>1, <2>2
<1>4. ASSUME NEW w \in Words, ChangePassword(j, b, w)
      PROVE  \E r : Suited(r) /\ Begin(j, r)
  <2> DEFINE r == [Idle("change", b) EXCEPT !.id = cookie[b].id, !.word = w]
  <2>1. Begin(j, r) /\ cookie[b].id \in Ids
    BY <1>0, <1>4 DEF ChangePassword
  <2>2. Suited(r)
    BY <2>1 DEF Suited, Jobs, Idle, Making, Removing, Creating
  <2> QED BY <2>1, <2>2
<1>5. ASSUME NEW w \in Words, NEW i \in Ids, AdminReset(j, b, i, w)
      PROVE  \E r : Suited(r) /\ Begin(j, r)
  <2> DEFINE r == [Idle("admin reset", b) EXCEPT !.id = i, !.word = w]
  <2>1. Begin(j, r)
    BY <1>5 DEF AdminReset
  <2>2. Suited(r)
    BY DEF Suited, Jobs, Idle, Making, Removing, Creating
  <2> QED BY <2>1, <2>2
<1>6. ASSUME NEW w \in Words, NEW k \in Ids, Reset(j, b, k, w)
      PROVE  \E r : Suited(r) /\ Begin(j, r)
  <2> DEFINE r == [Idle("reset", b) EXCEPT !.id = k, !.word = w, !.number = resets[k].token]
  <2>1. Begin(j, r) /\ resets[k].token \in Nat
    BY <1>0, <1>6 DEF Reset
  <2>2. Suited(r)
    BY <2>1 DEF Suited, Jobs, Idle, Making, Removing, Creating
  <2> QED BY <2>1, <2>2
<1>7. ASSUME NEW w \in Words, NEW e \in Emails, SignIn(j, b, e, w)
      PROVE  \E r : Suited(r) /\ Begin(j, r)
  <2> PICK i \in Users :
        /\ users[i].word = w
        /\ Begin(j, [Idle("sign in", b) EXCEPT !.id = i, !.word = w, !.flag = users[i].old,
                                               !.number = users[i].version, !.born = users[i].born])
    BY <1>7 DEF SignIn
  <2> DEFINE r == [Idle("sign in", b) EXCEPT !.id = i, !.word = w, !.flag = users[i].old,
                                             !.number = users[i].version, !.born = users[i].born]
  <2>1. /\ i \in Ids /\ users[i] # NoUser /\ users[i].old \in BOOLEAN /\ users[i].version \in Nat
        /\ users[i].born \in Nat /\ users[i].born <= births
    BY <1>0 DEF Accounts, IInv, SessionInv
  <2>2. /\ r \in Jobs /\ r.kind = "sign in" /\ r.id = i /\ r.word = w
        /\ r.number = users[i].version /\ r.born = users[i].born
    BY <2>1 DEF Jobs, Idle
  <2> HIDE DEF r
  <2>3. Current(users[i], users[i].born, users[i].version, w)
    BY <2>1 DEF Current
  <2>4. Suited(r)
    <3>1. Current(users[r.id], r.born, r.number, r.word) /\ r.born <= births
      BY <2>1, <2>2, <2>3
    <3> QED BY <2>2, <3>1 DEF Suited, Making, Removing
  <2> QED BY <2>4 DEF r
<1>8. ASSUME NEW w \in Words, NEW e \in Emails, SetUp(j, b, e, w)
      PROVE  \E r : Suited(r) /\ Begin(j, r)
  <2> DEFINE r == NewAccount("setup", b, e, w, TRUE)
  <2>1. Begin(j, r)
    BY <1>8 DEF SetUp
  <2>2. Suited(r)
    BY DEF Suited, Jobs, Idle, NewAccount, Making, Removing, Creating
  <2> QED BY <2>1, <2>2
<1>9. ASSUME NEW w \in Words, NEW e \in Emails, NEW k \in Ids, AcceptInvite(j, b, k, e, w)
      PROVE  \E r : Suited(r) /\ Begin(j, r)
  <2> DEFINE r == [NewAccount("accept", b, e, w, FALSE) EXCEPT !.id = k, !.number = invites[k].token]
  <2>1. Begin(j, r) /\ invites[k].token \in Nat
    BY <1>0, <1>9 DEF AcceptInvite
  <2>2. Suited(r)
    BY <2>1 DEF Suited, Jobs, Idle, NewAccount, Making, Removing, Creating
  <2> QED BY <2>1, <2>2
<1>10. ASSUME NEW w \in Words, NEW e \in Emails, NEW a \in BOOLEAN,
              CreateAccount(j, b, e, w, a) \/ CommandLine(j, e, w, a)
       PROVE  \E r : Suited(r) /\ Begin(j, r)
  <2> PICK kind \in {"account", "cli"} : Begin(j, NewAccount(kind, Anyone, e, w, a))
    BY <1>10 DEF CreateAccount, CommandLine
  <2> DEFINE r == NewAccount(kind, Anyone, e, w, a)
  <2>2. Suited(r)
    BY DEF Suited, Jobs, Idle, NewAccount, Making, Removing, Creating
  <2> QED BY <2>2
<1>11. ASSUME NEW i \in Ids, Delete(j, b, i)
       PROVE  \E r : Suited(r) /\ Begin(j, r)
  <2> DEFINE r == [Idle("delete", Anyone) EXCEPT !.id = i]
  <2>1. Begin(j, r) /\ \E k \in Admins : k # i
    BY <1>0, <1>11 DEF Delete
  <2>2. Suited(r)
    BY <2>1 DEF Suited, Jobs, Idle, Making, Removing, Creating
  <2> QED BY <2>1, <2>2
<1>12. ASSUME NEW i \in Ids, NEW a \in BOOLEAN, SetAdmin(j, b, i, a)
       PROVE  \E r : Suited(r) /\ Begin(j, r)
  <2>1. CASE a
    <3> DEFINE r == [Idle("promote", Anyone) EXCEPT !.id = i]
    <3>1. Begin(j, r)
      BY <1>12, <2>1 DEF SetAdmin
    <3>2. Suited(r)
      BY DEF Suited, Jobs, Idle, Making, Removing, Creating
    <3> QED BY <3>1, <3>2
  <2>2. CASE ~a
    <3> DEFINE r == [Idle("demote", Anyone) EXCEPT !.id = i]
    <3>1. Begin(j, r) /\ OthersManage(i) /\ Admins # {}
      BY <1>0, <1>12, <2>2 DEF SetAdmin
    <3>2. \E k \in Admins : k # i
      BY <3>1, AnotherAdmin
    <3>3. Suited(r)
      BY <3>2 DEF Suited, Jobs, Idle, Making, Removing, Creating
    <3> QED BY <3>1, <3>3
  <2> QED BY <2>1, <2>2
<1> QED BY <1>1, <1>2, <1>3, <1>4, <1>5, <1>6, <1>7, <1>8, <1>9, <1>10, <1>11, <1>12

-----------------------------------------------------------------------------
(* Writing                                                                 *)

\* A row that another may follow as the same account's.
Follows(new, old) ==
    /\ new \in Accounts /\ new.born = old.born
    /\ \/ new.version = old.version /\ new.word = old.word
       \/ new.version = old.version + 1

\* Nothing of users changes, or one row, as the same account's; `admins`: it keeps its rights.
OneRow(admins) ==
    \/ users' = users
    \/ \E i \in Users : \E new \in Accounts :
          /\ users' = [users EXCEPT ![i] = new] /\ Follows(new, users[i])
          /\ admins => new.admin = users[i].admin

\* The writes to a row of users that the code makes are such.
LEMMA RowWrites ==
    ASSUME TypeOK, NEW i \in Users, NEW w \in Words \cup {NoWord}, NEW a \in BOOLEAN
    PROVE  /\ users' = [users EXCEPT ![i].old = FALSE] => OneRow(TRUE)
           /\ users' = [users EXCEPT ![i].version = @ + 1] => OneRow(TRUE)
           /\ users' = WithPassword(i, w) => OneRow(TRUE)
           /\ users' = [users EXCEPT ![i].admin = a] => OneRow(FALSE)
<1> DEFINE u == users[i]
<1>1. u \in Accounts /\ i \in Ids /\ users \in [Ids -> Accounts \cup {NoUser}]
  BY RowsOf DEF TypeOK
<1>2. u.version \in Nat
  BY <1>1 DEF Accounts
<1>3. ASSUME users' = [users EXCEPT ![i].old = FALSE]
      PROVE  OneRow(TRUE)
  <2> DEFINE new == [u EXCEPT !.old = FALSE]
  <2>1. new \in Accounts /\ new.admin = u.admin /\ new.version = u.version /\ new.word = u.word /\ new.born = u.born
    BY <1>1 DEF Accounts
  <2>2. users' = [users EXCEPT ![i] = new]
    BY <1>3
  <2> QED BY <2>1, <2>2 DEF OneRow, Follows
<1>4. ASSUME users' = [users EXCEPT ![i].version = @ + 1]
      PROVE  OneRow(TRUE)
  <2> DEFINE new == [u EXCEPT !.version = @ + 1]
  <2>1. new \in Accounts /\ new.admin = u.admin /\ new.version = u.version + 1 /\ new.word = u.word /\ new.born = u.born
    BY <1>1, <1>2 DEF Accounts
  <2>2. users' = [users EXCEPT ![i] = new]
    BY <1>4
  <2> QED BY <2>1, <2>2 DEF OneRow, Follows
<1>5. ASSUME users' = WithPassword(i, w)
      PROVE  OneRow(TRUE)
  <2> DEFINE fresh == [u EXCEPT !.word = w, !.old = FALSE]
             new == [fresh EXCEPT !.version = u.version + 1]
  <2>1. fresh \in Accounts /\ fresh.admin = u.admin /\ fresh.version = u.version /\ fresh.born = u.born
    BY <1>1 DEF Accounts
  <2>2. users' = [users EXCEPT ![i] = new]
    <3>1. users' = [users EXCEPT ![i] = [u EXCEPT !.word = w, !.old = FALSE, !.version = @ + 1]]
      BY <1>1, <1>5 DEF WithPassword
    <3>2. [u EXCEPT !.word = w, !.old = FALSE, !.version = @ + 1] = new
      BY <1>1 DEF Accounts
    <3> QED BY <3>1, <3>2
  <2> HIDE DEF fresh
  <2>3. new \in Accounts /\ new.admin = u.admin /\ new.version = u.version + 1 /\ new.born = u.born
    BY <1>2, <2>1 DEF Accounts
  <2> QED BY <2>2, <2>3 DEF OneRow, Follows
<1>6. ASSUME users' = [users EXCEPT ![i].admin = a]
      PROVE  OneRow(FALSE)
  <2> DEFINE new == [u EXCEPT !.admin = a]
  <2>1. new \in Accounts /\ new.version = u.version /\ new.word = u.word /\ new.born = u.born
    BY <1>1 DEF Accounts
  <2>2. users' = [users EXCEPT ![i] = new]
    BY <1>6
  <2> QED BY <2>1, <2>2 DEF OneRow, Follows
<1> QED BY <1>3, <1>4, <1>5, <1>6

\* Then every row continues, the accounts are the same, and the admins too if their rights are.
LEMMA RowWritten ==
    ASSUME TypeOK, NEW admins \in BOOLEAN, OneRow(admins), births' = births
    PROVE  /\ users' \in [Ids -> Accounts \cup {NoUser}] /\ Continuing /\ Users' = Users
           /\ admins => Admins' = Admins
<1>1. CASE users' = users
  BY <1>1 DEF Continuing, Continues, Users, Rows, Admins, TypeOK
<1>2. CASE users' # users
  <2> PICK i \in Users, new \in Accounts :
          /\ users' = [users EXCEPT ![i] = new] /\ Follows(new, users[i])
          /\ admins => new.admin = users[i].admin
    BY <1>2 DEF OneRow
  <2>1. /\ users' \in [Ids -> Accounts \cup {NoUser}]
        /\ \A k \in Ids : users'[k] = IF k = i THEN new ELSE users[k]
        /\ Users' = Users /\ i \in Ids /\ users[i] # NoUser
    BY ChangedRow, RowsOf
  <2>2. Continuing
    <3> SUFFICES ASSUME NEW k \in Ids, users'[k] # NoUser PROVE Continues(k)
      BY DEF Continuing
    <3>1. CASE k = i
      BY <2>1, <3>1 DEF Follows, Continues
    <3>2. CASE k # i
      BY <2>1, <3>2 DEF Continues
    <3> QED BY <3>1, <3>2
  <2>3. ASSUME admins PROVE Admins' = Admins
    BY <2>1, <2>3 DEF Admins, Users, Rows
  <2> QED BY <2>1, <2>2, <2>3
<1> QED BY <1>1, <1>2

\* What a step shows when it makes, or removes, no account.
LEMMA Assembled ==
    ASSUME IInv, TypeOK', births' = births, Continuing, Users' = Users,
           ResetsHaveAccounts', LinkInv', AdminInv',
           \A b \in Browsers : cookie'[b] # NoCookie =>
               \/ cookie'[b] = cookie[b]
               \/ /\ cookie'[b].born <= births'
                  /\ cookie'[b].typed # NoWord =>
                        Current(users'[cookie'[b].id], cookie'[b].born, cookie'[b].version, cookie'[b].typed),
           \A j \in Workers : Inherits(job'[j], job[j])
    PROVE  IInv'
<1>1. JobsAreSound'
  BY JobsKept DEF IInv
<1>2. SessionInv'
  BY SessionsKept
<1> QED BY <1>1, <1>2 DEF IInv

\* Where the links are as they were.
LEMMA LinksAsTheyWere ==
    ASSUME IInv, UNCHANGED <<invites, resets, uses>>
    PROVE  LinkInv' /\ (Users \subseteq Users' => ResetsHaveAccounts')
<1>1. \A p \in Places : LinkStays(p)
  BY DEF LinkStays, Link
<1>2. LinkInv'
  BY <1>1, LinksKept DEF IInv
<1> QED BY <1>2 DEF IInv, ResetsHaveAccounts

\* What a request under way has.
LEMMA UnderWay ==
    ASSUME TypeOK, NEW j \in Workers, job[j] # NoJob
    PROVE  /\ job[j] \in Jobs /\ job[j].id \in Ids /\ job[j].word \in Words \cup {NoWord} /\ job[j].flag \in BOOLEAN
           /\ job[j].number \in Nat /\ job[j].born \in Nat /\ job[j].late \in BOOLEAN
BY DEF TypeOK, Jobs

\* Whoever signs in gets a cookie with the number read with the password.
LEMMA SigningIn == ASSUME IInv, NEW j \in Workers, EndSignIn(j) PROVE IInv'
<1> DEFINE r == job[j]
           c == [id |-> r.id, version |-> r.number, born |-> r.born, typed |-> r.word]
<1>1. /\ TypeOK /\ r # NoJob /\ r.kind = "sign in" /\ r.id \in Ids /\ r.word \in Words \cup {NoWord}
      /\ r.number \in Nat /\ r.born \in Nat
  BY UnderWay DEF IInv, EndSignIn, At
<1>2. /\ users' = Rehashed(r) /\ cookie' \in {cookie, [cookie EXCEPT ![r.by] = c]} /\ job' = End(j)
      /\ UNCHANGED <<invites, resets, events, births, uses, crossed>>
  BY DEF EndSignIn
<1>3. OneRow(TRUE)
  <2>1. CASE r.flag /\ r.id \in Users /\ users[r.id].word = r.word /\ users[r.id].old
    <3>1. users' = [users EXCEPT ![r.id].old = FALSE]
      BY <1>2, <2>1 DEF Rehashed
    <3> QED BY <1>1, <2>1, <3>1, RowWrites
  <2>2. CASE ~(r.flag /\ r.id \in Users /\ users[r.id].word = r.word /\ users[r.id].old)
    BY <1>2, <2>2 DEF Rehashed, OneRow
  <2> QED BY <2>1, <2>2
<1>4. /\ users' \in [Ids -> Accounts \cup {NoUser}] /\ Continuing /\ Users' = Users
      /\ Admins' = Admins
  BY <1>1, <1>2, <1>3, RowWritten
<1>5. AreJobs(job') /\ \A k \in Workers : Inherits(job'[k], job[k])
  BY <1>1, <1>2, Ending
<1>6. /\ c \in Cookies /\ c.id = r.id /\ c.version = r.number /\ c.born = r.born /\ c.typed = r.word
  BY <1>1 DEF Cookies
<1>7. c.born <= births /\ Current(users'[c.id], c.born, c.version, c.typed)
  <2>1. r.born <= births /\ Current(users[r.id], r.born, r.number, r.word)
    BY <1>1 DEF IInv, SessionInv
  <2>2. Current(users'[r.id], r.born, r.number, r.word)
    BY <1>1, <1>4, <2>1, StaysCurrent
  <2> QED BY <1>6, <2>1, <2>2
<1> HIDE DEF c
<1>8. /\ cookie' \in [Browsers -> Cookies \cup {NoCookie}]
      /\ \A b \in Browsers : cookie'[b] = cookie[b] \/ cookie'[b] = c
  BY <1>1, <1>2, <1>6 DEF TypeOK
<1>9. TypeOK'
  BY <1>1, <1>2, <1>4, <1>5, <1>8 DEF TypeOK, AreJobs
<1>10. AdminInv'
  BY <1>1, <1>2, <1>4, <1>5, AdminsKept DEF IInv, TypeOK
<1> QED BY <1>2, <1>4, <1>5, <1>7, <1>8, <1>9, <1>10, LinksAsTheyWere, Assembled

\* A cookie made after what was written has no password that it was got with.
LEMMA EnteringNow == ASSUME IInv, NEW j \in Workers, Enter(j) PROVE IInv'
<1> DEFINE i == job[j].id
           c == [id |-> i, version |-> IF i \in Users THEN users[i].version ELSE 0,
                 born |-> IF i \in Users THEN users[i].born ELSE 0, typed |-> NoWord]
<1>1. TypeOK /\ births \in Nat /\ job[j] # NoJob /\ i \in Ids
  BY UnderWay DEF IInv, TypeOK, Enter
<1>2. /\ cookie' = [cookie EXCEPT ![job[j].by] = c] /\ job' = End(j)
      /\ UNCHANGED <<users, invites, resets, events, births, uses, crossed>>
  BY DEF Enter
<1>3. i \in Users => users[i] # NoUser /\ users[i].version \in Nat /\ users[i].born \in Nat /\ users[i].born <= births
  BY <1>1, RowsOf DEF Accounts, IInv, SessionInv
<1>4. c \in Cookies /\ c.born <= births /\ c.typed = NoWord
  BY <1>1, <1>3 DEF Cookies
<1> HIDE DEF c
<1>5. /\ cookie' \in [Browsers -> Cookies \cup {NoCookie}]
      /\ \A b \in Browsers : cookie'[b] = cookie[b] \/ cookie'[b] = c
  BY <1>1, <1>2, <1>4 DEF TypeOK
<1>6. AreJobs(job') /\ \A k \in Workers : Inherits(job'[k], job[k])
  BY <1>1, <1>2, Ending
<1>7. OneRow(TRUE)
  BY <1>2 DEF OneRow
<1>8. Continuing /\ Users' = Users /\ Admins' = Admins
  BY <1>1, <1>2, <1>7, RowWritten
<1>9. TypeOK'
  BY <1>1, <1>2, <1>5, <1>6 DEF TypeOK, AreJobs
<1>10. AdminInv'
  BY <1>1, <1>2, <1>6, <1>8, AdminsKept DEF IInv, TypeOK
<1> QED BY <1>2, <1>4, <1>5, <1>6, <1>8, <1>9, <1>10, LinksAsTheyWere, Assembled

\* One row of users at most, and the requests, change.
LEMMA OnlyARow ==
    ASSUME IInv, OneRow(TRUE), AreJobs(job'), \A k \in Workers : Inherits(job'[k], job[k]),
           UNCHANGED <<cookie, events, births, crossed>>, LinkInv',
           invites' \in [Ids -> Links \cup {NoLink}], resets' \in [Ids -> Links \cup {NoLink}],
           \A k \in Ids : resets'[k] # NoLink => resets[k] # NoLink /\ resets'[k].to = resets[k].to,
           uses' \in Seq(Nat)
    PROVE  IInv'
<1>1. TypeOK
  BY DEF IInv
<1>2. users' \in [Ids -> Accounts \cup {NoUser}] /\ Continuing /\ Users' = Users /\ Admins' = Admins
  BY <1>1, RowWritten
<1>3. TypeOK'
  BY <1>1, <1>2 DEF TypeOK, AreJobs
<1>4. AdminInv'
  BY <1>1, <1>2, AdminsKept DEF IInv, TypeOK
<1>5. ResetsHaveAccounts'
  BY <1>2 DEF IInv, ResetsHaveAccounts
<1> QED BY <1>2, <1>3, <1>4, <1>5, Assembled

\* A new password has a higher number, whatever was read before.
LEMMA SettingPassword == ASSUME IInv, NEW j \in Workers, EndPassword(j) PROVE IInv'
<1> DEFINE i == job[j].id
<1>1. /\ TypeOK /\ job[j] # NoJob /\ i \in Ids /\ job[j].word \in Words \cup {NoWord}
      /\ job[j].kind \notin Removing \cup {"sign in"}
  BY UnderWay DEF IInv, EndPassword, At, Removing
<1>2. /\ users' = IF i \in Users THEN WithPassword(i, job[j].word) ELSE users
      /\ job' = EnterNext(job, j, i) \/ job' = End(j)
      /\ UNCHANGED <<invites, resets, cookie, events, births, uses, crossed>>
  BY DEF EndPassword
<1>3. OneRow(TRUE)
  <2>1. CASE i \in Users
    BY <1>1, <1>2, <2>1, RowWrites
  <2>2. CASE i \notin Users
    BY <1>2, <2>2 DEF OneRow
  <2> QED BY <2>1, <2>2
<1>4. AreJobs(job') /\ \A k \in Workers : Inherits(job'[k], job[k])
  BY <1>1, <1>2, Ending, Entering, OthersStay
<1> QED BY <1>1, <1>2, <1>3, <1>4, LinksAsTheyWere, OnlyARow DEF TypeOK

\* So has an account whose other browsers are signed out.
LEMMA EndingSessions == ASSUME IInv, NEW j \in Workers, EndOthers(j) PROVE IInv'
<1> DEFINE i == job[j].id
<1>1. TypeOK /\ job[j] # NoJob /\ i \in Ids /\ job[j].kind \notin Removing \cup {"sign in"}
  BY UnderWay DEF IInv, EndOthers, At, Removing
<1>2. /\ users' = IF i \in Users THEN [users EXCEPT ![i].version = @ + 1] ELSE users
      /\ job' = EnterNext(job, j, i)
      /\ UNCHANGED <<invites, resets, cookie, events, births, uses, crossed>>
  BY DEF EndOthers
<1>3. OneRow(TRUE)
  <2>1. CASE i \in Users
    BY <1>1, <1>2, <2>1, RowWrites
  <2>2. CASE i \notin Users
    BY <1>2, <2>2 DEF OneRow
  <2> QED BY <2>1, <2>2
<1>4. AreJobs(job') /\ \A k \in Workers : Inherits(job'[k], job[k])
  BY <1>1, <1>2, Entering, OthersStay
<1> QED BY <1>1, <1>2, <1>3, <1>4, LinksAsTheyWere, OnlyARow DEF TypeOK

Marked(table, k) == [table EXCEPT ![k].used = TRUE]

\* What stays of the links of a table when one of them is used
NamesStay(new, table) ==
    \A l \in Ids : /\ new[l] # NoLink => table[l] # NoLink
                   /\ new[l].token = table[l].token /\ new[l].to = table[l].to
                   /\ new[l].used = FALSE => table[l].used = FALSE

\* A link that is marked used is otherwise as it was.
LEMMA MarkedLink ==
    ASSUME NEW table \in [Ids -> Links \cup {NoLink}], NEW k \in Ids, table[k] # NoLink, NEW new, new = Marked(table, k)
    PROVE  new \in [Ids -> Links \cup {NoLink}] /\ NamesStay(new, table) /\ new[k].used = TRUE
<1> DEFINE link == [table[k] EXCEPT !.used = TRUE]
<1>1. table[k] \in Links
  OBVIOUS
<1>2. link \in Links /\ link.token = table[k].token /\ link.to = table[k].to /\ link.used = TRUE
  BY <1>1 DEF Links
<1>3. new = [table EXCEPT ![k] = link]
  BY DEF Marked
<1> HIDE DEF link
<1>4. \A l \in Ids : new[l] = IF l = k THEN link ELSE table[l]
  BY <1>3
<1>5. new \in [Ids -> Links \cup {NoLink}]
  BY <1>2, <1>3
<1>6. ASSUME NEW l \in Ids
      PROVE  /\ new[l] # NoLink => table[l] # NoLink
             /\ new[l].token = table[l].token /\ new[l].to = table[l].to
             /\ new[l].used = FALSE => table[l].used = FALSE
  <2>1. CASE l = k
    BY <1>2, <1>4, <2>1
  <2>2. CASE l # k
    BY <1>4, <2>2
  <2> QED BY <2>1, <2>2
<1> QED BY <1>2, <1>4, <1>5, <1>6 DEF NamesStay

\* What is counted for a link that is used.
LEMMA UsedCounts ==
    ASSUME TypeOK, NEW table, NEW j \in Workers, uses' = Used(table, j), table[job[j].id].token \in 1..Len(uses)
    PROVE  /\ uses' \in Seq(Nat)
           /\ uses' = uses \/ uses' = [uses EXCEPT ![table[job[j].id].token] = @ + 1]
<1> DEFINE t == table[job[j].id].token
<1>1. uses' = uses \/ uses' = [uses EXCEPT ![t] = @ + 1]
  BY DEF Used
<1>2. uses[t] + 1 \in Nat /\ uses \in Seq(Nat)
  BY DEF TypeOK
<1>3. CASE uses' = uses
  BY <1>2, <1>3
<1>4. CASE uses' = [uses EXCEPT ![t] = uses[t] + 1]
  BY <1>2, <1>4, ExceptSeq
<1> QED BY <1>1, <1>3, <1>4

\* A reset link sets one password, and is used then.
LEMMA Resetting == ASSUME IInv, NEW j \in Workers, EndReset(j) PROVE IInv'
<1>1. /\ TypeOK /\ job[j] # NoJob /\ job[j].id \in Ids /\ job[j].word \in Words \cup {NoWord}
      /\ job[j].kind \notin Removing \cup {"sign in"} /\ LinkInv
  BY UnderWay DEF IInv, EndReset, At, Removing
<1> PICK k \in Ids : k = job[j].id
  BY <1>1
<1>2. UNCHANGED <<invites, cookie, events, births, crossed>>
  BY DEF EndReset
<1>3. CASE Unused(resets, k) /\ ~resets[k].expired
  <2>1. /\ users' = WithPassword(resets[k].to, job[j].word) /\ resets' = [resets EXCEPT ![k].used = TRUE]
        /\ uses' = Used(resets, j) /\ job' = EnterNext(job, j, resets[k].to)
        /\ resets[k] # NoLink /\ resets[k] \in Links /\ resets[k].used = FALSE
    BY <1>1, <1>3, RowsOf DEF EndReset, Unused, Links
  <2>2. resets[k].to \in Users /\ resets[k].to \in Ids
    BY <1>1, <2>1, RowsOf DEF IInv, ResetsHaveAccounts
  <2>3. OneRow(TRUE)
    BY <1>1, <2>1, <2>2, RowWrites
  <2>4. AreJobs(job') /\ \A w \in Workers : Inherits(job'[w], job[w])
    BY <1>1, <2>1, <2>2, Entering, OthersStay
  <2>5. resets' \in [Ids -> Links \cup {NoLink}] /\ NamesStay(resets', resets) /\ resets'[k].used = TRUE
    <3>1. resets \in [Ids -> Links \cup {NoLink}]
      BY <1>1 DEF TypeOK
    <3>2. resets' = Marked(resets, k)
      BY <2>1 DEF Marked
    <3>3. resets[k] # NoLink /\ k \in Ids
      BY <1>1, <2>1
    <3> QED BY <3>1, <3>2, <3>3, MarkedLink
  <2> PICK p \in Places : p = <<"resets", k>>
    BY <1>1 DEF Places
  <2>6. Link(p) = resets[k] /\ Link(p)' = resets'[k]
    BY DEF Link
  <2>7. \A q \in Places : LinkStays(q)
    BY <1>2, <2>5 DEF LinkStays, Link, Places, NamesStay
  <2>8. resets[k].token \in 1..Len(uses)
    BY <1>1, <2>1, <2>6 DEF LinkInv
  <2>9. /\ uses' \in Seq(Nat)
        /\ uses' = uses \/ uses' = [uses EXCEPT ![resets[k].token] = @ + 1]
    BY <1>1, <2>1, <2>8, UsedCounts
  <2>10. LinkInv'
    <3>1. Link(p) # NoLink /\ Link(p).used = FALSE /\ Link(p)'.used = TRUE
      BY <2>1, <2>5, <2>6
    <3>2. uses' = uses \/ uses' = [uses EXCEPT ![Link(p).token] = @ + 1]
      BY <2>6, <2>9
    <3> QED BY <1>1, <2>7, <3>1, <3>2, LinkUsed
  <2>11. invites' \in [Ids -> Links \cup {NoLink}]
    BY <1>1, <1>2 DEF TypeOK
  <2> QED BY <1>2, <2>3, <2>4, <2>5, <2>9, <2>10, <2>11, OnlyARow DEF NamesStay
<1>4. CASE ~(Unused(resets, k) /\ ~resets[k].expired)
  <2>1. job' = End(j) /\ UNCHANGED <<users, resets, uses>>
    BY <1>4 DEF EndReset
  <2>2. OneRow(TRUE)
    BY <2>1 DEF OneRow
  <2>3. AreJobs(job') /\ \A w \in Workers : Inherits(job'[w], job[w])
    BY <1>1, <2>1, Ending
  <2> QED BY <1>1, <1>2, <2>1, <2>2, <2>3, LinksAsTheyWere, OnlyARow DEF TypeOK
<1> QED BY <1>3, <1>4

\* Whoever removes an admin leaves one, unless another removal came between; and all the others are late now.
LEMMA RemovalLeavesOne ==
    ASSUME IInv, NEW j \in Workers, job[j] # NoJob, job[j].kind \in Removing,
           crossed' = (crossed \/ job[j].late), job' = EndBefore(j, Removing),
           Admins \ {job[j].id} \subseteq Admins'
    PROVE  AdminInv'
<1> DEFINE i == job[j].id
<1>1. /\ TypeOK /\ crossed \in BOOLEAN /\ job[j].late \in BOOLEAN
  BY UnderWay DEF IInv, TypeOK
<1>2. AreJobs(job') /\ \A k \in Workers : Inherits(job'[k], job[k])
  BY <1>1, EndingBefore
<1>3. JobsAreSound'
  BY <1>2, JobsKept DEF IInv
<1>4. \A k \in Workers : job'[k] # NoJob /\ job'[k].kind \in Removing => job'[k].late = TRUE
  BY <1>1, <1>3, EndingBefore DEF JobsAreSound
<1>5. CASE crossed \/ job[j].late
  BY <1>4, <1>5 DEF AdminInv, SomeAdminStays
<1>6. CASE ~(crossed \/ job[j].late)
  <2>1. \E k \in Admins : k # i
    BY <1>1, <1>6 DEF IInv, AdminInv
  <2>2. Admins' # {}
    BY <2>1
  <2> QED BY <1>4, <2>2 DEF AdminInv, SomeAdminStays
<1> QED BY <1>5, <1>6

\* Rights that are given or taken leave the account what else it has.
LEMMA SettingRights == ASSUME IInv, NEW j \in Workers, EndSetAdmin(j) PROVE IInv'
<1> DEFINE i == job[j].id
           a == job[j].kind = "promote"
<1>1. /\ TypeOK /\ job[j] # NoJob /\ i \in Ids /\ crossed \in BOOLEAN /\ job[j].late \in BOOLEAN
      /\ job[j].kind \in {"promote", "demote"}
  BY UnderWay DEF IInv, TypeOK, EndSetAdmin, At
<1>2. /\ users' = IF i \in Users THEN [users EXCEPT ![i].admin = a] ELSE users
      /\ crossed' = (crossed \/ job[j].late)
      /\ job' = IF job[j].kind = "demote" THEN EndBefore(j, Removing) ELSE End(j)
      /\ UNCHANGED <<invites, resets, cookie, events, births, uses>>
  BY DEF EndSetAdmin
<1>3. OneRow(FALSE)
  <2>1. CASE i \in Users
    BY <1>1, <1>2, <2>1, RowWrites
  <2>2. CASE i \notin Users
    BY <1>2, <2>2 DEF OneRow
  <2> QED BY <2>1, <2>2
<1>4. users' \in [Ids -> Accounts \cup {NoUser}] /\ Continuing /\ Users' = Users
  BY <1>1, <1>2, <1>3, RowWritten
<1>5. AreJobs(job') /\ \A k \in Workers : Inherits(job'[k], job[k])
  BY <1>1, <1>2, Ending, EndingBefore
<1>6. TypeOK'
  BY <1>1, <1>2, <1>4, <1>5 DEF TypeOK, AreJobs
<1>7. /\ \A k \in Admins \ {i} : k \in Admins'
      /\ a => Admins \subseteq Admins'
  <2>1. \A k \in Users \ {i} : users'[k] = users[k]
    BY <1>1, <1>2 DEF TypeOK, Users, Rows
  <2>2. ASSUME a, i \in Users
        PROVE  users'[i].admin
    BY <1>1, <1>2, <2>2, RowsOf DEF TypeOK, Accounts
  <2> QED BY <1>4, <2>1, <2>2 DEF Admins
<1>8. AdminInv'
  <2>1. CASE job[j].kind = "demote"
    BY <1>1, <1>2, <1>7, <2>1, RemovalLeavesOne DEF Removing
  <2>2. CASE job[j].kind = "promote"
    BY <1>1, <1>2, <1>4, <1>5, <1>7, <2>2, AdminsKept DEF IInv
  <2> QED BY <1>1, <2>1, <2>2
<1> QED BY <1>2, <1>4, <1>5, <1>6, <1>8, LinksAsTheyWere, Assembled

\* An account takes the links that reset its password with it.
LEMMA Deleting == ASSUME IInv, NEW j \in Workers, EndDelete(j) PROVE IInv'
<1> DEFINE i == job[j].id
<1>1. /\ TypeOK /\ job[j] # NoJob /\ i \in Ids /\ job[j].kind = "delete"
      /\ crossed \in BOOLEAN /\ job[j].late \in BOOLEAN
  BY UnderWay DEF IInv, TypeOK, EndDelete, At
<1>2. /\ users' = [users EXCEPT ![i] = NoUser]
      /\ resets' = [k \in Ids |-> IF resets[k] # NoLink /\ resets[k].to = i THEN NoLink ELSE resets[k]]
      /\ crossed' = (crossed \/ job[j].late) /\ job' = EndBefore(j, Removing)
      /\ UNCHANGED <<invites, cookie, events, births, uses>>
  BY DEF EndDelete
<1>3. /\ users' \in [Ids -> Accounts \cup {NoUser}]
      /\ \A k \in Ids : users'[k] = IF k = i THEN NoUser ELSE users[k]
  BY <1>1, <1>2 DEF TypeOK
<1>4. /\ resets' \in [Ids -> Links \cup {NoLink}]
      /\ \A k \in Ids : resets'[k] # NoLink => resets'[k] = resets[k] /\ resets[k].to # i
  BY <1>1, <1>2 DEF TypeOK
<1>5. AreJobs(job') /\ \A k \in Workers : Inherits(job'[k], job[k])
  BY <1>1, <1>2, EndingBefore
<1>6. TypeOK'
  BY <1>1, <1>2, <1>3, <1>4, <1>5 DEF TypeOK, AreJobs
<1>7. Continuing
  BY <1>3 DEF Continuing, Continues
<1>8. Users \ {i} \subseteq Users' /\ Admins \ {i} \subseteq Admins'
  BY <1>3 DEF Users, Rows, Admins
<1>9. AdminInv'
  BY <1>1, <1>2, <1>8, RemovalLeavesOne DEF Removing
<1>10. ResetsHaveAccounts'
  BY <1>4, <1>8 DEF IInv, ResetsHaveAccounts
<1>11. LinkInv'
  <2>1. \A p \in Places : LinkStays(p)
    BY <1>2, <1>4 DEF LinkStays, Link, Places
  <2> QED BY <1>2, <2>1, LinksKept DEF IInv
<1>12. JobsAreSound' /\ SessionInv'
  BY <1>2, <1>5, <1>7, JobsKept, SessionsKept DEF IInv
<1> QED BY <1>6, <1>9, <1>10, <1>11, <1>12 DEF IInv

\* A fresh link is one, with the token it was given.
LEMMA FreshLink ==
    ASSUME TypeOK, NEW to \in Emails \cup {Anyone} \cup Ids, NEW link, link = Fresh(NewToken, to)
    PROVE  /\ link \in Links /\ link.token = NewToken /\ link.to = to /\ link # NoLink
           /\ Append(uses, 0) \in Seq(Nat)
<1>1. Len(uses) \in Nat /\ Append(uses, 0) \in Seq(Nat)
  BY DEF TypeOK
<1>2. NewToken \in Nat
  BY <1>1 DEF NewToken
<1>3. link \in Links /\ link.token = NewToken /\ link.to = to
  BY <1>2 DEF Fresh, Links
<1> QED BY <1>1, <1>3, Distinct

\* An invite is a new link at an id that no invite has.
LEMMA Inviting == ASSUME IInv, NEW j \in Workers, EndInvite(j) PROVE IInv'
<1>1. TypeOK /\ job[j] # NoJob /\ job[j].kind = "invite" /\ job[j].email \in Emails \cup {Anyone}
  BY DEF IInv, TypeOK, EndInvite, At, Jobs
<1> PICK n \in Ids : n = NextId(invites)
  BY DEF EndInvite
<1> PICK link : link = Fresh(NewToken, job[j].email)
  OBVIOUS
<1>2. /\ invites' = [invites EXCEPT ![n] = link] /\ uses' = Append(uses, 0) /\ job' = EndBefore(j, Creating)
      /\ UNCHANGED <<users, resets, cookie, events, births, crossed>>
  BY DEF EndInvite
<1>3. link \in Links /\ link.token = NewToken /\ link # NoLink /\ uses' \in Seq(Nat)
  BY <1>1, <1>2, FreshLink
<1>4. /\ invites' \in [Ids -> Links \cup {NoLink}]
      /\ \A k \in Ids : invites'[k] = IF k = n THEN link ELSE invites[k]
  BY <1>1, <1>2, <1>3 DEF TypeOK
<1> PICK p \in Places : p = <<"invites", n>>
  BY DEF Places
<1>5. Link(p)' = link /\ \A q \in Places \ {p} : LinkStays(q)
  <2>1. Link(p)' = invites'[n]
    BY DEF Link
  <2>2. ASSUME NEW q \in Places \ {p}
        PROVE  Link(q)' = Link(q)
    BY <1>2, <1>4 DEF Link, Places
  <2> QED BY <1>4, <2>1, <2>2 DEF LinkStays
<1>6. LinkInv'
  BY <1>1, <1>2, <1>3, <1>5, LinkMade DEF IInv
<1>7. AreJobs(job') /\ \A k \in Workers : Inherits(job'[k], job[k])
  BY <1>1, <1>2, EndingBefore
<1>8. OneRow(TRUE)
  BY <1>2 DEF OneRow
<1>9. resets' \in [Ids -> Links \cup {NoLink}]
  BY <1>1, <1>2 DEF TypeOK
<1> QED BY <1>2, <1>3, <1>4, <1>6, <1>7, <1>8, <1>9, OnlyARow

\* Only the links change, and no more than an event passes.
LEMMA OnlyLinks ==
    ASSUME IInv, UNCHANGED <<users, cookie, job, births, crossed>>, Event, LinkInv',
           invites' \in [Ids -> Links \cup {NoLink}], resets' \in [Ids -> Links \cup {NoLink}],
           ResetsHaveAccounts', uses' \in Seq(Nat)
    PROVE  IInv'
<1>1. OneRow(TRUE)
  BY DEF OneRow
<1>2. TypeOK /\ Continuing /\ Users' = Users /\ Admins' = Admins
  BY <1>1, RowWritten DEF IInv
<1>3. \A k \in Workers : Inherits(job'[k], job[k])
  BY DEF Inherits
<1>4. TypeOK'
  BY <1>2, Parameters DEF TypeOK, Event
<1>5. AdminInv'
  BY <1>2, <1>3, AdminsKept DEF IInv, TypeOK
<1> QED BY <1>2, <1>3, <1>4, <1>5, Assembled

\* A reset link is a new one for an account that is there.
LEMMA SendingLink == ASSUME IInv, NEW e \in Emails, SendResetLink(e) PROVE IInv'
<1> PICK i \in Users :
        LET kept == [k \in Ids |-> IF Usable(resets[k]) /\ resets[k].to # i THEN resets[k] ELSE NoLink]
        IN /\ NextId(kept) \in Ids
           /\ resets' = [kept EXCEPT ![NextId(kept)] = Fresh(NewToken, i)]
  BY DEF SendResetLink
<1> DEFINE kept == [k \in Ids |-> IF Usable(resets[k]) /\ resets[k].to # i THEN resets[k] ELSE NoLink]
<1>1. /\ TypeOK /\ LinkInv /\ Event /\ uses' = Append(uses, 0)
      /\ UNCHANGED <<users, invites, cookie, job, births, crossed>>
  BY DEF IInv, SendResetLink
<1> PICK n \in Ids : n = NextId(kept)
  OBVIOUS
<1> PICK link : link = Fresh(NewToken, i)
  OBVIOUS
<1>2. i \in Ids
  BY <1>1, RowsOf
<1>3. link \in Links /\ link.token = NewToken /\ link.to = i /\ link # NoLink /\ uses' \in Seq(Nat)
  BY <1>1, <1>2, FreshLink
<1>4. resets' = [kept EXCEPT ![n] = link]
  OBVIOUS
<1>5. /\ kept \in [Ids -> Links \cup {NoLink}]
      /\ \A k \in Ids : kept[k] # NoLink => kept[k] = resets[k]
  BY <1>1 DEF TypeOK
<1> HIDE DEF kept
<1>6. /\ resets' \in [Ids -> Links \cup {NoLink}]
      /\ \A k \in Ids : resets'[k] = IF k = n THEN link ELSE kept[k]
  BY <1>3, <1>4, <1>5
<1> PICK p \in Places : p = <<"resets", n>>
  BY DEF Places
<1>7. Link(p)' = link /\ \A q \in Places \ {p} : LinkStays(q)
  <2>1. Link(p)' = resets'[n]
    BY DEF Link
  <2>2. ASSUME NEW q \in Places \ {p}
        PROVE  Link(q)' # NoLink => Link(q)' = Link(q)
    BY <1>1, <1>5, <1>6 DEF Link, Places
  <2> QED BY <1>6, <2>1, <2>2 DEF LinkStays
<1>8. LinkInv'
  BY <1>1, <1>3, <1>7, LinkMade
<1>9. ResetsHaveAccounts'
  <2>1. Users' = Users
    BY <1>1 DEF Users, Rows
  <2> QED BY <1>3, <1>5, <1>6, <2>1 DEF IInv, ResetsHaveAccounts
<1>10. invites' \in [Ids -> Links \cup {NoLink}]
  BY <1>1 DEF TypeOK
<1> QED BY <1>1, <1>3, <1>6, <1>8, <1>9, <1>10, OnlyLinks

\* An invite that is cancelled is gone.
LEMMA Cancelling == ASSUME IInv, NEW b \in Browsers, NEW k \in Ids, CancelInvite(b, k) PROVE IInv'
<1>1. /\ TypeOK /\ Event /\ invites' = [invites EXCEPT ![k] = NoLink]
      /\ UNCHANGED <<users, resets, cookie, job, births, uses, crossed>>
  BY DEF IInv, CancelInvite
<1>2. /\ invites' \in [Ids -> Links \cup {NoLink}] /\ resets' \in [Ids -> Links \cup {NoLink}]
      /\ uses' \in Seq(Nat) /\ \A l \in Ids : invites'[l] # NoLink => invites'[l] = invites[l]
  BY <1>1 DEF TypeOK
<1>3. \A p \in Places : LinkStays(p)
  BY <1>1, <1>2 DEF LinkStays, Link, Places
<1>4. LinkInv'
  BY <1>1, <1>3, LinksKept DEF IInv
<1>5. ResetsHaveAccounts'
  BY <1>1 DEF IInv, ResetsHaveAccounts, Users, Rows
<1> QED BY <1>1, <1>2, <1>4, <1>5, OnlyLinks

Lapsed(table, k) == [table EXCEPT ![k].expired = TRUE]

\* A link that has expired names what it named.
LEMMA LapsedLink ==
    ASSUME NEW table \in [Ids -> Links \cup {NoLink}], NEW k \in Ids, table[k] # NoLink, NEW new, new = Lapsed(table, k)
    PROVE  new \in [Ids -> Links \cup {NoLink}] /\ NamesStay(new, table)
<1> DEFINE link == [table[k] EXCEPT !.expired = TRUE]
<1>1. table[k] \in Links
  OBVIOUS
<1>2. link \in Links /\ link.token = table[k].token /\ link.to = table[k].to /\ link.used = table[k].used
  BY <1>1 DEF Links
<1>3. new = [table EXCEPT ![k] = link]
  BY DEF Lapsed
<1> HIDE DEF link
<1>4. \A l \in Ids : new[l] = IF l = k THEN link ELSE table[l]
  BY <1>3
<1>5. new \in [Ids -> Links \cup {NoLink}]
  BY <1>2, <1>3
<1>6. ASSUME NEW l \in Ids
      PROVE  /\ new[l] # NoLink => table[l] # NoLink
             /\ new[l].token = table[l].token /\ new[l].to = table[l].to
             /\ new[l].used = FALSE => table[l].used = FALSE
  <2>1. CASE l = k
    BY <1>2, <1>4, <2>1
  <2>2. CASE l # k
    BY <1>4, <2>2
  <2> QED BY <2>1, <2>2
<1> QED BY <1>5, <1>6 DEF NamesStay

\* A link that expires is otherwise the same.
LEMMA Expiring == ASSUME IInv, NEW k \in Ids, Expire(k) PROVE IInv'
<1>1. /\ TypeOK /\ Event /\ UNCHANGED <<users, cookie, job, births, uses, crossed>>
      /\ invites \in [Ids -> Links \cup {NoLink}] /\ resets \in [Ids -> Links \cup {NoLink}] /\ uses \in Seq(Nat)
  BY DEF IInv, TypeOK, Expire
<1>2. /\ invites' \in [Ids -> Links \cup {NoLink}] /\ NamesStay(invites', invites)
      /\ resets' \in [Ids -> Links \cup {NoLink}] /\ NamesStay(resets', resets)
  <2>1. CASE invites[k] # NoLink /\ invites' = Lapsed(invites, k) /\ resets' = resets
    <3>1. invites' \in [Ids -> Links \cup {NoLink}] /\ NamesStay(invites', invites)
      BY <1>1, <2>1, LapsedLink
    <3> QED BY <1>1, <2>1, <3>1 DEF NamesStay
  <2>2. CASE resets[k] # NoLink /\ resets' = Lapsed(resets, k) /\ invites' = invites
    <3>1. resets' \in [Ids -> Links \cup {NoLink}] /\ NamesStay(resets', resets)
      BY <1>1, <2>2, LapsedLink
    <3> QED BY <1>1, <2>2, <3>1 DEF NamesStay
  <2> QED BY <2>1, <2>2 DEF Expire, Usable, Lapsed
<1>3. \A p \in Places : LinkStays(p)
  BY <1>2 DEF LinkStays, Link, Places, NamesStay
<1>4. LinkInv'
  BY <1>1, <1>3, LinksKept DEF IInv
<1>5. ResetsHaveAccounts'
  BY <1>1, <1>2 DEF IInv, ResetsHaveAccounts, Users, Rows, NamesStay
<1> QED BY <1>1, <1>2, <1>4, <1>5, OnlyLinks

\* A browser without its cookie has nothing to be sound.
LEMMA Leaving == ASSUME IInv, NEW b \in Browsers, Leave(b) PROVE IInv'
<1>1. /\ TypeOK /\ Event /\ cookie' = [cookie EXCEPT ![b] = NoCookie]
      /\ UNCHANGED <<users, invites, resets, job, births, uses, crossed>>
  BY DEF IInv, Leave
<1>2. /\ cookie' \in [Browsers -> Cookies \cup {NoCookie}]
      /\ \A c \in Browsers : cookie'[c] # NoCookie => cookie'[c] = cookie[c]
  BY <1>1 DEF TypeOK
<1>3. OneRow(TRUE)
  BY <1>1 DEF OneRow
<1>4. Continuing /\ Users' = Users /\ Admins' = Admins
  BY <1>1, <1>3, RowWritten
<1>5. \A k \in Workers : Inherits(job'[k], job[k])
  BY <1>1 DEF Inherits
<1>6. TypeOK'
  BY <1>1, <1>2, Parameters DEF TypeOK, Event
<1>7. AdminInv'
  BY <1>1, <1>4, <1>5, AdminsKept DEF IInv, TypeOK
<1> QED BY <1>1, <1>2, <1>4, <1>5, <1>6, <1>7, LinksAsTheyWere, Assembled

\* An account more, for a request that knew its address.
LEMMA Inserting ==
    ASSUME IInv, NEW j \in Workers, job[j] # NoJob, job[j].kind \in Making, Insert(j),
           job' \in {EndBefore(j, Creating), EnterNext(EndBefore(j, Creating), j, NextId(users))},
           UNCHANGED <<resets, cookie, events>>, LinkInv', crossed' \in BOOLEAN, crossed => crossed',
           Users # {} \/ job[j].flag \/ crossed',
           invites' \in [Ids -> Links \cup {NoLink}], uses' \in Seq(Nat)
    PROVE  IInv'
<1>1. TypeOK /\ JobsAreSound /\ births \in Nat /\ crossed \in BOOLEAN
  BY DEF IInv, TypeOK
<1> PICK n : n = NextId(users)
  OBVIOUS
<1>2. /\ n \in Ids /\ users[n] = NoUser
      /\ users' \in [Ids -> Accounts \cup {NoUser}] /\ births' = births + 1 /\ births' \in Nat
      /\ users'[n].born = births' /\ users'[n].admin = job[j].flag
      /\ \A k \in Ids \ {n} : users'[k] = users[k]
      /\ Users' = Users \cup {n}
      /\ Admins \subseteq Admins'
  BY <1>1, InsertedRow
<1>3. Continuing
  <2> SUFFICES ASSUME NEW k \in Ids, users'[k] # NoUser PROVE Continues(k)
    BY DEF Continuing
  <2>1. CASE k = n
    BY <1>2, <2>1 DEF Continues
  <2>2. CASE k # n
    BY <1>2, <2>2 DEF Continues
  <2> QED BY <2>1, <2>2
<1>4. AreJobs(job') /\ \A k \in Workers : Inherits(job'[k], job[k])
  <2>1. CASE job' = EndBefore(j, Creating)
    BY <1>1, <2>1, EndingBefore
  <2>2. CASE job' = EnterNext(EndBefore(j, Creating), j, n)
    <3>1. job[j].kind \notin Removing \cup {"sign in"}
      BY DEF Making, Removing
    <3> QED BY <1>1, <1>2, <2>2, <3>1, Entering, OthersStay
  <2> QED BY <2>1, <2>2
<1>5. TypeOK'
  BY <1>1, <1>2, <1>4 DEF TypeOK, AreJobs
<1>6. SessionInv' /\ JobsAreSound'
  BY <1>1, <1>2, <1>3, <1>4, SessionsKept, JobsKept
<1>7. ResetsHaveAccounts'
  BY <1>2 DEF IInv, ResetsHaveAccounts
<1>8. AdminInv'
  <2>1. Users # {} \/ Admins' # {} \/ crossed'
    BY <1>2 DEF Admins
  <2> QED BY <1>1, <1>2, <1>4, <2>1, AdminsKept DEF IInv
<1> QED BY <1>5, <1>6, <1>7, <1>8 DEF IInv

\* A request that gives up ends, and nothing else changes.
LEMMA GivingUp ==
    ASSUME IInv, NEW j \in Workers, job' = End(j),
           UNCHANGED <<users, invites, resets, cookie, events, births, uses, crossed>>
    PROVE  IInv'
<1>1. TypeOK
  BY DEF IInv
<1>2. OneRow(TRUE)
  BY DEF OneRow
<1>3. AreJobs(job') /\ \A k \in Workers : Inherits(job'[k], job[k])
  BY <1>1, Ending
<1> QED BY <1>1, <1>2, <1>3, LinksAsTheyWere, OnlyARow DEF TypeOK

\* The first account is an admin's, or nothing is written.
LEMMA SettingUp == ASSUME IInv, NEW j \in Workers, EndSetUp(j) PROVE IInv'
<1>1. job[j] # NoJob /\ job[j].kind = "setup" /\ UNCHANGED <<invites, resets, cookie, events, uses, crossed>>
  BY DEF EndSetUp, At
<1>2. CASE Users # {}
  BY <1>1, <1>2, GivingUp DEF EndSetUp
<1>3. CASE Users = {}
  <2>1. Insert(j) /\ job' = EnterNext(EndBefore(j, Creating), j, NextId(users))
    BY <1>3 DEF EndSetUp
  <2>2. job[j].flag
    BY <1>1 DEF IInv, JobsAreSound
  <2>3. invites' \in [Ids -> Links \cup {NoLink}] /\ uses' \in Seq(Nat) /\ crossed' \in BOOLEAN
    BY <1>1 DEF IInv, TypeOK
  <2>4. LinkInv'
    BY <1>1, LinksAsTheyWere
  <2> QED BY <1>1, <2>1, <2>2, <2>3, <2>4, Inserting DEF Making
<1> QED BY <1>2, <1>3

\* An account made by an admin, on the command line or by a provider's sign-in.
LEMMA CreatingOne == ASSUME IInv, NEW j \in Workers, EndCreate(j) \/ EndComing(j) PROVE IInv'
<1>1. /\ job[j] # NoJob /\ job[j].kind \in Making /\ Insert(j)
      /\ job' \in {EndBefore(j, Creating), EnterNext(EndBefore(j, Creating), j, NextId(users))}
      /\ crossed' = (crossed \/ (Users = {} /\ ~job[j].flag))
      /\ UNCHANGED <<invites, resets, cookie, events, uses>>
  BY DEF EndCreate, EndComing, At, Making
<1>2. /\ invites' \in [Ids -> Links \cup {NoLink}] /\ uses' \in Seq(Nat)
      /\ crossed \in BOOLEAN /\ job[j].flag \in BOOLEAN
  BY <1>1, UnderWay DEF IInv, TypeOK
<1>3. LinkInv'
  BY <1>1, LinksAsTheyWere
<1>4. crossed' \in BOOLEAN /\ (crossed => crossed') /\ (Users # {} \/ job[j].flag \/ crossed')
  BY <1>1, <1>2
<1> QED BY <1>1, <1>2, <1>3, <1>4, Inserting

\* An invite makes one account, and is used then, or nothing is written.
LEMMA Accepting == ASSUME IInv, NEW j \in Workers, EndAccept(j) PROVE IInv'
<1>1. /\ TypeOK /\ LinkInv /\ job[j] # NoJob /\ job[j].id \in Ids /\ job[j].kind \in Making
      /\ crossed \in BOOLEAN /\ UNCHANGED <<resets, cookie, events>>
  BY UnderWay DEF IInv, TypeOK, EndAccept, At, Making
<1> PICK k \in Ids : k = job[j].id
  BY <1>1
<1>2. CASE Unused(invites, k)
  <2>1. /\ Insert(j) /\ invites' = [invites EXCEPT ![k].used = TRUE] /\ uses' = Used(invites, j)
        /\ job' = EnterNext(EndBefore(j, Creating), j, NextId(users)) /\ crossed' = (crossed \/ Users = {})
        /\ invites[k] # NoLink /\ invites[k] \in Links /\ invites[k].used = FALSE
    BY <1>1, <1>2, RowsOf DEF EndAccept, Unused, Links
  <2>2. invites' \in [Ids -> Links \cup {NoLink}] /\ NamesStay(invites', invites) /\ invites'[k].used = TRUE
    <3>1. invites \in [Ids -> Links \cup {NoLink}]
      BY <1>1 DEF TypeOK
    <3>2. invites' = Marked(invites, k)
      BY <2>1 DEF Marked
    <3>3. invites[k] # NoLink
      BY <2>1
    <3> QED BY <3>1, <3>2, <3>3, MarkedLink
  <2> PICK p \in Places : p = <<"invites", k>>
    BY <1>1 DEF Places
  <2>3. Link(p) = invites[k] /\ Link(p)' = invites'[k]
    BY DEF Link
  <2>4. \A q \in Places : LinkStays(q)
    BY <1>1, <2>2 DEF LinkStays, Link, Places, NamesStay
  <2>5. invites[k].token \in 1..Len(uses)
    BY <1>1, <2>1, <2>3 DEF LinkInv
  <2>6. /\ uses' \in Seq(Nat)
        /\ uses' = uses \/ uses' = [uses EXCEPT ![invites[k].token] = @ + 1]
    BY <1>1, <2>1, <2>5, UsedCounts
  <2>7. LinkInv'
    <3>1. Link(p) # NoLink /\ Link(p).used = FALSE /\ Link(p)'.used = TRUE
      BY <2>1, <2>2, <2>3
    <3>2. uses' = uses \/ uses' = [uses EXCEPT ![Link(p).token] = @ + 1]
      BY <2>3, <2>6
    <3> QED BY <1>1, <2>4, <3>1, <3>2, LinkUsed
  <2>8. crossed' \in BOOLEAN /\ (crossed => crossed') /\ (Users # {} \/ crossed')
    BY <1>1, <2>1
  <2> QED BY <1>1, <2>1, <2>2, <2>6, <2>7, <2>8, Inserting
<1>3. CASE ~Unused(invites, k)
  BY <1>1, <1>3, GivingUp DEF EndAccept
<1> QED BY <1>2, <1>3

-----------------------------------------------------------------------------
(* The invariant                                                           *)

\* The invariant holds at first.
LEMMA InitIInv == Init => IInv
<1> SUFFICES ASSUME Init PROVE IInv
  OBVIOUS
<1> PICK n \in 0..2, to \in Emails \cup {Anyone}, w \in Words, e \in [1..2 -> Emails] :
        /\ users = [i \in Ids |-> IF i <= n THEN First(e[i], w, i) ELSE NoUser]
        /\ births = n
        /\ invites = [k \in Ids |-> IF k = 1 /\ n = 1 THEN Fresh(1, to) ELSE NoLink]
        /\ resets = [k \in Ids |-> IF k = 1 /\ n = 2 THEN Fresh(1, 1) ELSE NoLink]
  BY DEF Init
<1>1. 1 \in Ids /\ \A i \in Ids : i \in Nat \ {0}
  BY Parameters DEF Ids
<1>2. /\ cookie \in [Browsers -> IF Users = {} THEN {NoCookie} ELSE {SignedIn(i) : i \in Users}]
      /\ job = [j \in Workers |-> NoJob] /\ events = 0 /\ crossed = FALSE /\ uses = <<0>>
  BY DEF Init
<1>3. ASSUME NEW i \in Ids, i <= n
      PROVE  /\ First(e[i], w, i) \in Accounts /\ First(e[i], w, i).born = i /\ First(e[i], w, i).word = w
             /\ First(e[i], w, i).version = 0 /\ First(e[i], w, i).admin = TRUE
  <2>1. e[i] \in Emails
    BY <1>1, <1>3
  <2> QED BY <1>1, <2>1 DEF First, Accounts
<1>4. /\ users \in [Ids -> Accounts \cup {NoUser}]
      /\ \A i \in Ids : users[i] # NoUser => /\ i <= n /\ users[i].born = i /\ users[i].word = w
                                             /\ users[i].version = 0 /\ users[i].admin = TRUE
  BY <1>3
<1>5. /\ Fresh(1, to) \in Links /\ Fresh(1, to).token = 1
      /\ Fresh(1, 1) \in Links /\ Fresh(1, 1).token = 1 /\ Fresh(1, 1).to = 1
  BY <1>1 DEF Fresh, Links
<1>6. /\ invites \in [Ids -> Links \cup {NoLink}] /\ resets \in [Ids -> Links \cup {NoLink}]
      /\ \A k \in Ids : invites[k] # NoLink => k = 1 /\ n = 1 /\ invites[k].token = 1
      /\ \A k \in Ids : resets[k] # NoLink => k = 1 /\ n = 2 /\ resets[k].token = 1 /\ resets[k].to = 1
  BY <1>5
<1>7. \A b \in Browsers : cookie[b] # NoCookie =>
         \E i \in Users : cookie[b] = SignedIn(i)
  BY <1>2
<1>8. \A i \in Users : /\ i \in Ids /\ users[i] \in Accounts /\ SignedIn(i) \in Cookies
                       /\ SignedIn(i).id = i /\ SignedIn(i).born = users[i].born /\ SignedIn(i).version = users[i].version
                       /\ SignedIn(i).typed = users[i].word
  <2> TAKE i \in Users
  <2>1. i \in Ids /\ users[i] # NoUser /\ users[i] \in Accounts
    BY <1>4, Distinct DEF Users, Rows
  <2>2. i \in Nat /\ users[i].word \in Words \cup {NoWord}
    BY <1>1, <2>1 DEF Accounts
  <2> QED BY <1>4, <2>1, <2>2 DEF SignedIn, Cookies
<1>9. TypeOK
  <2>1. cookie \in [Browsers -> Cookies \cup {NoCookie}]
    BY <1>2, <1>8
  <2>2. events \in 0..MaxEvents /\ births \in Nat
    BY <1>2, Parameters
  <2>3. uses \in Seq(Nat)
    BY <1>2
  <2>5. crossed \in BOOLEAN
    BY <1>2
  <2>4. job \in [Workers -> Jobs \cup {NoJob}]
    BY <1>2
  <2> QED BY <1>4, <1>6, <2>1, <2>2, <2>3, <2>4, <2>5 DEF TypeOK
<1>10. JobsAreSound
  BY <1>2 DEF JobsAreSound
<1>11. ResetsHaveAccounts
  <2>1. n = 2 => users[1] = First(e[1], w, 1)
    BY <1>1
  <2>2. First(e[1], w, 1) \in Accounts
    BY DEF First, Accounts
  <2>3. n = 2 => 1 \in Users
    BY <1>1, <2>1, <2>2, Distinct DEF Users, Rows
  <2> QED BY <1>6, <2>3 DEF ResetsHaveAccounts
<1>12. LinkInv
  <2>1. /\ Len(uses) = 1 /\ uses[1] = 0 /\ DOMAIN uses = 1..1
    BY <1>2
  <2>2. LinksWorkOnce
    BY <2>1 DEF LinksWorkOnce
  <2>3. \A p \in Places : Link(p) # NoLink => Link(p).token = 1 /\ p = <<IF n = 1 THEN "invites" ELSE "resets", 1>>
    BY <1>6 DEF Places, Link
  <2> QED BY <2>1, <2>2, <2>3 DEF LinkInv
<1>13. SessionInv
  <2>1. \A i \in Ids : users[i] # NoUser => users[i].born <= births
    BY <1>4
  <2>2. ASSUME NEW b \in Browsers, cookie[b] # NoCookie
        PROVE  /\ cookie[b].born <= births
               /\ Current(users[cookie[b].id], cookie[b].born, cookie[b].version, cookie[b].typed)
    <3> PICK i \in Users : cookie[b] = SignedIn(i)
      BY <1>7, <2>2
    <3>1. users[i] # NoUser /\ users[i].version = 0
      BY <1>4, <1>8, Distinct DEF Users, Rows
    <3> QED BY <1>8, <2>1, <3>1 DEF Current
  <2> QED BY <1>2, <2>1, <2>2 DEF SessionInv
<1>14. AdminInv
  <2>1. \A i \in Users : i \in Admins
    BY <1>4, <1>8, Distinct DEF Admins, Users, Rows
  <2> QED BY <1>2, <2>1 DEF AdminInv, SomeAdminStays
<1> QED BY <1>9, <1>10, <1>11, <1>12, <1>13, <1>14 DEF IInv

\* And every step keeps it.
LEMMA StepIInv == IInv /\ [Next]_vars => IInv'
<1> SUFFICES ASSUME IInv, [Next]_vars PROVE IInv'
  OBVIOUS
<1>1. ASSUME NEW j \in Workers, Request(j) PROVE IInv'
  BY <1>1, Requesting, Beginning
<1>2. ASSUME NEW j \in Workers, GoOn(j) PROVE IInv'
  BY <1>2, SigningIn, SettingUp, CreatingOne, Accepting, Inviting, SettingRights, Deleting, SettingPassword,
     EndingSessions, Resetting, EnteringNow DEF GoOn
<1>3. ASSUME NEW e \in Emails, SendResetLink(e) PROVE IInv'
  BY <1>3, SendingLink
<1>4. ASSUME NEW k \in Ids, Expire(k) \/ \E b \in Browsers : CancelInvite(b, k) PROVE IInv'
  BY <1>4, Expiring, Cancelling
<1>5. ASSUME NEW b \in Browsers, Leave(b) PROVE IInv'
  BY <1>5, Leaving
<1>6. CASE UNCHANGED vars
  <2>1. UNCHANGED <<users, invites, resets, cookie, job, events, births, uses, crossed>>
    BY <1>6 DEF vars
  <2>2. OneRow(TRUE)
    BY <2>1 DEF OneRow
  <2>3. AreJobs(job') /\ \A k \in Workers : Inherits(job'[k], job[k])
    BY <2>1 DEF IInv, TypeOK, AreJobs, Inherits
  <2> QED BY <2>1, <2>2, <2>3, LinksAsTheyWere, OnlyARow DEF IInv, TypeOK
<1> QED BY <1>1, <1>2, <1>3, <1>4, <1>5, <1>6 DEF Next

\* The invariant holds in every state.
THEOREM Invariance == Spec => []IInv
BY InitIInv, StepIInv, PTL DEF Spec

\* Every state is of the types the module declares.
THEOREM TypeCorrect == Spec => []TypeOK
<1>1. IInv => TypeOK
  BY DEF IInv
<1> QED BY <1>1, Invariance, PTL

\* A browser that signed in with a password is signed out when the password is
\* another, for any number of requests that cross the change (authenticate, set_password).
THEOREM PasswordsEndSessions == Spec => []PasswordEndsSessions
<1>1. IInv => PasswordEndsSessions
  <2> SUFFICES ASSUME IInv, NEW b \in Browsers, Counts(b), cookie[b].typed # NoWord,
                      users[cookie[b].id].born = cookie[b].born
               PROVE  users[cookie[b].id].word = cookie[b].typed
    BY DEF PasswordEndsSessions
  <2>1. Current(users[cookie[b].id], cookie[b].born, cookie[b].version, cookie[b].typed)
    BY DEF IInv, SessionInv, Counts
  <2>2. users[cookie[b].id] # NoUser /\ users[cookie[b].id].version = cookie[b].version
    BY RowsOf DEF IInv, Counts
  <2> QED BY <2>1, <2>2 DEF Current
<1> QED BY <1>1, Invariance, PTL

\* Each link does what it is for once at most, for any number of tabs that use it (invites.use, password_resets.use).
THEOREM NoLinkWorksTwice == Spec => []LinksWorkOnce
<1>1. IInv => LinksWorkOnce
  BY DEF IInv, LinkInv
<1> QED BY <1>1, Invariance, PTL

\* An admin stays while there are accounts, for any number of them, unless removals cross (set_admin, delete_account).
THEOREM AnAdminStays == Spec => []SomeAdminStays
<1>1. IInv => SomeAdminStays
  BY DEF IInv, AdminInv
<1> QED BY <1>1, Invariance, PTL
=============================================================================
