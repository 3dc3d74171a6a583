------------------------------ MODULE Accounts ------------------------------
(***************************************************************************)
(* Accounts and what lets a person into one: first set-up, accounts made   *)
(* by an admin or on the command line, invite links, links that reset a    *)
(* password, sign-in with a password, and the cookies of browsers          *)
(* (app/services/accounts.py, app/web/auth.py, app/web/api/accounts.py,    *)
(* app/db/repositories/users.py, invites.py, password_resets.py).          *)
(*                                                                         *)
(* A request looks first, hashes a password or waits for the write lock,   *)
(* writes, and reads the account's session number for its cookie last: a   *)
(* transaction's SELECTs before its first write hold no lock (database.py).*)
(* Who may come in through another provider is the subject of SignIn; here *)
(* such a sign-in only makes an account.                                   *)
(***************************************************************************)
EXTENDS Integers, Sequences, FiniteSets, FiniteSetsExt

CONSTANTS MaxId,     \* bound: ids of accounts, and of links, are 1..MaxId
          Emails, Words, \* addresses and passwords
          Browsers,
          Workers,   \* requests that may be under way at once
          Limit,     \* ACCOUNT_LIMIT
          MaxEvents, \* bound: requests, and links that expire
          NoUser, NoLink, NoCookie, NoJob, NoWord, Anyone

ASSUME Parameters == MaxId \in Nat \ {0} /\ Limit \in Nat \ {0} /\ MaxEvents \in Nat

Ids == 1..MaxId

\* A row of users; `born` tells the accounts apart that had its id one after another
Accounts == [email : Emails, admin : BOOLEAN, word : Words \cup {NoWord},
             old : BOOLEAN,  \* its hash was made with weaker settings: needs_rehash
             version : Nat, born : Nat]
\* A row of invites (`to`: whose address it is for) or of password_resets (`to`: the account's id)
Links == [token : Nat, to : Emails \cup {Anyone} \cup Ids, used : BOOLEAN, expired : BOOLEAN]
\* The signed cookie: account and session number; and, for the properties, the account and password it was got with
Cookies == [id : Ids, version : Nat, born : Nat, typed : Words \cup {NoWord}]

Removing == {"demote", "delete"}
Creating == {"account", "accept", "sso", "invite"}
Jobs == [kind : Removing \cup Creating \cup {"setup", "cli", "promote", "sign in", "change", "others", "admin reset", "reset"},
         step : {"read", "enter"}, by : Browsers \cup {Anyone}, id : Ids, email : Emails \cup {Anyone},
         word : Words \cup {NoWord}, flag : BOOLEAN, number : Nat, born : Nat,
         late : BOOLEAN]  \* another of its group wrote since this one looked

ASSUME Distinct == {NoUser, NoLink} \cap (Accounts \cup Links) = {} /\ NoCookie \notin Cookies /\ NoJob \notin Jobs
                   /\ NoWord \notin Words /\ Anyone \notin Emails

Fresh(token, to) == [token |-> token, to |-> to, used |-> FALSE, expired |-> FALSE]

VARIABLES users, invites, resets, cookie, job,
          events, births, \* so far
          uses,    \* how often each link did what it is for; tokens are random, no two alike: its place here
          crossed  \* admins were removed at once, or whoever runs the server began with an ordinary account

vars == <<users, invites, resets, cookie, job, events, births, uses, crossed>>

Rows(table) == {i \in Ids : table[i] \notin {NoUser, NoLink}}
Users == Rows(users)
Admins == {i \in Users : users[i].admin}

\* INTEGER PRIMARY KEY without AUTOINCREMENT: one more than the largest id in use
NextId(table) == 1 + Max(Rows(table) \cup {0})

NewToken == Len(uses) + 1

Event == events < MaxEvents /\ events' = events + 1

\* session_user: who a browser is, as far as a request can tell
Counts(b) == /\ cookie[b] # NoCookie /\ cookie[b].id \in Users
             /\ users[cookie[b].id].version = cookie[b].version
Admin(b) == Counts(b) /\ users[cookie[b].id].admin

Usable(link) == link # NoLink /\ ~link.used /\ ~link.expired
Pending == {k \in Rows(invites) : Usable(invites[k])}
Taken == Cardinality(Users) + Cardinality(Pending)
\* check_room; `own` is 1 for who accepts an invite
Room(own) == Taken - own < Limit
\* Whether somebody could still manage accounts without i
SomebodyManages(i) == Cardinality(Admins) > 0
OthersManage(i) == ~(i \in Admins /\ Cardinality(Admins) = 1)
Free(e) == \A i \in Users : users[i].email # e

-----------------------------------------------------------------------------
(* Looking: what a request checks before anything is written               *)

Idle(kind, b) == [kind |-> kind, step |-> "read", by |-> b, id |-> 1, email |-> Anyone, word |-> NoWord,
                  flag |-> FALSE, number |-> 0, born |-> 0, late |-> FALSE]

Begin(j, request) ==
    /\ Event /\ job[j] = NoJob
    /\ job' = [job EXCEPT ![j] = request]
    /\ UNCHANGED <<users, invites, resets, cookie, births, uses, crossed>>

\* The account, the hash and the session number are read together (credentials)
SignIn(j, b, e, w) ==
    \E i \in Users :
        /\ users[i].email = e /\ users[i].word = w
        /\ \A k \in Users : users[k].email = e /\ users[k].word # NoWord => i <= k
        /\ Begin(j, [Idle("sign in", b) EXCEPT !.id = i, !.word = w, !.flag = users[i].old,
                                               !.number = users[i].version, !.born = users[i].born])

NewAccount(kind, b, e, w, admin) == [Idle(kind, b) EXCEPT !.email = e, !.word = w, !.flag = admin]

SetUp(j, b, e, w) == Users = {} /\ Begin(j, NewAccount("setup", b, e, w, TRUE))
CreateAccount(j, b, e, w, admin) ==
    Admin(b) /\ Room(0) /\ Free(e) /\ Begin(j, NewAccount("account", Anyone, e, w, admin))
CommandLine(j, e, w, admin) == Free(e) /\ Begin(j, NewAccount("cli", Anyone, e, w, admin))
\* A subject that was never here, and an address that has no account: the first account is an admin's
ComeFromElsewhere(j, b, e) == Free(e) /\ Room(0) /\ Begin(j, NewAccount("sso", b, e, NoWord, Users = {}))
AcceptInvite(j, b, k, e, w) ==
    /\ Usable(invites[k]) /\ Room(1) /\ invites[k].to \in {Anyone, e} /\ Free(e)
    /\ Begin(j, [NewAccount("accept", b, e, w, FALSE) EXCEPT !.id = k, !.number = invites[k].token])
Invite(j, b, to) ==
    /\ Admin(b) /\ Room(0)
    /\ Begin(j, [Idle("invite", Anyone) EXCEPT !.email = to])

SetAdmin(j, b, i, admin) ==
    /\ Admin(b) /\ i \in Users
    /\ admin \/ OthersManage(i)
    /\ Begin(j, [Idle(IF admin THEN "promote" ELSE "demote", Anyone) EXCEPT !.id = i])
Delete(j, b, i) == Admin(b) /\ i \in Users \ {cookie[b].id} /\ Begin(j, [Idle("delete", Anyone) EXCEPT !.id = i])
AdminReset(j, b, i, w) == Admin(b) /\ i \in Users /\ Begin(j, [Idle("admin reset", b) EXCEPT !.id = i, !.word = w])
ChangePassword(j, b, w) ==
    /\ Counts(b) /\ users[cookie[b].id].word # NoWord
    /\ Begin(j, [Idle("change", b) EXCEPT !.id = cookie[b].id, !.word = w])
SignOutOthers(j, b) == Counts(b) /\ Begin(j, [Idle("others", b) EXCEPT !.id = cookie[b].id])
Reset(j, b, k, w) ==
    /\ Usable(resets[k])
    /\ Begin(j, [Idle("reset", b) EXCEPT !.id = k, !.word = w, !.number = resets[k].token])

-----------------------------------------------------------------------------
(* Writing                                                                 *)

At(j, kind) == job[j] # NoJob /\ job[j].kind = kind /\ job[j].step = "read"
End(j) == [job EXCEPT ![j] = NoJob]
\* The others of a group looked before this one wrote
EndBefore(j, group) ==
    [k \in Workers |-> IF k = j THEN NoJob
                       ELSE IF job[k] # NoJob /\ job[k].kind \in group /\ job[k].step = "read"
                            THEN [job[k] EXCEPT !.late = TRUE] ELSE job[k]]
\* The account that the browser enters next, with the session number it will then have
EnterNext(jobs, j, i) == [jobs EXCEPT ![j] = [job[j] EXCEPT !.step = "enter", !.id = i, !.late = FALSE]]

Row(j) == [email |-> job[j].email, admin |-> job[j].flag, word |-> job[j].word, old |-> FALSE,
           version |-> 0, born |-> births + 1]
Insert(j) ==
    /\ NextId(users) \in Ids
    /\ users' = [users EXCEPT ![NextId(users)] = Row(j)]
    /\ births' = births + 1

\* upgrade_password_hash: a weak hash is made anew if it is still the one read
RehashedAnyway(r) == IF r.flag /\ r.id \in Users THEN [users EXCEPT ![r.id].old = FALSE, ![r.id].word = r.word] ELSE users
Rehashed(r) == IF r.flag /\ r.id \in Users /\ users[r.id].word = r.word /\ users[r.id].old
               THEN [users EXCEPT ![r.id].old = FALSE] ELSE users

\* The cookie has the session number read with the password
EndSignIn(j) ==
    /\ At(j, "sign in")
    /\ LET r == job[j]
       IN /\ users' = Rehashed(r)
          /\ cookie' = IF r.id \notin Users THEN cookie
                       ELSE [cookie EXCEPT ![r.by] = [id |-> r.id, version |-> r.number,
                                                      born |-> r.born, typed |-> r.word]]
    /\ job' = End(j)
    /\ UNCHANGED <<invites, resets, events, births, uses, crossed>>

\* "someone else finished setup at the same moment; roll this one back"
EndSetUp(j) ==
    /\ At(j, "setup")
    /\ IF Users # {} THEN job' = End(j) /\ UNCHANGED <<users, births>>
       ELSE /\ Insert(j) /\ job' = EnterNext(EndBefore(j, Creating), j, NextId(users))
    /\ UNCHANGED <<invites, resets, cookie, events, uses, crossed>>

EndCreate(j) ==
    /\ At(j, "account") \/ At(j, "cli")
    /\ Insert(j)
    /\ job' = EndBefore(j, Creating)
    /\ crossed' = (crossed \/ (Users = {} /\ ~job[j].flag))
    /\ UNCHANGED <<invites, resets, cookie, events, uses>>

EndComing(j) ==
    /\ At(j, "sso")
    /\ Insert(j)
    /\ job' = EnterNext(EndBefore(j, Creating), j, NextId(users))
    /\ crossed' = (crossed \/ (Users = {} /\ ~job[j].flag))
    /\ UNCHANGED <<invites, resets, cookie, events, uses>>

\* invites.use: the account is rolled back unless the invite is there, unused
StillThere(table, k) == table[k] # NoLink
Unused(table, k) == table[k] # NoLink /\ ~table[k].used
Used(table, j) == IF table[job[j].id].token = job[j].number THEN [uses EXCEPT ![job[j].number] = @ + 1] ELSE uses

EndAccept(j) ==
    /\ At(j, "accept")
    /\ LET k == job[j].id
       IN IF Unused(invites, k)
          THEN /\ Insert(j)
               /\ invites' = [invites EXCEPT ![k].used = TRUE]
               /\ uses' = Used(invites, j)
               /\ job' = EnterNext(EndBefore(j, Creating), j, NextId(users))
               /\ crossed' = (crossed \/ Users = {})
          ELSE job' = End(j) /\ UNCHANGED <<users, births, invites, uses, crossed>>
    /\ UNCHANGED <<resets, cookie, events>>

EndInvite(j) ==
    /\ At(j, "invite")
    /\ NextId(invites) \in Ids
    /\ invites' = [invites EXCEPT ![NextId(invites)] = Fresh(NewToken, job[j].email)]
    /\ uses' = Append(uses, 0)
    /\ job' = EndBefore(j, Creating)
    /\ UNCHANGED <<users, resets, cookie, events, births, crossed>>

EndSetAdmin(j) ==
    /\ At(j, "promote") \/ At(j, "demote")
    /\ LET i == job[j].id
       IN /\ users' = IF i \in Users THEN [users EXCEPT ![i].admin = (job[j].kind = "promote")] ELSE users
          /\ crossed' = (crossed \/ job[j].late)
    /\ job' = IF job[j].kind = "demote" THEN EndBefore(j, Removing) ELSE End(j)
    /\ UNCHANGED <<invites, resets, cookie, events, births, uses>>

\* Links that reset its password go with an account; invites stay
EndDelete(j) ==
    /\ At(j, "delete")
    /\ LET i == job[j].id
       IN /\ users' = [users EXCEPT ![i] = NoUser]
          /\ resets' = [k \in Ids |-> IF resets[k] # NoLink /\ resets[k].to = i THEN NoLink ELSE resets[k]]
    /\ crossed' = (crossed \/ job[j].late)
    /\ job' = EndBefore(j, Removing)
    /\ UNCHANGED <<invites, cookie, events, births, uses>>

\* set_password: whoever was signed in must sign in again
WithPassword(i, w) == [users EXCEPT ![i] = [users[i] EXCEPT !.word = w, !.old = FALSE, !.version = @ + 1]]

EndPassword(j) ==
    /\ At(j, "change") \/ At(j, "admin reset")
    /\ LET i == job[j].id
           stays == job[j].kind = "change" \/ (cookie[job[j].by] # NoCookie /\ cookie[job[j].by].id = i)
       IN /\ users' = IF i \in Users THEN WithPassword(i, job[j].word) ELSE users
          /\ job' = IF i \in Users /\ stays THEN EnterNext(job, j, i) ELSE End(j)
    /\ UNCHANGED <<invites, resets, cookie, events, births, uses, crossed>>

EndOthers(j) ==
    /\ At(j, "others")
    /\ LET i == job[j].id
       IN /\ users' = IF i \in Users THEN [users EXCEPT ![i].version = @ + 1] ELSE users
          /\ job' = EnterNext(job, j, i)
    /\ UNCHANGED <<invites, resets, cookie, events, births, uses, crossed>>

EndReset(j) ==
    /\ At(j, "reset")
    /\ LET k == job[j].id
       IN IF Unused(resets, k) /\ ~resets[k].expired
          THEN /\ users' = WithPassword(resets[k].to, job[j].word)
               /\ resets' = [resets EXCEPT ![k].used = TRUE]
               /\ uses' = Used(resets, j)
               /\ job' = EnterNext(job, j, resets[k].to)
          ELSE job' = End(j) /\ UNCHANGED <<users, resets, uses>>
    /\ UNCHANGED <<invites, cookie, events, births, crossed>>

\* start_session: the number is read after what was written
Enter(j) ==
    /\ job[j] # NoJob /\ job[j].step = "enter"
    /\ LET i == job[j].id
       IN cookie' = [cookie EXCEPT ![job[j].by] =
                        [id |-> i, version |-> IF i \in Users THEN users[i].version ELSE 0,
                         born |-> IF i \in Users THEN users[i].born ELSE 0, typed |-> NoWord]]
    /\ job' = End(j)
    /\ UNCHANGED <<users, invites, resets, events, births, uses, crossed>>

-----------------------------------------------------------------------------
(* What takes one step                                                     *)

\* _send_reset_link, under the lock from its first statement: links that can't be used go, and the account's unused one
SendResetLink(e) ==
    /\ Event
    /\ \E i \in Users :
        /\ users[i].email = e /\ users[i].word # NoWord
        /\ \A k \in Users : users[k].email = e /\ users[k].word # NoWord => i <= k
        /\ LET kept == [k \in Ids |-> IF Usable(resets[k]) /\ resets[k].to # i THEN resets[k] ELSE NoLink]
           IN /\ NextId(kept) \in Ids
              /\ resets' = [kept EXCEPT ![NextId(kept)] = Fresh(NewToken, i)]
    /\ uses' = Append(uses, 0)
    /\ UNCHANGED <<users, invites, cookie, job, births, crossed>>

CancelInvite(b, k) ==
    /\ Event /\ Admin(b) /\ invites[k] # NoLink
    /\ invites' = [invites EXCEPT ![k] = NoLink]
    /\ UNCHANGED <<users, resets, cookie, job, births, uses, crossed>>

\* Time passes
Expire(k) ==
    /\ Event
    /\ \/ /\ Usable(invites[k]) /\ invites' = [invites EXCEPT ![k].expired = TRUE] /\ UNCHANGED resets
       \/ /\ Usable(resets[k]) /\ resets' = [resets EXCEPT ![k].expired = TRUE] /\ UNCHANGED invites
    /\ UNCHANGED <<users, cookie, job, births, uses, crossed>>

\* Logging out, or a request with a cookie that doesn't count (session_user clears it)
Leave(b) ==
    /\ Event /\ cookie[b] # NoCookie
    /\ cookie' = [cookie EXCEPT ![b] = NoCookie]
    /\ UNCHANGED <<users, invites, resets, job, births, uses, crossed>>

-----------------------------------------------------------------------------
First(e, w, n) == [email |-> e, admin |-> TRUE, word |-> w, old |-> TRUE, version |-> 0, born |-> n]

SignedIn(i) == [id |-> i, version |-> 0, born |-> i, typed |-> users[i].word]

\* Nobody is here yet; or an admin who has made an invite; or two, one of whom forgot the password; all signed in
Init ==
    /\ \E n \in 0..2, to \in Emails \cup {Anyone}, w \in Words, e \in [1..2 -> Emails] :
          /\ users = [i \in Ids |-> IF i <= n THEN First(e[i], w, i) ELSE NoUser]
          /\ births = n
          /\ invites = [k \in Ids |-> IF k = 1 /\ n = 1 THEN Fresh(1, to) ELSE NoLink]
          /\ resets = [k \in Ids |-> IF k = 1 /\ n = 2 THEN Fresh(1, 1) ELSE NoLink]
    /\ \A i, k \in Users : users[i].email = users[k].email => i = k
    /\ cookie \in [Browsers -> IF Users = {} THEN {NoCookie} ELSE {SignedIn(i) : i \in Users}]
    /\ job = [j \in Workers |-> NoJob]
    /\ events = 0 /\ crossed = FALSE
    /\ uses = <<0>>

Request(j) ==
    \E b \in Browsers :
        \/ SignOutOthers(j, b)
        \/ \E e \in Emails : ComeFromElsewhere(j, b, e)
        \/ \E to \in Emails \cup {Anyone} : Invite(j, b, to)
        \/ \E w \in Words : \/ ChangePassword(j, b, w)
                            \/ \E i \in Ids : AdminReset(j, b, i, w) \/ Reset(j, b, i, w)
                            \/ \E e \in Emails : \/ SignIn(j, b, e, w) \/ SetUp(j, b, e, w)
                                                 \/ \E k \in Ids : AcceptInvite(j, b, k, e, w)
                                                 \/ \E a \in BOOLEAN : CreateAccount(j, b, e, w, a)
                                                                       \/ CommandLine(j, e, w, a)
        \/ \E i \in Ids : Delete(j, b, i) \/ \E a \in BOOLEAN : SetAdmin(j, b, i, a)

GoOn(j) ==
    \/ EndSignIn(j) \/ EndSetUp(j) \/ EndCreate(j) \/ EndComing(j) \/ EndAccept(j) \/ EndInvite(j) \/ EndSetAdmin(j)
    \/ EndDelete(j) \/ EndPassword(j) \/ EndOthers(j) \/ EndReset(j) \/ Enter(j)

Next ==
    \/ \E j \in Workers : Request(j) \/ GoOn(j)
    \/ \E e \in Emails : SendResetLink(e)
    \/ \E k \in Ids : Expire(k) \/ \E b \in Browsers : CancelInvite(b, k)
    \/ \E b \in Browsers : Leave(b)

Spec == Init /\ [][Next]_vars

-----------------------------------------------------------------------------
TypeOK ==
    /\ users \in [Ids -> Accounts \cup {NoUser}]
    /\ invites \in [Ids -> Links \cup {NoLink}] /\ resets \in [Ids -> Links \cup {NoLink}]
    /\ cookie \in [Browsers -> Cookies \cup {NoCookie}]
    /\ job \in [Workers -> Jobs \cup {NoJob}]
    /\ events \in 0..MaxEvents /\ births \in Nat /\ crossed \in BOOLEAN
    /\ uses \in Seq(Nat)

\* A browser that signed in with a password is signed out when the password is
\* another, even if the change came while it was signing in, and although a
\* hash may be made anew meanwhile (accounts.py, authenticate; start_session).
PasswordEndsSessions ==
    \A b \in Browsers :
        LET c == cookie[b]
        IN Counts(b) /\ c.typed # NoWord /\ users[c.id].born = c.born => users[c.id].word = c.typed

\* An invite makes one account and a reset link sets one password, however many
\* tabs use it at once (but for a link whose row's id another link got).
LinksWorkOnce == \A t \in DOMAIN uses : uses[t] <= 1

\* "FeedStash needs at least one admin": there is one, unless two removals
\* crossed or the command line began with an ordinary account.
SomeAdminStays == Users # {} => Admins # {} \/ crossed
=============================================================================
