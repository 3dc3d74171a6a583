------------------------------- MODULE SignIn -------------------------------
(***************************************************************************)
(* Which providers people can sign in with and whom they let in: the rows  *)
(* and settings an admin changes in Settings (app/web/api/sign_in.py), the *)
(* copy of them that every request is checked against (app/web/sso.py),    *)
(* and signing in through a provider (app/web/auth.py).                    *)
(*                                                                         *)
(* Changes hold a lock from their checks to their reload, but for adding a *)
(* provider, which saves and reloads without it.  A reload reads the       *)
(* settings, replaces what they switch, reads the providers, and replaces  *)
(* the rest; threads may come between.                                     *)
(*                                                                         *)
(* The lists of addresses and domains are the set of people they cover.    *)
(***************************************************************************)
EXTENDS Integers, FiniteSets, FiniteSetsExt

CONSTANTS People,        \* they have accounts; who of them is an admin doesn't change here
          Admins,
          WithPassword,  \* whose accounts have a password
          ServerKeys,    \* providers from the server's settings
          ServerListed,  \* whom ALLOWED_EMAILS and ALLOWED_DOMAINS cover
          PasswordLogin, \* PASSWORD_LOGIN
          Requests,      \* that may be under way at once
          MaxProviders,  \* bound: providers ever added
          MaxEvents,     \* bound: requests
          NoRow, NoKey, NoRequest

ASSUME SignInParameters ==
    /\ Admins \subseteq People /\ WithPassword \subseteq People /\ ServerListed \subseteq People
    /\ PasswordLogin \in BOOLEAN /\ MaxProviders \in Nat \ {0} /\ MaxEvents \in Nat
    /\ ServerKeys \cap (1..MaxProviders) = {}

ProviderIds == 1..MaxProviders
Keys == ServerKeys \cup ProviderIds

\* A row of sign_in_providers; `born` tells apart what had an id one after another
ProviderRows == [on : BOOLEAN, trust : BOOLEAN, readable : BOOLEAN, born : ProviderIds]
\* What the providers in memory are to a sign-in: on the sign-in page, and for whom
Providers == [key : Keys, shown : BOOLEAN, trust : BOOLEAN, born : 0..MaxProviders]
Settings == [sso : BOOLEAN, off : SUBSET ServerKeys, listed : SUBSET People]

Changing == {"change", "remove", "list", "switch", "server"}
Steps == {"begun", "checked", "written", "values", "rows"}
Tables == [ProviderIds -> ProviderRows \cup {NoRow}]
Requested == [kind : Changing \cup {"add", "sign in"}, step : Steps, by : People, key : Keys \cup {NoKey},
              id : Keys \cup {NoKey}, field : {"on", "trust", "secret", "issuer"}, value : BOOLEAN, list : SUBSET People,
              off : SUBSET ServerKeys, values : Settings, table : Tables, chosen : Providers \cup {NoKey}]

ASSUME SignInDistinct ==
    /\ NoRow \notin ProviderRows /\ NoKey \notin Keys
    /\ NoRequest \notin Requested /\ NoRequest \notin Requests

VARIABLES rows, last,     \* the table, and sqlite_sequence: the last id it gave
          settings,       \* app_settings, signin.*
          sso, off, unreadable, listed, snapshot, \* the attributes of SignIn
          lock,           \* _CHANGES: whose it is
          req,            \* requests under way
          came,           \* signed_in_with of each account, and what it was then
          events, births,
          misled,         \* a check was made on switches that were no longer the database's
          crossed         \* an added provider's reload went on beside another change's

database == <<rows, last, settings, births>>
memory == <<sso, off, unreadable, listed, snapshot>>
signInVars == <<rows, last, settings, sso, off, unreadable, listed, snapshot, lock, req, came, events,
                births, misled, crossed>>

Saved == {i \in ProviderIds : rows[i] # NoRow}
Event == events < MaxEvents /\ events' = events + 1

\* AUTOINCREMENT: "a removed provider's id never comes back for a different one"
LargestPlusOne == 1 + Max(Saved \cup {0})
NextProviderId == last + 1

-----------------------------------------------------------------------------
(* The copy in memory                                                      *)

OnServer(turnedOff, on) ==
    {[key |-> k, shown |-> k \notin turnedOff /\ on, trust |-> FALSE, born |-> 0] : k \in ServerKeys}
FromTable(table, on) ==
    {[key |-> i, shown |-> table[i].on /\ on, trust |-> table[i].trust, born |-> table[i].born] :
        i \in {k \in ProviderIds : table[k] # NoRow /\ table[k].readable}}
Snapshot(turnedOff, on, table) == OnServer(turnedOff, on) \cup FromTable(table, on)
Unreadable(table) == {i \in ProviderIds : table[i] # NoRow /\ ~table[i].readable}

\* email_allowed and trusts, by the copy; `by` stands for the saved lists
EmailAllowed(p, by) == p \in ServerListed \cup by
Trusts(key) == \E provider \in snapshot : provider.trust /\ provider.key = key
\* user_allowed: asked again on every request
Allowed(p) == p \in WithPassword \/ EmailAllowed(p, listed) \/ Trusts(came[p].key)

-----------------------------------------------------------------------------
(* What an admin asks                                                      *)

\* A request that changes, reads and chose nothing yet; `key` is what its account came
\* through when it began
Request(kind, p) ==
    [kind |-> kind, step |-> "begun", by |-> p, key |-> came[p].key, id |-> NoKey, field |-> "on",
     value |-> FALSE, list |-> {}, off |-> {}, values |-> [sso |-> TRUE, off |-> {}, listed |-> {}],
     table |-> [i \in ProviderIds |-> NoRow], chosen |-> NoKey]

Ask(r, p, request) ==
    /\ Event /\ req[r] = NoRequest
    /\ p \in Admins /\ Allowed(p)
    /\ req' = [req EXCEPT ![r] = request]
    /\ UNCHANGED <<database, memory, lock, came, misled, crossed>>

AskChange(r, p, i, field, value) ==
    i \in Saved /\ Ask(r, p, [Request("change", p) EXCEPT !.id = i, !.field = field, !.value = value])
AskRemove(r, p, i) == Ask(r, p, [Request("remove", p) EXCEPT !.id = i])
AskList(r, p, people) == Ask(r, p, [Request("list", p) EXCEPT !.list = people])
AskSwitch(r, p, on) == Ask(r, p, [Request("switch", p) EXCEPT !.value = on])
AskServer(r, p, k, on) == Ask(r, p, [Request("server", p) EXCEPT !.id = k, !.value = on])
AskAdd(r, p, trust) == Ask(r, p, [Request("add", p) EXCEPT !.value = trust])

-----------------------------------------------------------------------------
(* The checks, under the lock                                              *)

\* _ways_in_left: the switches from memory, the saved providers from the table
WaysInLeft(on, turnedOff, without) ==
    \/ PasswordLogin
    \/ on /\ (ServerKeys \ turnedOff # {} \/ \E i \in Saved \ without : rows[i].on /\ i \notin unreadable)

\* _keep_yourself_in
SignsOut(q) ==
    /\ q.by \notin WithPassword /\ ~EmailAllowed(q.by, listed)
    /\ q.key = q.id /\ Trusts(q.key)

ServerOff(q) == IF q.value THEN off \ {q.id} ELSE off \cup {q.id}
TurnsOff(q, field) == q.kind = "change" /\ q.field = field /\ ~q.value

MayGoAhead(q) ==
    /\ (q.kind = "remove" \/ TurnsOff(q, "on")) => WaysInLeft(sso, off, {q.id})
    /\ (q.kind = "remove" \/ TurnsOff(q, "trust")) => ~SignsOut(q)
    /\ q.kind = "switch" => q.value \/ WaysInLeft(FALSE, off, {})
    /\ q.kind = "server" => q.value \/ WaysInLeft(sso, ServerOff(q), {})
    /\ q.kind = "list" => q.by \in WithPassword \/ Trusts(q.key) \/ EmailAllowed(q.by, q.list)

Passed(q) == [q EXCEPT !.step = "checked", !.off = IF q.kind = "server" THEN ServerOff(q) ELSE {}]

AtOnce(r) == TRUE
TakesLock(r) == lock = NoRequest

Check(r) ==
    /\ req[r] # NoRequest /\ req[r].kind \in Changing /\ req[r].step = "begun"
    /\ TakesLock(r)
    /\ IF MayGoAhead(req[r])
       THEN /\ lock' = r
            /\ req' = [req EXCEPT ![r] = Passed(@)]
       ELSE req' = [req EXCEPT ![r] = NoRequest] /\ UNCHANGED lock
    /\ misled' = (misled \/ (crossed /\ <<sso, off>> # <<settings.sso, settings.off>>))
    /\ UNCHANGED <<database, memory, came, events, crossed>>

-----------------------------------------------------------------------------
(* The write, and the reload                                               *)

Reloading(r) == req[r] # NoRequest /\ req[r].step \in {"written", "values", "rows"}
\* What the lock keeps apart, but for adding a provider
Crossing(r) == \E o \in Requests \ {r} : Reloading(o) /\ "add" \in {req[r].kind, req[o].kind}

\* What a request makes of the row it names, and of the settings.  Another issuer is
\* checked and saved under the same id, which keeps its trust
Changed(row, q) ==
    [on |-> IF q.field = "on" THEN q.value ELSE row.on,
     trust |-> IF q.field = "trust" THEN q.value ELSE row.trust,
     readable |-> row.readable \/ q.field = "secret", born |-> row.born]
RowsAfter(q) ==
    IF q.kind = "remove" THEN [rows EXCEPT ![q.id] = NoRow]
    ELSE IF q.kind = "change" THEN [rows EXCEPT ![q.id] = Changed(@, q)] ELSE rows
SettingsAfter(q) ==
    [settings EXCEPT !.sso = IF q.kind = "switch" THEN q.value ELSE @,
                     !.off = IF q.kind = "server" THEN q.off ELSE @,
                     !.listed = IF q.kind = "list" THEN q.list ELSE @]

Written(q) == [q EXCEPT !.step = "written"]
WithSettings(q) == [q EXCEPT !.step = "values", !.values = settings]
WithRows(q) == [q EXCEPT !.step = "rows", !.table = rows]

IsThere(q) == q.kind \in {"change", "remove"} => q.id \in Saved

Write(r) ==
    /\ req[r] # NoRequest /\ req[r].step = "checked"
    /\ IsThere(req[r])
    /\ rows' = RowsAfter(req[r]) /\ settings' = SettingsAfter(req[r])
    /\ req' = [req EXCEPT ![r] = Written(@)]
    /\ crossed' = (crossed \/ Crossing(r))
    /\ UNCHANGED <<last, births, memory, lock, came, events, misled>>

\* NotFound: the provider was removed meanwhile
Vanished(r) ==
    /\ req[r] # NoRequest /\ req[r].step = "checked"
    /\ ~IsThere(req[r])
    /\ req' = [req EXCEPT ![r] = NoRequest] /\ lock' = NoRequest
    /\ UNCHANGED <<database, memory, came, events, misled, crossed>>

Add(r) ==
    /\ req[r] # NoRequest /\ req[r].kind = "add" /\ req[r].step = "begun"
    /\ births < MaxProviders
    /\ rows' = [rows EXCEPT ![NextProviderId] = [on |-> TRUE, trust |-> req[r].value, readable |-> TRUE, born |-> births + 1]]
    /\ last' = NextProviderId /\ births' = births + 1
    /\ req' = [req EXCEPT ![r] = Written(@)]
    /\ crossed' = (crossed \/ Crossing(r))
    /\ UNCHANGED <<settings, memory, lock, came, events, misled>>

ReadSettings(r) ==
    /\ req[r] # NoRequest /\ req[r].step = "written"
    /\ req' = [req EXCEPT ![r] = WithSettings(@)]
    /\ UNCHANGED <<database, memory, lock, came, events, misled, crossed>>

\* The switches are in place before the providers are read
ReadProviders(r) ==
    /\ req[r] # NoRequest /\ req[r].step = "values"
    /\ sso' = req[r].values.sso /\ off' = req[r].values.off
    /\ req' = [req EXCEPT ![r] = WithRows(@)]
    /\ UNCHANGED <<database, unreadable, listed, snapshot, lock, came, events, misled, crossed>>

\* Which providers show goes by the switches in place, be they another reload's
Install(r) ==
    /\ req[r] # NoRequest /\ req[r].step = "rows"
    /\ snapshot' = Snapshot(off, sso, req[r].table)
    /\ unreadable' = Unreadable(req[r].table) /\ listed' = req[r].values.listed
    /\ lock' = IF lock = r THEN NoRequest ELSE lock
    /\ req' = [req EXCEPT ![r] = NoRequest]
    /\ UNCHANGED <<database, sso, off, came, events, misled, crossed>>

-----------------------------------------------------------------------------
(* Signing in                                                              *)

\* The provider is resolved when the browser comes back, then asked who this is
ComeBack(r, p, provider) ==
    /\ Event /\ req[r] = NoRequest
    /\ provider \in snapshot /\ provider.shown
    /\ req' = [req EXCEPT ![r] = [Request("sign in", p) EXCEPT !.key = NoKey, !.chosen = provider]]
    /\ UNCHANGED <<database, memory, lock, came, misled, crossed>>

\* find_or_add_account, for who has an account
LetIn(r) ==
    /\ req[r] # NoRequest /\ req[r].kind = "sign in"
    /\ LET p == req[r].by
           chosen == req[r].chosen
       IN came' = IF EmailAllowed(p, listed) \/ chosen.trust \/ p \in WithPassword
                  THEN [came EXCEPT ![p] = [key |-> chosen.key, born |-> chosen.born]] ELSE came
    /\ req' = [req EXCEPT ![r] = NoRequest]
    /\ UNCHANGED <<database, memory, lock, events, misled, crossed>>

-----------------------------------------------------------------------------
Row(on, trust, readable) == [on |-> on, trust |-> trust, readable |-> readable, born |-> 1]

\* One provider is saved, and someone came through it; SECRET_KEY may have been changed since
SignInInit ==
    /\ \E on, trust, readable \in BOOLEAN : rows = [i \in ProviderIds |-> IF i = 1 THEN Row(on, trust, readable) ELSE NoRow]
    /\ last = 1 /\ births = 1
    /\ settings \in [sso : {TRUE}, off : SUBSET ServerKeys, listed : SUBSET People]
    /\ PasswordLogin \/ ServerKeys \ settings.off # {} \/ (rows[1].on /\ rows[1].readable)
    /\ sso = settings.sso /\ off = settings.off /\ listed = settings.listed
    /\ unreadable = Unreadable(rows)
    /\ snapshot = Snapshot(settings.off, settings.sso, rows)
    /\ lock = NoRequest /\ req = [r \in Requests |-> NoRequest]
    /\ came \in [People -> {[key |-> NoKey, born |-> 0], [key |-> 1, born |-> 1]}]
    /\ events = 0 /\ misled = FALSE /\ crossed = FALSE

Asks(r) ==
    \E p \in Admins :
        \/ \E i \in ProviderIds : AskRemove(r, p, i) \/ \E f \in {"on", "trust", "secret", "issuer"}, v \in BOOLEAN : AskChange(r, p, i, f, v)
        \/ \E people \in SUBSET People : AskList(r, p, people)
        \/ \E v \in BOOLEAN : AskSwitch(r, p, v) \/ AskAdd(r, p, v) \/ \E k \in ServerKeys : AskServer(r, p, k, v)

SignInNext ==
    \E r \in Requests :
        \/ Asks(r) \/ Check(r) \/ Write(r) \/ Vanished(r) \/ Add(r)
        \/ ReadSettings(r) \/ ReadProviders(r) \/ Install(r)
        \/ \E p \in People, provider \in snapshot : ComeBack(r, p, provider)
        \/ LetIn(r)

SignInSpec == SignInInit /\ [][SignInNext]_signInVars

-----------------------------------------------------------------------------
SignInTypeOK ==
    /\ rows \in Tables /\ last \in ProviderIds /\ births \in ProviderIds
    /\ settings \in Settings
    /\ sso \in BOOLEAN /\ off \subseteq ServerKeys /\ listed \subseteq People /\ unreadable \subseteq ProviderIds
    /\ snapshot \subseteq Providers
    /\ lock \in Requests \cup {NoRequest}
    /\ req \in [Requests -> Requested \cup {NoRequest}]
    /\ came \in [People -> [key : Keys \cup {NoKey}, born : 0..MaxProviders]]
    /\ events \in 0..MaxEvents /\ misled \in BOOLEAN /\ crossed \in BOOLEAN

\* "Two admins turning off the last two providers at once mustn't each see the
\* other's as still on" (sign_in.py:28): with passwords off, someone can always
\* sign in.  The code does not keep this, since adding a provider takes no lock.
SomeoneCanSignIn ==
    \/ PasswordLogin
    \/ settings.sso /\ (ServerKeys \ settings.off # {} \/ \E i \in Saved : rows[i].on /\ rows[i].readable)

\* What is left of it: no changes of admins at once leave nobody a way in, unless
\* one was checked on switches that an added provider's reload had put back.
AWayInIsLeft == misled \/ SomeoneCanSignIn

Quiet == \A r \in Requests : req[r] # NoRequest => req[r].kind = "sign in"

\* With no change under way, requests are checked against what the database
\* says, unless an added provider's reload crossed another's.
MemoryIsTheDatabase ==
    Quiet /\ ~crossed =>
        /\ sso = settings.sso /\ off = settings.off /\ listed = settings.listed
        /\ unreadable = Unreadable(rows)
        /\ snapshot = Snapshot(settings.off, settings.sso, rows)

\* Nobody is trusted for a provider other than the one they came in through: a
\* removed one's id does not come back (migrations.py, 17).  A provider is what an
\* admin added: with its issuer edited (sign_in.py:177) it is the same one, and
\* those who came through the old issuer stay trusted.
TrustIsNotInherited ==
    \A p \in People, provider \in snapshot :
        provider.key \in ProviderIds /\ came[p].key = provider.key => came[p].born = provider.born
=============================================================================
