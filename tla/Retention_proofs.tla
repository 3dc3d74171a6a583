------------------------- MODULE Retention_proofs -------------------------
(***************************************************************************)
(* Proofs about what the server stores and deletes.                        *)
(*                                                                         *)
(* Retention, for any entries, any retention and any number of fetches:    *)
(* what a cleanup removed is remembered with the date it had, until that   *)
(* is past the window of refreshes.                                        *)
(*                                                                         *)
(* Saving, in the second part, for any accounts, pictures and requests at  *)
(* once: items and the files of their pictures belong together, whatever   *)
(* steps cross, fail or are cut off.                                       *)
(***************************************************************************)
EXTENDS Retention, Saving, Largest, FiniteSetTheorems, SequenceTheorems, TLAPS

\* What was removed is remembered until it is past what a refresh would take
GoneIsRemembered ==
    \A g \in Gone :
        article[g] = NoArticle /\ (remembered[g] = gone[g] \/ gone[g] > RetentionDays)

IInv == TypeOK /\ GoneIsRemembered

\* TypeOK in named parts
GuidsApart == \A g \in Stored : remembered[g] = NoGuid
OtherTypes ==
    /\ fetch \in [Fetches -> BOOLEAN \cup {NoFetch}]
    /\ fetched \in BOOLEAN
    /\ keepRead \in 0..MaxReadDays
RowTypes ==
    /\ article \in [Guids -> Articles \cup {NoArticle}]
    /\ remembered \in [Guids -> Ages \cup {NoGuid}]
    /\ gone \in [Guids -> Ages \cup {NoGuid}]

LEMMA TypeParts == TypeOK <=> OtherTypes /\ RowTypes /\ GuidsApart
BY DEF TypeOK, OtherTypes, RowTypes, GuidsApart

-----------------------------------------------------------------------------
LEMMA Numbers ==
    /\ RetentionDays \in Nat /\ Old \in Nat /\ Old = RetentionDays + 2 /\ Ages = 0..Old
    /\ LongAgo \in Nat /\ ReadAges = 0..LongAgo
    /\ Late = {0, 1} /\ Late \subseteq ReadAges
    /\ \A a \in Ages : Older(a) \in Ages /\ Older(a) >= a
    /\ \A a \in Ages \cup {NoGuid} : OlderGuid(a) \in Ages \cup {NoGuid}
    /\ \A a \in Ages : OlderGuid(a) = Older(a)
    /\ \A a \in ReadAges : OlderRead(a) \in ReadAges
    /\ \A late \in Late : Forgettable(late) \subseteq {a \in Ages : a > RetentionDays}
<1>1. /\ RetentionDays \in Nat /\ Old \in Nat /\ Old = RetentionDays + 2 /\ Ages = 0..Old
      /\ LongAgo \in Nat /\ ReadAges = 0..LongAgo
      /\ Late = {0, 1} /\ Late \subseteq ReadAges
  BY Parameters DEF Old, Ages, LongAgo, ReadAges, Late
<1>2. \A a \in Ages : Older(a) \in Ages /\ Older(a) >= a
  BY <1>1 DEF Older
<1>3. \A a \in ReadAges : OlderRead(a) \in ReadAges
  BY <1>1 DEF OlderRead
<1>4. \A late \in Late : Forgettable(late) \subseteq {a \in Ages : a > RetentionDays}
  BY <1>1 DEF Forgettable
<1>5. \A a \in Ages : OlderGuid(a) = Older(a)
  BY Distinct DEF OlderGuid
<1>6. OlderGuid(NoGuid) = NoGuid
  BY DEF OlderGuid
<1> QED BY <1>1, <1>2, <1>3, <1>4, <1>5, <1>6

\* The parts of a row, and rows made of them
LEMMA RowsOfArticles ==
    /\ \A r \in Articles : r.age \in Ages /\ r.read \in ReadAges \cup {Unread} /\ r.starred \in BOOLEAN
    /\ \A a \in Ages, d \in ReadAges \cup {Unread}, b \in BOOLEAN :
          [age |-> a, read |-> d, starred |-> b] \in Articles
BY DEF Articles

-----------------------------------------------------------------------------
LEMMA InitInvariant == Init => IInv
<1> SUFFICES ASSUME Init PROVE IInv
  OBVIOUS
<1>1. \A g \in Guids : article[g] = NoArticle /\ remembered[g] = NoGuid /\ gone[g] = NoGuid
  BY DEF Init
<1>2. TypeOK
  BY <1>1, Distinct DEF Init, TypeOK, Stored
<1>3. GoneIsRemembered
  BY <1>1 DEF GoneIsRemembered, Gone
<1> QED BY <1>2, <1>3 DEF IInv

LEMMA StoreInvariant == ASSUME IInv, NEW j \in Fetches, Store(j) PROVE IInv'
<1>1. OtherTypes /\ RowTypes /\ GuidsApart
  BY TypeParts DEF IInv
<1>2. PICK document \in Documents, late \in Late :
         LET new == {g \in Guids : /\ document[g] # Absent /\ New(g)
                                   /\ InWindow(document[g], fetch[j], late)} IN
          /\ \E read \in SUBSET new :
                article' = [g \in Guids |->
                    IF g \in new THEN Arrived(document[g], g \in read, late) ELSE article[g]]
          /\ gone' = [g \in Guids |-> IF g \in new THEN NoGuid ELSE gone[g]]
  BY DEF Store
<1> DEFINE new == {g \in Guids : /\ document[g] # Absent /\ New(g)
                                 /\ InWindow(document[g], fetch[j], late)}
<1>3. PICK read \in SUBSET new :
         article' = [g \in Guids |->
              IF g \in new THEN Arrived(document[g], g \in read, late) ELSE article[g]]
  BY <1>2
<1>4. gone' = [g \in Guids |-> IF g \in new THEN NoGuid ELSE gone[g]]
  BY <1>2
<1>5. \A g \in new : g \in Guids /\ article[g] = NoArticle /\ remembered[g] = NoGuid /\ document[g] \in Ages
  BY DEF New, Documents
<1> HIDE DEF new
<1>6. \A g \in new : Arrived(document[g], g \in read, late) \in Articles
  <2> SUFFICES ASSUME NEW g \in new PROVE Arrived(document[g], g \in read, late) \in Articles
    OBVIOUS
  <2>1. \A b \in BOOLEAN : (IF b THEN late ELSE Unread) \in ReadAges \cup {Unread}
    BY Numbers
  <2> QED BY <1>5, <2>1, RowsOfArticles DEF Arrived
<1>7. article' \in [Guids -> Articles \cup {NoArticle}] /\ gone' \in [Guids -> Ages \cup {NoGuid}]
  BY <1>1, <1>3, <1>4, <1>6 DEF RowTypes
<1>8. UNCHANGED <<remembered, keepRead>> /\ fetched' \in BOOLEAN /\ fetch' \in [Fetches -> BOOLEAN \cup {NoFetch}]
  BY <1>1 DEF Store, OtherTypes
<1>9. \A g \in Guids : article'[g] # NoArticle => remembered[g] = NoGuid
  BY <1>1, <1>3, <1>5 DEF GuidsApart, Stored
<1>10. TypeOK'
  BY <1>1, <1>7, <1>8, <1>9 DEF TypeOK, OtherTypes, RowTypes, Stored
<1>11. \A g \in Gone' : g \in Gone /\ gone'[g] = gone[g] /\ article'[g] = article[g]
  BY <1>3, <1>4 DEF Gone
<1>12. GoneIsRemembered'
  BY <1>8, <1>11 DEF IInv, GoneIsRemembered
<1> QED BY <1>10, <1>12 DEF IInv

LEMMA MarkInvariant == ASSUME IInv, NEW g \in Guids, Mark(g) PROVE IInv'
<1>1. OtherTypes /\ RowTypes /\ GuidsApart
  BY TypeParts DEF IInv
<1>2. article[g] \in Articles /\ article[g] # NoArticle
  BY <1>1 DEF Mark, RowTypes, Stored
<1>3. PICK row : /\ row \in {MarkedRead(g), [article[g] EXCEPT !.read = Unread],
                             [article[g] EXCEPT !.starred = ~@]}
                 /\ article' = [article EXCEPT ![g] = row]
  BY DEF Mark
<1>4. row \in Articles
  <2>1. MarkedRead(g) \in Articles
    BY <1>2, Numbers DEF MarkedRead, Articles
  <2>2. [article[g] EXCEPT !.read = Unread] \in Articles
    BY <1>2 DEF Articles
  <2>3. [article[g] EXCEPT !.starred = ~@] \in Articles
    BY <1>2 DEF Articles
  <2> QED BY <1>3, <2>1, <2>2, <2>3
<1>5. \A h \in Guids : article'[h] # NoArticle <=> article[h] # NoArticle
  BY <1>1, <1>2, <1>3, <1>4, Distinct DEF RowTypes
<1>6. article' \in [Guids -> Articles \cup {NoArticle}]
  BY <1>1, <1>3, <1>4 DEF RowTypes
<1>7. TypeOK'
  BY <1>1, <1>5, <1>6 DEF Mark, TypeOK, OtherTypes, RowTypes, GuidsApart, Stored
<1>8. GoneIsRemembered'
  BY <1>5 DEF IInv, GoneIsRemembered, Gone, Mark
<1> QED BY <1>7, <1>8 DEF IInv

LEMMA PurgeInvariant == ASSUME IInv, Purge PROVE IInv'
<1>1. OtherTypes /\ RowTypes /\ GuidsApart
  BY TypeParts DEF IInv
<1>2. PICK newest \in SUBSET Stored, late \in Late :
         LET old == PastRetention(newest, late)
             read == ReadExpired(late) \ old
         IN /\ article' = [g \in Guids |-> IF g \in old \cup read THEN NoArticle ELSE article[g]]
            /\ remembered' = [g \in Guids |-> Remembered(g, read, late)]
            /\ gone' = [g \in Guids |-> IF g \in old \cup read THEN article[g].age ELSE gone[g]]
  BY DEF Purge
<1> DEFINE old == PastRetention(newest, late)
           read == ReadExpired(late) \ old
<1>3. /\ \A g \in old : g \in Guids /\ article[g] # NoArticle /\ article[g].age - late > RetentionDays
      /\ \A g \in read : g \in Guids /\ article[g] # NoArticle /\ g \notin old
  BY DEF PastRetention, ReadExpired, Stored
<1>4. /\ article' = [g \in Guids |-> IF g \in old \cup read THEN NoArticle ELSE article[g]]
      /\ remembered' = [g \in Guids |-> Remembered(g, read, late)]
      /\ gone' = [g \in Guids |-> IF g \in old \cup read THEN article[g].age ELSE gone[g]]
  BY <1>2
<1> HIDE DEF old, read
<1>5. \A g \in old \cup read : article[g].age \in Ages
  BY <1>1, <1>3, RowsOfArticles DEF RowTypes
<1>6. \A g \in Guids :
         /\ g \in read => \/ remembered'[g] = article[g].age
                          \/ remembered'[g] = NoGuid /\ article[g].age > RetentionDays
         /\ g \notin read => \/ remembered'[g] = remembered[g]
                             \/ /\ remembered'[g] = NoGuid
                                /\ remembered[g] \in Ages /\ remembered[g] > RetentionDays
  BY <1>4, Numbers DEF Remembered
<1>7. article' \in [Guids -> Articles \cup {NoArticle}] /\ gone' \in [Guids -> Ages \cup {NoGuid}]
  BY <1>1, <1>4, <1>5 DEF RowTypes
<1>8. remembered' \in [Guids -> Ages \cup {NoGuid}]
  <2>1. remembered' = [g \in Guids |-> remembered'[g]]
    BY <1>4
  <2>2. \A g \in Guids : remembered'[g] \in Ages \cup {NoGuid}
    BY <1>1, <1>5, <1>6 DEF RowTypes
  <2> QED BY <2>1, <2>2
<1>9. \A g \in Guids : article'[g] # NoArticle => remembered'[g] = NoGuid
  BY <1>1, <1>4, <1>6 DEF GuidsApart, Stored
<1>10. TypeOK'
  BY <1>1, <1>7, <1>8, <1>9 DEF Purge, TypeOK, OtherTypes, Stored
<1>11. ASSUME NEW g \in Gone'
       PROVE  article'[g] = NoArticle /\ (remembered'[g] = gone'[g] \/ gone'[g] > RetentionDays)
  <2>0. g \in Guids /\ gone'[g] # NoGuid
    BY DEF Gone
  <2>1. CASE g \in old
    <3>1. article'[g] = NoArticle /\ gone'[g] = article[g].age
      BY <2>0, <2>1, <1>4
    <3>2. article[g].age \in Nat /\ late \in {0, 1} /\ RetentionDays \in Nat
      BY <2>1, <1>5, Numbers
    <3>3. article[g].age - late > RetentionDays
      BY <2>1, <1>3
    <3>4. article[g].age > RetentionDays
      BY <3>2, <3>3
    <3> QED BY <3>1, <3>4
  <2>2. CASE g \in read
    BY <2>0, <2>2, <1>4, <1>6
  <2>3. CASE g \notin old \cup read
    <3>1. gone'[g] = gone[g] /\ article'[g] = article[g] /\ g \in Gone
      BY <2>0, <2>3, <1>4 DEF Gone
    <3>2. article[g] = NoArticle /\ (remembered[g] = gone[g] \/ gone[g] > RetentionDays)
      BY <3>1 DEF IInv, GoneIsRemembered
    <3> QED BY <2>0, <2>3, <3>1, <3>2, <1>6
  <2> QED BY <2>1, <2>2, <2>3
<1>12. GoneIsRemembered'
  BY <1>11 DEF GoneIsRemembered
<1> QED BY <1>10, <1>12 DEF IInv

LEMMA DayInvariant == ASSUME IInv, Day PROVE IInv'
<1>1. OtherTypes /\ RowTypes /\ GuidsApart
  BY TypeParts DEF IInv
<1>2. ASSUME NEW g \in Guids
      PROVE  /\ article[g] = NoArticle <=> article'[g] = NoArticle
             /\ article'[g] \in Articles \cup {NoArticle}
  <2>1. CASE article[g] = NoArticle
    BY <2>1 DEF Day
  <2>2. CASE article[g] # NoArticle
    <3> DEFINE d == IF article[g].read = Unread THEN Unread ELSE OlderRead(article[g].read)
    <3>1. article[g] \in Articles
      BY <1>1, <2>2 DEF RowTypes
    <3>2. article'[g] = [article[g] EXCEPT !.age = Older(article[g].age), !.read = d]
      BY <2>2, <3>1 DEF Day, Articles
    <3>3. Older(article[g].age) \in Ages /\ d \in ReadAges \cup {Unread}
      BY <3>1, Numbers, RowsOfArticles
    <3> HIDE DEF d
    <3>4. article'[g] \in Articles
      BY <3>1, <3>2, <3>3 DEF Articles
    <3> QED BY <2>2, <3>4, Distinct
  <2> QED BY <2>1, <2>2
<1>3. article' \in [Guids -> Articles \cup {NoArticle}]
  <2>1. article' = [g \in Guids |-> article'[g]]
    BY DEF Day
  <2> QED BY <2>1, <1>2
<1>4. \A g \in Guids : remembered'[g] = OlderGuid(remembered[g]) /\ gone'[g] = OlderGuid(gone[g])
  BY DEF Day
<1>5. remembered' \in [Guids -> Ages \cup {NoGuid}] /\ gone' \in [Guids -> Ages \cup {NoGuid}]
  BY <1>1, Numbers DEF Day, RowTypes
<1>6. \A g \in Guids : article'[g] # NoArticle => remembered'[g] = NoGuid
  BY <1>1, <1>2, <1>4 DEF GuidsApart, Stored, OlderGuid
<1>7. TypeOK'
  BY <1>1, <1>3, <1>5, <1>6 DEF Day, TypeOK, OtherTypes, Stored
<1>8. ASSUME NEW g \in Gone'
      PROVE  article'[g] = NoArticle /\ (remembered'[g] = gone'[g] \/ gone'[g] > RetentionDays)
  <2>1. g \in Guids /\ g \in Gone /\ gone[g] \in Ages
    BY <1>1, <1>4 DEF Gone, OlderGuid, RowTypes
  <2>2. article[g] = NoArticle /\ (remembered[g] = gone[g] \/ gone[g] > RetentionDays)
    BY <2>1 DEF IInv, GoneIsRemembered
  <2>3. gone'[g] \in Ages /\ gone'[g] >= gone[g]
    BY <2>1, <1>4, Numbers
  <2> QED BY <2>1, <2>2, <2>3, <1>2, <1>4, Numbers
<1>9. GoneIsRemembered'
  BY <1>8 DEF GoneIsRemembered
<1> QED BY <1>7, <1>9 DEF IInv

\* Every step keeps the invariant.
LEMMA StepInvariant == IInv /\ [Next]_vars => IInv'
<1> SUFFICES ASSUME IInv, [Next]_vars PROVE IInv'
  OBVIOUS
<1>1. ASSUME NEW g \in Guids, Mark(g) PROVE IInv'
  BY <1>1, MarkInvariant
<1>2. ASSUME NEW j \in Fetches, Begin(j) \/ Miss(j) PROVE IInv'
  <2>1. fetch' \in [Fetches -> BOOLEAN \cup {NoFetch}] /\ fetched' \in BOOLEAN
    BY <1>2 DEF Begin, Miss, IInv, TypeOK
  <2>2. UNCHANGED <<article, remembered, keepRead, gone>>
    BY <1>2 DEF Begin, Miss
  <2> QED BY <2>1, <2>2 DEF IInv, TypeOK, Stored, Gone, GoneIsRemembered
<1>3. ASSUME NEW d \in 0..MaxReadDays, Choose(d) PROVE IInv'
  BY <1>3 DEF Choose, IInv, TypeOK, Stored, Gone, GoneIsRemembered
<1>4. CASE UNCHANGED vars
  BY <1>4 DEF vars, IInv, TypeOK, Stored, Gone, GoneIsRemembered
<1> QED BY <1>1, <1>2, <1>3, <1>4, StoreInvariant, PurgeInvariant, DayInvariant DEF Next

\* The inductive invariant holds in every state, whatever the constants are.
THEOREM Invariance == Spec => []IInv
BY InitInvariant, StepInvariant, PTL DEF Spec

\* The type invariant, and that a guid is never both stored and remembered
\* (insert_new looks at purged_articles, purge_read moves).
THEOREM TypeCorrect == Spec => []TypeOK
<1>1. IInv => TypeOK
  BY DEF IInv
<1> QED BY <1>1, Invariance, PTL

\* What a cleanup removed comes back only with a newer date, on the day its
\* retention ends by a clock read before, or by a fetch that takes every age.
THEOREM RemovedStaysRemoved == Spec => GoneStaysGone
<1> DEFINE Allowed(g) == TakesAll \/ ListedNewer(g) \/ JustPast(g)
<1>1. IInv /\ [Next]_vars => [\A g \in Guids : ComesBack(g) => Allowed(g)]_vars
  <2> SUFFICES ASSUME IInv, Next, NEW g \in Guids, ComesBack(g)
               PROVE  Allowed(g)
    BY DEF vars
  <2>0. g \in Gone /\ gone[g] # NoGuid /\ article[g] = NoArticle /\ article'[g] # NoArticle
    BY DEF ComesBack, Gone
  <2>1. ASSUME NEW h \in Guids, Mark(h) PROVE FALSE
    <3>1. \E row : article' = [article EXCEPT ![h] = row] /\ h \in Stored
      BY <2>1 DEF Mark
    <3> QED BY <2>0, <3>1 DEF Stored, IInv, TypeOK
  <2>2. ASSUME NEW j \in Fetches, Begin(j) \/ Miss(j) PROVE FALSE
    BY <2>0, <2>2 DEF Begin, Miss
  <2>3. ASSUME NEW j \in Fetches, Store(j) PROVE Allowed(g)
    <3>1. PICK document \in Documents, late \in Late, isRead \in BOOLEAN :
             /\ document[g] # Absent /\ New(g) /\ InWindow(document[g], fetch[j], late)
             /\ article'[g] = Arrived(document[g], isRead, late)
      <4>1. PICK document \in Documents, late \in Late :
               LET new == {h \in Guids : /\ document[h] # Absent /\ New(h)
                                         /\ InWindow(document[h], fetch[j], late)} IN
                \E read \in SUBSET new :
                      article' = [h \in Guids |->
                          IF h \in new THEN Arrived(document[h], h \in read, late) ELSE article[h]]
        BY <2>3 DEF Store
      <4> DEFINE new == {h \in Guids : /\ document[h] # Absent /\ New(h)
                                       /\ InWindow(document[h], fetch[j], late)}
      <4>2. PICK read \in SUBSET new :
               article' = [h \in Guids |->
                   IF h \in new THEN Arrived(document[h], h \in read, late) ELSE article[h]]
        BY <4>1
      <4>3. g \in Guids
        BY DEF Gone, ComesBack
      <4>4. /\ document[g] # Absent /\ New(g) /\ InWindow(document[g], fetch[j], late)
            /\ article'[g] = Arrived(document[g], g \in read, late)
        BY <2>0, <4>2, <4>3
      <4>5. (g \in read) \in BOOLEAN
        OBVIOUS
      <4> HIDE DEF new
      <4> QED BY <4>4, <4>5
    <3>2. document[g] \in Ages /\ late \in {0, 1} /\ article'[g].age = document[g]
      BY <3>1, Numbers DEF Documents, Arrived
    <3>3. gone[g] \in Ages /\ gone[g] > RetentionDays
      BY <2>0, <3>1 DEF New, IInv, TypeOK, GoneIsRemembered
    <3>4. CASE fetch[j]
      <4>1. fetch[j] = TRUE /\ fetch'[j] = NoFetch
        BY <2>3, <3>4 DEF Store, IInv, TypeOK
      <4> QED BY <4>1 DEF TakesAll
    <3>5. CASE ~fetch[j]
      <4>1. document[g] - late <= RetentionDays
        BY <3>1, <3>5 DEF InWindow
      <4>2. document[g] \in Nat /\ late \in {0, 1} /\ gone[g] \in Nat /\ RetentionDays \in Nat
        BY <3>2, <3>3, Numbers
      <4>3. document[g] < gone[g] \/ gone[g] = RetentionDays + 1
        BY <3>3, <4>1, <4>2
      <4> QED BY <3>2, <4>3 DEF ListedNewer, JustPast
    <3>6. fetch[j] \in BOOLEAN
      BY <2>3 DEF Store, IInv, TypeOK
    <3> QED BY <3>4, <3>5, <3>6
  <2>4. CASE Purge
    BY <2>0, <2>4 DEF Purge
  <2>5. CASE Day
    BY <2>0, <2>5 DEF Day
  <2>6. ASSUME NEW d \in 0..MaxReadDays, Choose(d) PROVE FALSE
    BY <2>0, <2>6 DEF Choose
  <2> QED BY <2>1, <2>2, <2>3, <2>4, <2>5, <2>6 DEF Next
<1> QED BY <1>1, Invariance, PTL DEF Spec, GoneStaysGone

-----------------------------------------------------------------------------
(* Saved items and the files of their pictures: proofs about Saving, for any *)
(* accounts, requests at once, pictures and limits.                         *)

\* The picture p is of the item with id i
In(p, i) == items[i] # NoItem /\ p \in items[i].pictures

\* Before its end a request's names are files it stored; at its end, files it deletes
Fresh(r) == req[r] # NoRequest /\ req[r].step # "tidying"
Knows(r) == req[r].known \cup req[r].then
Names(r) == IF req[r] = NoRequest THEN {} ELSE req[r].names

NamesGiven ==
    /\ \A i \in Ids : \A p : In(p, i) => p \in given
    /\ \A r \in Requests : req[r] # NoRequest => req[r].names \subseteq given /\ Knows(r) \subseteq given

\* Files stored by a request that has yet to write are no item's, and no other
\* request knows of them.
NewAreNobodys ==
    \A r \in Requests : Fresh(r) =>
        /\ req[r].names \subseteq files
        /\ \A i \in Ids, p \in req[r].names : ~In(p, i)
        /\ \A k \in Requests : req[k] # NoRequest => req[r].names \cap Knows(k) = {} /\ (k # r => req[r].names \cap req[k].names = {})

OneItemEach == \A i, j \in Ids : \A p : In(p, i) /\ In(p, j) => i = j \/ p \in astray

DeletesWhatIsGone == \A r \in Requests : req[r] # NoRequest /\ ~Fresh(r) => \A i \in Ids, p \in req[r].names : In(p, i) => p \in astray

\* A removal knows the pictures of its item, if they are any item's still
KnownIsThere ==
    \A r \in Requests : At(r, {"remove"}, "writing") =>
        \A i \in Ids, p \in req[r].known : In(p, i) => p \in astray \/ (Own(r) /\ i = req[r].id)

\* An edit keeps what it read; only requests that bring pictures store files, and an
\* import has one for each entry so far
Shape(q) ==
    /\ q.kind = "edit" /\ q.step = "writing" => q.keep \subseteq q.then
    /\ q.kind \in {"edit", "remove", "close"} /\ q.step # "tidying" => q.names = {}
    /\ q.step = "storing" => q.left > 0
    /\ q.kind = "import" /\ q.step # "tidying" =>
          /\ Len(q.stored) + q.left = Entries
          /\ q.step # "storing" => q.left = 0
          /\ \A e \in DOMAIN q.stored : q.stored[e] \subseteq q.names
          /\ \A e, f \in DOMAIN q.stored : e # f => q.stored[e] \cap q.stored[f] = {}

Shapes == \A r \in Requests : req[r] # NoRequest => Shape(req[r])

NothingLost == \A p \in files \ astray : (\E i \in Ids : In(p, i)) \/ \E r \in Requests : p \in Names(r)

NothingMissing == \A i \in Ids : \A p : In(p, i) => p \in astray \/ p \in files

\* What is known of the pictures
PicturesOk ==
    /\ NamesGiven /\ NewAreNobodys /\ OneItemEach /\ DeletesWhatIsGone /\ KnownIsThere
    /\ NothingLost /\ NothingMissing

RequestsTyped == req \in [Requests -> Requested \cup {NoRequest}]
ItemsTyped == items \in [Ids -> Rows \cup {NoItem}]

Alone(r) == \A k \in Requests \ {r} : req'[k] = req[k]

\* A request that didn't change is where it was, and knows what it knew.
LEMMA StaysAsItWas ==
    ASSUME NEW k, req'[k] = req[k]
    PROVE  /\ Fresh(k)' <=> Fresh(k)
           /\ Names(k)' = Names(k)
           /\ req[k] # NoRequest => Knows(k)' = Knows(k)
           /\ At(k, {"remove"}, "writing")' <=> At(k, {"remove"}, "writing")
BY DEF Fresh, Names, Knows, At

\* A request begins, reads, or notes that a picture was none: nothing but the request
\* changes, and what it knows from now on is some item's.
Notes(r) ==
    /\ UNCHANGED <<items, files, given, astray>> /\ Alone(r)
    /\ req'[r] = NoRequest => Names(r) = {}
    /\ req'[r] # NoRequest =>
          /\ Fresh(r)' /\ (req[r] # NoRequest => Fresh(r))
          /\ req'[r].names = Names(r)
          /\ \A p \in Knows(r)' : (req[r] # NoRequest /\ p \in Knows(r)) \/ \E i \in Ids : In(p, i)
          /\ At(r, {"remove"}, "writing")' => \A p \in req'[r].known : Own(r)' /\ In(p, req'[r].id)

\* A note disturbs nothing: what a request learns is of rows that are there.
LEMMA NotesKeep ==
    ASSUME PicturesOk, NEW r \in Requests, Notes(r)
    PROVE  PicturesOk'
<1>0. \A i \in Ids : \A p : In(p, i)' <=> In(p, i)
  BY DEF Notes, In
<1>1. \A k \in Requests \ {r} :
          /\ req'[k] = req[k] /\ (Fresh(k)' <=> Fresh(k)) /\ Names(k)' = Names(k)
          /\ req[k] # NoRequest => Knows(k)' = Knows(k)
          /\ At(k, {"remove"}, "writing")' <=> At(k, {"remove"}, "writing")
  BY StaysAsItWas DEF Notes, Alone
<1>2. Ids' = Ids /\ UNCHANGED <<items, files, given, astray>>
  BY DEF Ids, Notes
<1>3. NamesGiven'
  BY <1>0, <1>1, <1>2 DEF PicturesOk, NamesGiven, Notes, Names
<1>4. NewAreNobodys'
  <2> SUFFICES ASSUME NEW k \in Requests, Fresh(k)'
               PROVE  /\ req'[k].names \subseteq files
                      /\ \A i \in Ids, p \in req'[k].names : ~In(p, i)
                      /\ \A o \in Requests : req'[o] # NoRequest =>
                            req'[k].names \cap Knows(o)' = {} /\ (o # k => req'[k].names \cap req'[o].names = {})
    BY <1>0, <1>2 DEF NewAreNobodys
  <2>1. req'[k].names = Names(k)
    BY <1>1 DEF Notes, Fresh, Names
  <2>2. Names(k) # {} => Fresh(k)
    BY <1>1 DEF Notes, Names, Fresh
  <2>3. Names(k) \subseteq files /\ \A i \in Ids, p \in Names(k) : ~In(p, i)
    BY <2>2 DEF PicturesOk, NewAreNobodys, Names, Fresh
  <2>4. ASSUME NEW o \in Requests, req'[o] # NoRequest PROVE Names(k) \cap Knows(o)' = {}
    <3>1. \A p \in Knows(o)' : (req[o] # NoRequest /\ p \in Knows(o)) \/ \E i \in Ids : In(p, i)
      BY <1>1, <2>4 DEF Notes
    <3>2. req[o] # NoRequest => Names(k) \cap Knows(o) = {}
      BY <2>2 DEF PicturesOk, NewAreNobodys, Names, Fresh
    <3> QED BY <2>3, <3>1, <3>2
  <2>5. ASSUME NEW o \in Requests, req'[o] # NoRequest, o # k PROVE Names(k) \cap req'[o].names = {}
    <3>1. req'[o].names = Names(o)
      BY <1>1, <2>5 DEF Notes, Names
    <3> QED BY <3>1, <2>2, <2>5 DEF PicturesOk, NewAreNobodys, Names, Fresh
  <2> QED BY <2>1, <2>3, <2>4, <2>5
<1>5. OneItemEach'
  BY <1>0, <1>2 DEF PicturesOk, OneItemEach
<1>6. DeletesWhatIsGone'
  BY <1>0, <1>1, <1>2 DEF PicturesOk, DeletesWhatIsGone, Notes
<1>7. KnownIsThere'
  <2> SUFFICES ASSUME NEW k \in Requests, At(k, {"remove"}, "writing")', NEW i \in Ids, NEW p \in req'[k].known, In(p, i), p \notin astray
               PROVE  Own(k)' /\ i = req'[k].id
    BY <1>0, <1>2 DEF KnownIsThere
  <2>1. CASE k # r
    <3>1. Own(k)' <=> Own(k)
      BY <2>1, <1>1, <1>2 DEF Own, Of, Saved, Ids
    <3> QED BY <2>1, <3>1, <1>1 DEF PicturesOk, KnownIsThere
  <2>2. CASE k = r
    <3>1. Own(k)' /\ In(p, req'[k].id)
      BY <2>2 DEF Notes, At
    <3>2. req'[k].id \in Ids
      BY <3>1, <1>2 DEF Own, Of, Saved, Ids
    <3> QED BY <3>1, <3>2 DEF PicturesOk, OneItemEach
  <2> QED BY <2>1, <2>2
<1>8. NothingLost'
  <2>1. \A k \in Requests : Names(k) \subseteq Names(k)'
    BY <1>1 DEF Notes, Names
  <2> QED BY <2>1, <1>0, <1>2 DEF PicturesOk, NothingLost
<1>9. NothingMissing'
  BY <1>0, <1>2 DEF PicturesOk, NothingMissing
<1> QED BY <1>3, <1>4, <1>5, <1>6, <1>7, <1>8, <1>9 DEF PicturesOk

\* A request ends and its files go; what there is of a file that broke off stays.
Drops(r, broken) ==
    /\ req[r] # NoRequest /\ req'[r] = NoRequest /\ Alone(r) /\ UNCHANGED items
    /\ broken \cap given = {}
    /\ files' = (files \ req[r].names) \cup broken /\ given' = given \cup broken /\ astray' = astray \cup broken

\* The files of a request that ends were nobody's, or of rows that are gone.
LEMMA DropsKeep ==
    ASSUME PicturesOk, NEW r \in Requests, NEW broken, Drops(r, broken)
    PROVE  PicturesOk'
<1>0. \A i \in Ids : \A p : In(p, i)' <=> In(p, i)
  BY DEF Drops, In
<1>1. \A k \in Requests \ {r} :
          /\ req'[k] = req[k] /\ (Fresh(k)' <=> Fresh(k)) /\ Names(k)' = Names(k)
          /\ req[k] # NoRequest => Knows(k)' = Knows(k)
          /\ At(k, {"remove"}, "writing")' <=> At(k, {"remove"}, "writing")
  BY StaysAsItWas DEF Drops, Alone
<1>2. /\ Ids' = Ids /\ req[r] # NoRequest /\ req'[r] = NoRequest /\ UNCHANGED items
      /\ broken \cap given = {}
      /\ files' = (files \ req[r].names) \cup broken /\ given' = given \cup broken /\ astray' = astray \cup broken
  BY DEF Ids, Drops
<1>3. \A k \in Requests : ~Fresh(r)' /\ ~At(r, {"remove"}, "writing")' /\ Names(r)' = {}
  BY <1>2 DEF Fresh, At, Names
<1>4. NamesGiven'
  BY <1>0, <1>1, <1>2 DEF PicturesOk, NamesGiven
<1>5. NewAreNobodys'
  <2> SUFFICES ASSUME NEW k \in Requests, Fresh(k)'
               PROVE  /\ req'[k].names \subseteq files'
                      /\ \A i \in Ids, p \in req'[k].names : ~In(p, i)
                      /\ \A o \in Requests : req'[o] # NoRequest =>
                            req'[k].names \cap Knows(o)' = {} /\ (o # k => req'[k].names \cap req'[o].names = {})
    BY <1>0, <1>2 DEF NewAreNobodys
  <2>1. k # r /\ Fresh(k) /\ req'[k] = req[k]
    BY <1>1, <1>3
  <2>2. req[k].names \cap req[r].names = {}
    BY <2>1, <1>2 DEF PicturesOk, NewAreNobodys
  <2>3. \A o \in Requests : req'[o] # NoRequest => req'[o] = req[o] /\ Knows(o)' = Knows(o)
    BY <1>1, <1>2
  <2> QED BY <2>1, <2>2, <2>3, <1>2 DEF PicturesOk, NewAreNobodys
<1>6. OneItemEach'
  BY <1>0, <1>2 DEF PicturesOk, OneItemEach
<1>7. DeletesWhatIsGone'
  BY <1>0, <1>1, <1>2 DEF PicturesOk, DeletesWhatIsGone
<1>8. KnownIsThere'
  <2> SUFFICES ASSUME NEW k \in Requests, At(k, {"remove"}, "writing")', NEW i \in Ids, NEW p \in req'[k].known, In(p, i), p \notin astray
               PROVE  Own(k)' /\ i = req'[k].id
    BY <1>0, <1>2 DEF KnownIsThere
  <2>1. k # r /\ req'[k] = req[k]
    BY <1>1, <1>3
  <2>2. Own(k)' <=> Own(k)
    BY <2>1, <1>2 DEF Own, Of, Saved, Ids
  <2> QED BY <2>1, <2>2, <1>1 DEF PicturesOk, KnownIsThere
<1>9. NothingLost'
  <2> SUFFICES ASSUME NEW p \in files', p \notin astray', ~\E i \in Ids : In(p, i)
               PROVE  \E k \in Requests : p \in Names(k)'
    BY <1>0, <1>2 DEF NothingLost
  <2>1. p \in files \ astray /\ p \notin req[r].names
    BY <1>2
  <2>2. PICK k \in Requests : p \in Names(k)
    BY <2>1 DEF PicturesOk, NothingLost
  <2>3. k # r
    BY <2>1, <2>2, <1>2 DEF Names
  <2> QED BY <2>2, <2>3, <1>1
<1>10. NothingMissing'
  <2> SUFFICES ASSUME NEW i \in Ids, NEW p, In(p, i), p \notin astray
               PROVE  p \notin req[r].names
    BY <1>0, <1>2 DEF PicturesOk, NothingMissing
  <2>1. CASE Fresh(r)
    BY <2>1 DEF PicturesOk, NewAreNobodys
  <2>2. CASE ~Fresh(r)
    BY <2>2, <1>2 DEF PicturesOk, DeletesWhatIsGone
  <2> QED BY <2>1, <2>2
<1> QED BY <1>4, <1>5, <1>6, <1>7, <1>8, <1>9, <1>10 DEF PicturesOk

\* A request stores a file under a name that was never given.
Stores(r, p) ==
    /\ Fresh(r) /\ Fresh(r)' /\ Alone(r) /\ UNCHANGED <<items, astray>>
    /\ p \notin given /\ files' = files \cup {p} /\ given' = given \cup {p}
    /\ req'[r].names = req[r].names \cup {p} /\ Knows(r)' = Knows(r)
    /\ ~At(r, {"remove"}, "writing")'

\* A new name is nobody's and known to no request.
LEMMA StoresKeep ==
    ASSUME PicturesOk, NEW r \in Requests, NEW p, Stores(r, p)
    PROVE  PicturesOk'
<1>0. \A i \in Ids : \A q : In(q, i)' <=> In(q, i)
  BY DEF Stores, In
<1>1. \A k \in Requests \ {r} :
          /\ req'[k] = req[k] /\ (Fresh(k)' <=> Fresh(k)) /\ Names(k)' = Names(k)
          /\ req[k] # NoRequest => Knows(k)' = Knows(k)
          /\ At(k, {"remove"}, "writing")' <=> At(k, {"remove"}, "writing")
  BY StaysAsItWas DEF Stores, Alone
<1>2. /\ Ids' = Ids /\ req[r] # NoRequest /\ req'[r] # NoRequest /\ Fresh(r) /\ Fresh(r)' /\ UNCHANGED <<items, astray>>
      /\ p \notin given /\ files' = files \cup {p} /\ given' = given \cup {p}
      /\ req'[r].names = req[r].names \cup {p} /\ Knows(r)' = Knows(r)
  BY DEF Ids, Stores, Fresh
<1>3. /\ \A i \in Ids : ~In(p, i)
      /\ \A k \in Requests : req[k] # NoRequest => p \notin req[k].names /\ p \notin Knows(k)
  BY <1>2 DEF PicturesOk, NamesGiven
<1>4. \A k \in Requests : (req'[k] # NoRequest <=> req[k] # NoRequest) /\ (req[k] # NoRequest => Knows(k)' = Knows(k))
  BY <1>1, <1>2
<1>5. NamesGiven'
  BY <1>0, <1>1, <1>2, <1>4 DEF PicturesOk, NamesGiven
<1>6. NewAreNobodys'
  <2> SUFFICES ASSUME NEW k \in Requests, Fresh(k)'
               PROVE  /\ req'[k].names \subseteq files'
                      /\ \A i \in Ids, q \in req'[k].names : ~In(q, i)
                      /\ \A o \in Requests : req'[o] # NoRequest =>
                            req'[k].names \cap Knows(o)' = {} /\ (o # k => req'[k].names \cap req'[o].names = {})
    BY <1>0, <1>2 DEF NewAreNobodys
  <2>1. CASE k = r
    BY <2>1, <1>1, <1>2, <1>3, <1>4 DEF PicturesOk, NewAreNobodys
  <2>2. CASE k # r
    <3>1. Fresh(k) /\ req'[k] = req[k] /\ req[k] # NoRequest
      BY <2>2, <1>1 DEF Fresh
    <3>2. req[k].names \subseteq files /\ (\A i \in Ids, q \in req[k].names : ~In(q, i)) /\ p \notin req[k].names
      BY <3>1, <1>3 DEF PicturesOk, NewAreNobodys
    <3>3. \A o \in Requests : req[o] # NoRequest => req[k].names \cap Knows(o) = {} /\ (o # k => req[k].names \cap req[o].names = {})
      BY <3>1 DEF PicturesOk, NewAreNobodys
    <3>4. ASSUME NEW o \in Requests, req'[o] # NoRequest, o # k PROVE req[k].names \cap req'[o].names = {}
      <4>1. CASE o = r
        BY <4>1, <3>2, <3>3, <1>2, <2>2
      <4>2. CASE o # r
        BY <4>2, <3>3, <3>4, <1>1
      <4> QED BY <4>1, <4>2
    <3> QED BY <3>1, <3>2, <3>3, <3>4, <1>2, <1>4
  <2> QED BY <2>1, <2>2
<1>7. OneItemEach'
  BY <1>0, <1>2 DEF PicturesOk, OneItemEach
<1>8. DeletesWhatIsGone'
  BY <1>0, <1>1, <1>2 DEF PicturesOk, DeletesWhatIsGone
<1>9. KnownIsThere'
  <2> SUFFICES ASSUME NEW k \in Requests, At(k, {"remove"}, "writing")', NEW i \in Ids, NEW q \in req'[k].known, In(q, i), q \notin astray
               PROVE  Own(k)' /\ i = req'[k].id
    BY <1>0, <1>2 DEF KnownIsThere
  <2>1. k # r /\ req'[k] = req[k]
    BY <1>1 DEF Stores
  <2>2. Own(k)' <=> Own(k)
    BY <2>1, <1>2 DEF Own, Of, Saved, Ids
  <2> QED BY <2>1, <2>2, <1>1 DEF PicturesOk, KnownIsThere
<1>10. NothingLost'
  <2>1. \A k \in Requests : Names(k) \subseteq Names(k)'
    BY <1>1, <1>2 DEF Names
  <2>2. p \in Names(r)'
    BY <1>2 DEF Names
  <2> QED BY <2>1, <2>2, <1>0, <1>2 DEF PicturesOk, NothingLost
<1>11. NothingMissing'
  BY <1>0, <1>2 DEF PicturesOk, NothingMissing
<1> QED BY <1>5, <1>6, <1>7, <1>8, <1>9, <1>10, <1>11 DEF PicturesOk

\* A transaction's rows: each item's pictures are those it had or files its request
\* stored, and where they aren't, astray; those it loses its request will delete.
Writes(r, doomed) ==
    /\ Fresh(r) /\ Alone(r) /\ UNCHANGED <<files, given>>
    /\ \/ req'[r] = NoRequest /\ doomed = {}
       \/ req'[r] # NoRequest /\ ~Fresh(r)' /\ req'[r].names = doomed /\ Knows(r)' = Knows(r)
    /\ doomed \subseteq Knows(r) \cup req[r].names
    /\ astray \subseteq astray'
    /\ \A i \in Ids : \A p : In(p, i)' => In(p, i) \/ p \in req[r].names \/ (p \in Knows(r) /\ p \in astray')
    /\ \A i, j \in Ids : \A p \in req[r].names : In(p, i)' /\ In(p, j)' => i = j
    /\ \A i \in Ids : \A p : In(p, i) => In(p, i)' \/ p \in astray' \cup doomed
    /\ \A p \in req[r].names : p \in doomed \/ p \in astray' \/ \E i \in Ids : In(p, i)'
    /\ \A i \in Ids : \A p \in doomed : In(p, i)' => p \in astray'
    /\ \A i \in Ids : items[i] # NoItem /\ items'[i] # NoItem => items'[i].owner = items[i].owner

\* Rows written that way have their files, and each picture one item.
LEMMA WritesKeep ==
    ASSUME PicturesOk, NEW r \in Requests, NEW doomed, Writes(r, doomed)
    PROVE  PicturesOk'
<1>1. \A k \in Requests \ {r} :
          /\ req'[k] = req[k] /\ (Fresh(k)' <=> Fresh(k)) /\ Names(k)' = Names(k)
          /\ req[k] # NoRequest => Knows(k)' = Knows(k)
          /\ At(k, {"remove"}, "writing")' <=> At(k, {"remove"}, "writing")
  BY StaysAsItWas DEF Writes, Alone
<1>2. /\ Ids' = Ids /\ req[r] # NoRequest /\ Fresh(r) /\ ~Fresh(r)' /\ UNCHANGED <<files, given>>
      /\ ~At(r, {"remove"}, "writing")' /\ Names(r)' = doomed
      /\ req'[r] # NoRequest => Knows(r)' = Knows(r) /\ req'[r].names = doomed
  BY DEF Ids, Writes, Fresh, At, Names
<1>3. /\ req[r].names \subseteq files
      /\ \A i \in Ids, p \in req[r].names : ~In(p, i)
      /\ \A k \in Requests : req[k] # NoRequest => req[r].names \cap Knows(k) = {} /\ (k # r => req[r].names \cap req[k].names = {})
  BY <1>2 DEF PicturesOk, NewAreNobodys
<1>4. \A i \in Ids : \A p : In(p, i)' => In(p, i) \/ p \in req[r].names \/ (p \in Knows(r) /\ p \in astray')
  BY DEF Writes
<1>5. NamesGiven'
  <2>1. req[r].names \subseteq given /\ Knows(r) \subseteq given /\ doomed \subseteq Knows(r) \cup req[r].names
    BY <1>2 DEF PicturesOk, NamesGiven, Writes
  <2> QED BY <2>1, <1>1, <1>2, <1>4 DEF PicturesOk, NamesGiven
<1>6. NewAreNobodys'
  <2> SUFFICES ASSUME NEW k \in Requests, Fresh(k)'
               PROVE  /\ req'[k].names \subseteq files
                      /\ \A i \in Ids, p \in req'[k].names : ~In(p, i)'
                      /\ \A o \in Requests : req'[o] # NoRequest =>
                            req'[k].names \cap Knows(o)' = {} /\ (o # k => req'[k].names \cap req'[o].names = {})
    BY <1>2 DEF NewAreNobodys
  <2>1. k # r /\ Fresh(k) /\ req'[k] = req[k]
    BY <1>1, <1>2
  <2>2. /\ req[k].names \subseteq files
        /\ \A i \in Ids, p \in req[k].names : ~In(p, i)
        /\ \A o \in Requests : req[o] # NoRequest => req[k].names \cap Knows(o) = {} /\ (o # k => req[k].names \cap req[o].names = {})
    BY <2>1 DEF PicturesOk, NewAreNobodys
  <2>3. req[k].names \cap (Knows(r) \cup req[r].names) = {}
    BY <2>1, <2>2, <1>2
  <2>4. \A i \in Ids, p \in req[k].names : ~In(p, i)'
    BY <2>2, <2>3, <1>4
  <2>5. req[k].names \cap doomed = {}
    BY <2>3 DEF Writes
  <2>6. ASSUME NEW o \in Requests, req'[o] # NoRequest
        PROVE  req[k].names \cap Knows(o)' = {} /\ (o # k => req[k].names \cap req'[o].names = {})
    <3>1. CASE o = r
      BY <3>1, <2>3, <2>5, <2>6, <1>2
    <3>2. CASE o # r
      BY <3>2, <2>2, <2>6, <1>1
    <3> QED BY <3>1, <3>2
  <2> QED BY <2>1, <2>2, <2>4, <2>6
<1>7. OneItemEach'
  <2> SUFFICES ASSUME NEW i \in Ids, NEW j \in Ids, NEW p, In(p, i)', In(p, j)', i # j PROVE p \in astray'
    BY <1>2 DEF OneItemEach
  <2>1. p \notin req[r].names
    BY DEF Writes
  <2>2. CASE In(p, i) /\ In(p, j)
    BY <2>2 DEF PicturesOk, OneItemEach, Writes
  <2> QED BY <2>1, <2>2, <1>4
<1>8. DeletesWhatIsGone'
  <2> SUFFICES ASSUME NEW k \in Requests, req'[k] # NoRequest, ~Fresh(k)', NEW i \in Ids, NEW p \in req'[k].names, In(p, i)'
               PROVE  p \in astray'
    BY <1>2 DEF DeletesWhatIsGone
  <2>1. CASE k = r
    BY <2>1, <1>2 DEF Writes
  <2>2. CASE k # r
    <3>1. req'[k] = req[k] /\ ~Fresh(k) /\ p \notin req[r].names
      BY <2>2, <1>1, <1>3
    <3>2. In(p, i) => p \in astray
      BY <3>1 DEF PicturesOk, DeletesWhatIsGone
    <3> QED BY <3>1, <3>2, <1>4 DEF Writes
  <2> QED BY <2>1, <2>2
<1>9. KnownIsThere'
  <2> SUFFICES ASSUME NEW k \in Requests, At(k, {"remove"}, "writing")', NEW i \in Ids, NEW p \in req'[k].known, In(p, i)', p \notin astray'
               PROVE  Own(k)' /\ i = req'[k].id
    BY <1>2 DEF KnownIsThere
  <2>1. k # r /\ req'[k] = req[k] /\ At(k, {"remove"}, "writing") /\ req[k] # NoRequest
    BY <1>1, <1>2 DEF At
  <2>2. p \in Knows(k) /\ p \notin req[r].names
    BY <2>1, <1>3 DEF Knows
  <2>3. In(p, i) /\ p \notin astray
    BY <2>2, <1>4 DEF Writes
  <2>4. Own(k) /\ i = req[k].id
    BY <2>1, <2>3 DEF PicturesOk, KnownIsThere
  <2>5. items[i] # NoItem /\ items'[i] # NoItem /\ items'[i].owner = items[i].owner
    BY <2>3 DEF In, Writes
  <2>6. items[i].owner = req[k].user
    BY <2>4 DEF Own, Of
  <2>7. Own(k)'
    BY <2>1, <2>4, <2>5, <2>6, <1>2 DEF Own, Of, Saved
  <2> QED BY <2>1, <2>4, <2>7
<1>10. NothingLost'
  <2> SUFFICES ASSUME NEW p \in files, p \notin astray', \A i \in Ids : ~In(p, i)'
               PROVE  \E k \in Requests : p \in Names(k)'
    BY <1>2 DEF NothingLost
  <2>1. CASE \E i \in Ids : In(p, i)
    BY <2>1, <1>2 DEF Writes
  <2>2. CASE \E k \in Requests : p \in Names(k)
    <3> PICK k \in Requests : p \in Names(k)
      BY <2>2
    <3>1. CASE k = r
      <4>1. p \in doomed
        BY <3>1, <1>2 DEF Writes, Names
      <4> QED BY <4>1, <1>2
    <3>2. CASE k # r
      BY <3>2, <1>1
    <3> QED BY <3>1, <3>2
  <2>3. p \notin astray
    BY DEF Writes
  <2> QED BY <2>1, <2>2, <2>3 DEF PicturesOk, NothingLost
<1>11. NothingMissing'
  <2>1. astray \subseteq astray'
    BY DEF Writes
  <2> QED BY <2>1, <1>2, <1>3, <1>4 DEF PicturesOk, NothingMissing
<1> QED BY <1>5, <1>6, <1>7, <1>8, <1>9, <1>10, <1>11 DEF PicturesOk

\* What a step starts from, and what it must leave of requests, items and pictures
Base == SavingTypeOK /\ Shapes /\ PicturesOk
Kept == RequestsTyped' /\ ItemsTyped' /\ Shapes' /\ PicturesOk'

Put(r, q) == [req EXCEPT ![r] = q]

\* One request changes, and is as it should be.
LEMMA OneChanges ==
    ASSUME RequestsTyped, Shapes, NEW r \in Requests, NEW q \in Requested \cup {NoRequest}, req' = Put(r, q),
           q # NoRequest => Shape(q)
    PROVE  RequestsTyped' /\ Shapes' /\ Alone(r) /\ req'[r] = q
<1>1. req' \in [Requests -> Requested \cup {NoRequest}] /\ req'[r] = q /\ \A k \in Requests \ {r} : req'[k] = req[k]
  BY DEF RequestsTyped, Put
<1>2. RequestsTyped'
  BY <1>1 DEF RequestsTyped, Requested, Steps, Kinds, Folders, Ids
<1>3. ASSUME NEW k \in Requests, req'[k] # NoRequest PROVE Shape(req'[k])
  BY <1>1, <1>3 DEF Shapes
<1> QED BY <1>1, <1>2, <1>3 DEF Shapes, Alone

\* A request that is under way is one.
LEMMA IsRequested ==
    ASSUME RequestsTyped, Shapes, NEW r \in Requests, req[r] # NoRequest
    PROVE  req[r] \in Requested /\ Shape(req[r])
BY DEF RequestsTyped, Shapes

\* A request begins with no files, and knows of none.
LEMMA BeginsKeep ==
    ASSUME Base, NEW r \in Requests, NEW kind \in Kinds, NEW u \in Users, NEW i \in Ids \cup {0}, NEW step \in Steps, NEW n \in Nat,
           NEW keep \in Folders, Ask(r, Request(kind, u, i, step, n, keep)),
           step \in {"storing", "reading", "writing"}, step = "storing" => n > 0,
           kind = "import" => step = "storing" /\ n = Entries,
           kind \in {"edit", "remove"} => step = "reading"
    PROVE  Kept
<1>0. RequestsTyped /\ Shapes /\ PicturesOk /\ ItemsTyped
  BY DEF Base, SavingTypeOK, RequestsTyped, ItemsTyped
<1> PICK q : q = Request(kind, u, i, step, n, keep)
  OBVIOUS
<1>1. /\ q.kind = kind /\ q.step = step /\ q.left = n /\ q.names = {} /\ q.known = {} /\ q.then = {} /\ q.stored = <<>>
      /\ q \in Requested
  <2>1. <<>> \in Seq(Folders) /\ {} \in Folders /\ {} \in SUBSET (1..Entries)
    BY DEF Folders
  <2> QED BY <2>1 DEF Request, Requested
<1>2. Shape(q)
  <2>1. Len(<<>>) = 0 /\ DOMAIN <<>> = {} /\ Entries \in Nat
    BY SavingParameters
  <2> QED BY <1>1, <2>1 DEF Shape
<1>3. req[r] = NoRequest /\ req' = Put(r, q) /\ UNCHANGED <<items, files, given, astray>>
  BY DEF Ask, Put, table, store
<1>4. RequestsTyped' /\ Shapes' /\ Alone(r) /\ req'[r] = q /\ q # NoRequest
  BY <1>0, <1>1, <1>2, <1>3, OneChanges, SavingDistinct
<1>5. Notes(r)
  BY <1>1, <1>3, <1>4 DEF Notes, Names, Fresh, Knows, At
<1>6. ItemsTyped'
  BY <1>0, <1>3 DEF ItemsTyped, Ids, Rows
<1> QED BY <1>0, <1>4, <1>5, <1>6, NotesKeep DEF Kept

\* What requests ask for.
LEMMA AsksKeep ==
    ASSUME Base, NEW r \in Requests, Asks(r)
    PROVE  Kept
<1>0. /\ Named \subseteq Pictures /\ Entries \in Nat /\ MaxImages \in Nat /\ {} \in Folders /\ Folders = SUBSET Pictures
      /\ {"storing", "reading", "writing"} \subseteq Steps /\ Kinds = {"capture", "mail", "add", "edit", "remove", "import", "close"}
  BY SavingParameters DEF Base, SavingTypeOK, Named, Saved, Rows, Ids, Steps, Kinds, Folders
<1>1. PICK u \in Users :
        \/ \E n \in 0..MaxImages : AskCapture(r, u, n)
        \/ \E i \in Ids : AskAdd(r, u, i) \/ AskRemove(r, u, i) \/ \E keep \in SUBSET Named : AskEdit(r, u, i, keep)
        \/ AskMail(r, u) \/ AskImport(r, u) \/ AskClose(r, u)
  BY DEF Asks
<1>2. ASSUME NEW n \in 0..MaxImages, AskCapture(r, u, n) PROVE Kept
  <2>1. CASE n = 0
    BY <1>0, <1>2, <2>1, BeginsKeep DEF AskCapture
  <2>2. CASE n # 0
    <3>1. n \in Nat /\ n > 0
      BY <1>0, <2>2
    <3>2. Ask(r, Request("capture", u, 0, "storing", n, {}))
      BY <1>2, <2>2 DEF AskCapture
    <3> QED BY <1>0, <3>1, <3>2, BeginsKeep
  <2> QED BY <2>1, <2>2
<1>3. ASSUME NEW i \in Ids, AskAdd(r, u, i) PROVE Kept
  BY <1>0, <1>3, BeginsKeep DEF AskAdd
<1>4. ASSUME NEW i \in Ids, AskRemove(r, u, i) PROVE Kept
  BY <1>0, <1>4, BeginsKeep DEF AskRemove
<1>5. ASSUME NEW i \in Ids, NEW keep \in SUBSET Named, AskEdit(r, u, i, keep) PROVE Kept
  BY <1>0, <1>5, BeginsKeep DEF AskEdit
<1>6. CASE AskImport(r, u)
  BY <1>0, <1>6, BeginsKeep DEF AskImport
<1>7. CASE AskClose(r, u)
  BY <1>0, <1>7, BeginsKeep DEF AskClose
<1>8. CASE AskMail(r, u)
  BY <1>0, <1>8, BeginsKeep DEF AskMail
<1> QED BY <1>1, <1>2, <1>3, <1>4, <1>5, <1>6, <1>7, <1>8

\* A request that ends without rows of its own, its files deleted.
LEMMA EndsKeep ==
    ASSUME Base, NEW r \in Requests, NEW broken \in SUBSET (Pictures \ given), req[r] # NoRequest, UNCHANGED items, req' = Ended(r),
           files' = (files \ req[r].names) \cup broken, given' = given \cup broken, astray' = astray \cup broken
    PROVE  Kept
<1>0. RequestsTyped /\ Shapes /\ PicturesOk /\ ItemsTyped
  BY DEF Base, SavingTypeOK, RequestsTyped, ItemsTyped
<1>1. req' = Put(r, NoRequest)
  BY DEF Ended, Put
<1>2. RequestsTyped' /\ Shapes' /\ Alone(r) /\ req'[r] = NoRequest
  BY <1>0, <1>1, OneChanges
<1>3. Drops(r, broken)
  BY <1>2 DEF Drops
<1>4. ItemsTyped'
  BY <1>0 DEF ItemsTyped, Ids, Rows
<1> QED BY <1>0, <1>2, <1>3, <1>4, DropsKeep DEF Kept

\* Refused pictures, failed requests, broken writes, and the files that go at last.
LEMMA FailuresKeep ==
    ASSUME Base, NEW r \in Requests,
           \/ Refuse(r) /\ req[r].kind # "import"
           \/ ReadItem(r) /\ ~Own(r)
           \/ RollBack(r) \/ Tidy(r)
           \/ \E p \in Pictures : Break(r, p)
    PROVE  Kept
<1>1. CASE \E p \in Pictures : Break(r, p)
  <2> PICK p \in Pictures : Break(r, p)
    BY <1>1
  <2> QED BY EndsKeep DEF Break, WithoutNames, At, table
<1>2. CASE ~\E p \in Pictures : Break(r, p)
  <2>1. req[r] # NoRequest /\ UNCHANGED <<items, given, astray>> /\ req' = Ended(r) /\ files' = files \ req[r].names
    BY <1>2 DEF Refuse, ReadItem, RollBack, Tidy, Fail, WithoutNames, At, table
  <2>2. /\ {} \in SUBSET (Pictures \ given) /\ files' = (files \ req[r].names) \cup {}
        /\ given' = given \cup {} /\ astray' = astray \cup {}
    BY <2>1
  <2> QED BY <2>1, <2>2, EndsKeep
<1> QED BY <1>1, <1>2

\* A picture is stored, or was none, which an import notes.
LEMMA StoringKeeps ==
    ASSUME Base, NEW r \in Requests,
           \/ Refuse(r) /\ req[r].kind = "import"
           \/ \E p \in Pictures : StoreFile(r, p)
    PROVE  Kept
<1>0. RequestsTyped /\ Shapes /\ PicturesOk /\ ItemsTyped /\ given \subseteq Pictures
  BY DEF Base, SavingTypeOK, RequestsTyped, ItemsTyped
<1>1. PICK of \in Folders :
          /\ At(r, Brings, "storing") /\ req' = OneLess(r, of) /\ UNCHANGED <<items, astray>>
          /\ \/ of = {} /\ UNCHANGED <<files, given>>
             \/ \E p \in Pictures \ given : of = {p} /\ files' = files \cup {p} /\ given' = given \cup {p}
  <2>1. CASE Refuse(r) /\ req[r].kind = "import"
    BY <2>1 DEF Refuse, Folders, table
  <2>2. CASE \E p \in Pictures : StoreFile(r, p)
    BY <2>2 DEF StoreFile, Folders, table
  <2> QED BY <2>1, <2>2
<1>2. /\ req[r] # NoRequest /\ req[r] \in Requested /\ Shape(req[r]) /\ req[r].kind \in Brings /\ req[r].step = "storing"
      /\ req[r].left \in Nat /\ req[r].left > 0 /\ req[r].stored \in Seq(Folders) /\ req[r].names \subseteq Pictures
  BY <1>0, <1>1, IsRequested DEF At, Requested, Shape, Folders
<1>3. of \cap req[r].names = {}
  BY <1>0, <1>1, <1>2 DEF PicturesOk, NamesGiven
<1>4. PICK q : q = [req[r] EXCEPT !.left = req[r].left - 1, !.step = Then(r), !.names = req[r].names \cup of, !.stored = With(r, of)]
  OBVIOUS
<1>5. With(r, of) \in Seq(Folders) /\ Then(r) \in {"storing", "reading", "writing"} /\ Then(r) \in Steps
      /\ (Then(r) = "storing" <=> req[r].left > 1) /\ (req[r].kind = "import" => Then(r) # "writing") /\ req[r].left - 1 \in Nat
  BY <1>1, <1>2 DEF With, Then, Steps
<1>6. /\ q.left = req[r].left - 1 /\ q.step = Then(r) /\ q.names = req[r].names \cup of /\ q.stored = With(r, of)
      /\ q.kind = req[r].kind /\ q.known = req[r].known /\ q.then = req[r].then /\ q.keep = req[r].keep
      /\ q \in Requested
  <2>1. req[r].names \cup of \in Folders
    BY <1>1, <1>2 DEF Folders
  <2> QED BY <1>2, <1>4, <1>5, <2>1 DEF Requested
<1>7. Shape(q)
  <2>1. CASE req[r].kind = "import"
    <3>1. Len(req[r].stored) + req[r].left = Entries /\ Len(req[r].stored) \in Nat /\ With(r, of) = Append(req[r].stored, of)
      BY <2>1, <1>2 DEF Shape, With
    <3>2. /\ Len(With(r, of)) = Len(req[r].stored) + 1 /\ DOMAIN With(r, of) = 1..(Len(req[r].stored) + 1)
          /\ DOMAIN req[r].stored = 1..Len(req[r].stored)
          /\ With(r, of)[Len(req[r].stored) + 1] = of
          /\ \A e \in DOMAIN req[r].stored : With(r, of)[e] = req[r].stored[e]
      BY <3>1, <1>2
    <3>3. \A e \in DOMAIN With(r, of) : e \in DOMAIN req[r].stored \/ e = Len(req[r].stored) + 1
      BY <3>1, <3>2
    <3>4. \A e \in DOMAIN req[r].stored : req[r].stored[e] \subseteq req[r].names
      BY <2>1, <1>2 DEF Shape
    <3>5. \A e, f \in DOMAIN req[r].stored : e # f => req[r].stored[e] \cap req[r].stored[f] = {}
      BY <2>1, <1>2 DEF Shape
    <3>6. \A e \in DOMAIN q.stored : q.stored[e] \subseteq q.names
      BY <3>2, <3>3, <3>4, <1>6
    <3>7. \A e, f \in DOMAIN q.stored : e # f => q.stored[e] \cap q.stored[f] = {}
      BY <3>2, <3>3, <3>4, <3>5, <1>3, <1>6
    <3>8. Len(q.stored) + q.left = Entries /\ (q.step # "storing" => q.left = 0) /\ (q.step = "storing" => q.left > 0)
      <4>1. Len(q.stored) = Len(req[r].stored) + 1 /\ q.left = req[r].left - 1
        BY <3>2, <1>6
      <4>2. q.step = "storing" <=> req[r].left > 1
        BY <1>5, <1>6
      <4>3. Len(q.stored) + q.left = Entries
        BY <3>1, <4>1, <1>2, SavingParameters
      <4>4. q.step # "storing" => q.left = 0
        BY <4>1, <4>2, <1>2
      <4>5. q.step = "storing" => q.left > 0
        BY <4>1, <4>2, <1>2
      <4> QED BY <4>3, <4>4, <4>5
    <3> QED BY <2>1, <3>6, <3>7, <3>8, <1>6 DEF Shape
  <2>2. CASE req[r].kind # "import"
    <3>1. q.step = "storing" => q.left > 0
      BY <1>2, <1>5, <1>6
    <3> QED BY <3>1, <2>2, <1>2, <1>6 DEF Shape, Brings, Checked
  <2> QED BY <2>1, <2>2
<1>8. req' = Put(r, q)
  BY <1>0, <1>1, <1>4 DEF OneLess, Put, RequestsTyped
<1>9. RequestsTyped' /\ Shapes' /\ Alone(r) /\ req'[r] = q /\ q # NoRequest
  BY <1>0, <1>6, <1>7, <1>8, OneChanges, SavingDistinct
<1>10. ItemsTyped'
  BY <1>0, <1>1 DEF ItemsTyped, Ids, Rows
<1>11. Fresh(r) /\ Fresh(r)' /\ Knows(r)' = Knows(r) /\ ~At(r, {"remove"}, "writing")' /\ Names(r) = req[r].names
  BY <1>2, <1>5, <1>6, <1>9 DEF Fresh, Knows, At, Brings, Checked, Names
<1>12. CASE of = {} /\ UNCHANGED <<files, given>>
  <2>1. req'[r] # NoRequest /\ req'[r].names = Names(r) /\ UNCHANGED <<items, files, given, astray>>
    BY <1>1, <1>6, <1>9, <1>11, <1>12
  <2>2. \A p \in Knows(r)' : req[r] # NoRequest /\ p \in Knows(r)
    BY <1>2, <1>11
  <2>3. Notes(r)
    BY <2>1, <2>2, <1>9, <1>11 DEF Notes
  <2> QED BY <2>3, <1>0, <1>9, <1>10, NotesKeep DEF Kept
<1>13. CASE \E p \in Pictures \ given : of = {p} /\ files' = files \cup {p} /\ given' = given \cup {p}
  <2> PICK p \in Pictures \ given : of = {p} /\ files' = files \cup {p} /\ given' = given \cup {p}
    BY <1>13
  <2>1. Stores(r, p)
    BY <1>1, <1>6, <1>9, <1>11 DEF Stores
  <2> QED BY <2>1, <1>0, <1>9, <1>10, StoresKeep DEF Kept
<1> QED BY <1>1, <1>12, <1>13

\* A request that read something, of the item or of the account it is about.
LEMMA ReadKeeps ==
    ASSUME Base, NEW r \in Requests, NEW q \in Requested, req[r] # NoRequest, req[r].step \in {"reading", "checking"},
           UNCHANGED <<items, files, given, astray>>, req' = Put(r, q),
           q.kind = req[r].kind, q.user = req[r].user, q.id = req[r].id, q.keep = req[r].keep, q.left = req[r].left,
           q.names = req[r].names, q.stored = req[r].stored, q.step \in {"checking", "writing"},
           q.kind = "edit" /\ q.step = "writing" => q.keep \subseteq q.then,
           \A p \in q.known \cup q.then : p \in Knows(r) \/ \E i \in Ids : In(p, i),
           q.kind = "remove" => Own(r) /\ \A p \in q.known : In(p, q.id)
    PROVE  Kept
<1>0. RequestsTyped /\ Shapes /\ PicturesOk /\ ItemsTyped /\ Shape(req[r])
  BY DEF Base, SavingTypeOK, RequestsTyped, ItemsTyped, Shapes
<1>1. Shape(q)
  <2>1. q.kind \in {"edit", "remove", "close"} => q.names = {}
    BY <1>0 DEF Shape
  <2>2. q.kind = "import" =>
          /\ Len(q.stored) + q.left = Entries /\ q.left = 0
          /\ \A e \in DOMAIN q.stored : q.stored[e] \subseteq q.names
          /\ \A e, f \in DOMAIN q.stored : e # f => q.stored[e] \cap q.stored[f] = {}
    BY <1>0 DEF Shape
  <2> QED BY <2>1, <2>2 DEF Shape
<1>2. RequestsTyped' /\ Shapes' /\ Alone(r) /\ req'[r] = q /\ q # NoRequest
  BY <1>0, <1>1, OneChanges, SavingDistinct
<1>3. Fresh(r) /\ Fresh(r)' /\ Names(r) = req[r].names /\ Knows(r)' = q.known \cup q.then
  BY <1>2 DEF Fresh, Names, Knows
<1>4. At(r, {"remove"}, "writing")' => \A p \in q.known : Own(r)' /\ In(p, q.id)
  BY <1>2 DEF At, Own, Of, Saved, Ids
<1>5. Notes(r)
  BY <1>2, <1>3, <1>4 DEF Notes
<1>6. ItemsTyped'
  BY <1>0 DEF ItemsTyped, Ids, Rows
<1> QED BY <1>0, <1>2, <1>5, <1>6, NotesKeep DEF Kept

\* The reads of a transaction.
LEMMA ReadingKeeps ==
    ASSUME Base, NEW r \in Requests,
           \/ ReadItem(r) /\ Own(r)
           \/ ReadAgain(r) \/ ReadAccount(r) \/ ReadEntries(r) \/ HoldLock(r)
    PROVE  Kept
<1>0. RequestsTyped /\ Shapes /\ ItemsTyped
  BY DEF Base, SavingTypeOK, RequestsTyped, ItemsTyped
<1>1. /\ req[r] # NoRequest /\ req[r] \in Requested /\ Shape(req[r]) /\ req[r].step \in {"reading", "checking"}
      /\ UNCHANGED <<items, files, given, astray>>
  <2>1. req[r] # NoRequest /\ req[r].step \in {"reading", "checking"} /\ UNCHANGED <<items, files, given, astray>>
    BY DEF ReadItem, ReadAgain, ReadAccount, ReadEntries, HoldLock, At, table, store
  <2> QED BY <2>1, <1>0, IsRequested
<1>2. \A i \in Ids : items[i] # NoItem => items[i].pictures \in Folders /\ \A p \in items[i].pictures : In(p, i)
  BY <1>0 DEF ItemsTyped, Rows, Folders, In
<1>3. {"checking", "writing"} \subseteq Steps
  BY DEF Steps
<1>4. Own(r) => req[r].id \in Ids /\ items[req[r].id] # NoItem
  BY DEF Own, Of, Saved
<1>5. CASE req' = Ended(r) /\ req[r].kind \in {"edit", "close"}
  <2>1. req[r].names = {}
    BY <1>1, <1>5 DEF Shape
  <2>2. /\ {} \in SUBSET (Pictures \ given) /\ files' = (files \ req[r].names) \cup {}
        /\ given' = given \cup {} /\ astray' = astray \cup {}
    BY <1>1, <2>1
  <2> QED BY <2>2, <1>1, <1>5, EndsKeep
<1>6. CASE ReadItem(r) /\ Own(r)
  <2> PICK step : step = IF req[r].kind = "edit" THEN "checking" ELSE "writing"
    OBVIOUS
  <2> PICK q : q = [req[r] EXCEPT !.step = step, !.known = items[req[r].id].pictures]
    OBVIOUS
  <2>1. req' = Put(r, q)
    BY <1>0, <1>6 DEF ReadItem, Put, RequestsTyped
  <2>2. /\ q.kind = req[r].kind /\ q.user = req[r].user /\ q.id = req[r].id /\ q.keep = req[r].keep /\ q.left = req[r].left
        /\ q.names = req[r].names /\ q.stored = req[r].stored /\ q.step = step /\ q.known = items[req[r].id].pictures
        /\ q.then = req[r].then /\ q \in Requested
    BY <1>1, <1>2, <1>3, <1>4, <1>6 DEF Requested
  <2>3. q.kind = "edit" => q.step # "writing"
    BY <2>2
  <2>4. \A p \in q.known \cup q.then : p \in Knows(r) \/ \E i \in Ids : In(p, i)
    BY <2>2, <1>2, <1>4, <1>6 DEF Knows
  <2>5. \A p \in q.known : In(p, q.id)
    BY <2>2, <1>2, <1>4, <1>6
  <2> QED BY <1>1, <1>6, <2>1, <2>2, <2>3, <2>4, <2>5, ReadKeeps
<1>7. CASE ReadAgain(r) /\ req' # Ended(r)
  <2>0. Own(r) /\ req[r].keep \subseteq items[req[r].id].pictures /\ req[r].kind = "edit"
    BY <1>7 DEF ReadAgain, At
  <2> PICK q : q = [req[r] EXCEPT !.step = "writing", !.then = items[req[r].id].pictures]
    OBVIOUS
  <2>1. req' = Put(r, q)
    BY <1>0, <1>7, <2>0 DEF ReadAgain, Put, RequestsTyped
  <2>2. /\ q.kind = req[r].kind /\ q.user = req[r].user /\ q.id = req[r].id /\ q.keep = req[r].keep /\ q.left = req[r].left
        /\ q.names = req[r].names /\ q.stored = req[r].stored /\ q.step = "writing" /\ q.then = items[req[r].id].pictures
        /\ q.known = req[r].known /\ q \in Requested
    BY <1>1, <1>2, <1>3, <1>4, <2>0 DEF Requested
  <2>3. q.keep \subseteq q.then /\ q.kind # "remove"
    BY <2>0, <2>2
  <2>4. \A p \in q.known \cup q.then : p \in Knows(r) \/ \E i \in Ids : In(p, i)
    BY <2>0, <2>2, <1>2, <1>4 DEF Knows
  <2> QED BY <1>1, <2>1, <2>2, <2>3, <2>4, ReadKeeps
<1>8. CASE ReadAccount(r) /\ req' # Ended(r)
  <2>0. req[r].kind = "close"
    BY <1>8 DEF ReadAccount, At
  <2> PICK q : q = [req[r] EXCEPT !.step = "writing", !.known = AllOf(req[r].user)]
    OBVIOUS
  <2>1. req' = Put(r, q)
    BY <1>0, <1>8 DEF ReadAccount, Put, RequestsTyped
  <2>2. AllOf(req[r].user) \in Folders /\ \A p \in AllOf(req[r].user) : \E i \in Ids : In(p, i)
    BY <1>2 DEF AllOf, Of, Saved, Folders
  <2>3. /\ q.kind = req[r].kind /\ q.user = req[r].user /\ q.id = req[r].id /\ q.keep = req[r].keep /\ q.left = req[r].left
        /\ q.names = req[r].names /\ q.stored = req[r].stored /\ q.step = "writing" /\ q.known = AllOf(req[r].user)
        /\ q.then = req[r].then /\ q \in Requested
    BY <1>1, <1>3, <2>2 DEF Requested
  <2>4. \A p \in q.known \cup q.then : p \in Knows(r) \/ \E i \in Ids : In(p, i)
    BY <2>2, <2>3 DEF Knows
  <2> QED BY <1>1, <2>0, <2>1, <2>3, <2>4, ReadKeeps
<1>9. CASE ReadEntries(r) \/ HoldLock(r)
  <2>0. req[r].kind = "import"
    BY <1>9 DEF ReadEntries, HoldLock, At
  <2>1. Missing(r) # {} => Min(Missing(r)) \in 1..Entries
    <3>1. Missing(r) \subseteq Nat /\ Missing(r) \subseteq 1..Entries
      BY SavingParameters DEF Missing
    <3> QED BY <3>1, MinOfNumbers
  <2>2. PICK found \in SUBSET (1..Entries) : req' = Put(r, [req[r] EXCEPT !.step = "writing", !.found = found])
    <3>1. CASE ReadEntries(r)
      <4>1. (IF Missing(r) = {} THEN {} ELSE {Min(Missing(r))}) \in SUBSET (1..Entries)
        BY <2>1
      <4>2. req' = Put(r, [req[r] EXCEPT !.step = "writing", !.found = IF Missing(r) = {} THEN {} ELSE {Min(Missing(r))}])
        BY <3>1, <1>0 DEF ReadEntries, Put, RequestsTyped
      <4> QED BY <4>1, <4>2
    <3>2. CASE HoldLock(r)
      <4>1. req[r].found \in SUBSET (1..Entries)
        BY <1>1 DEF Requested
      <4>2. req[r] = [req[r] EXCEPT !.found = req[r].found]
        BY <1>1 DEF Requested
      <4>3. req' = Put(r, [req[r] EXCEPT !.step = "writing", !.found = req[r].found])
        BY <3>2, <4>2, <1>0, <1>1 DEF HoldLock, Put, RequestsTyped, Requested
      <4> QED BY <4>1, <4>3
    <3> QED BY <3>1, <3>2, <1>9
  <2> PICK q : q = [req[r] EXCEPT !.step = "writing", !.found = found]
    OBVIOUS
  <2>3. /\ q.kind = req[r].kind /\ q.user = req[r].user /\ q.id = req[r].id /\ q.keep = req[r].keep /\ q.left = req[r].left
        /\ q.names = req[r].names /\ q.stored = req[r].stored /\ q.step = "writing" /\ q.known = req[r].known
        /\ q.then = req[r].then /\ q \in Requested
    BY <1>1, <1>3 DEF Requested
  <2>4. \A p \in q.known \cup q.then : p \in Knows(r) \/ \E i \in Ids : In(p, i)
    BY <2>3 DEF Knows
  <2> QED BY <1>1, <2>0, <2>2, <2>3, <2>4, ReadKeeps
<1>10. ReadAgain(r) => req[r].kind = "edit"
  BY DEF ReadAgain, At
<1>11. ReadAccount(r) => req[r].kind = "close"
  BY DEF ReadAccount, At
<1> QED BY <1>5, <1>6, <1>7, <1>8, <1>9, <1>10, <1>11

\* A row's id is no item's.
LEMMA LastId ==
    Max(Saved \cup {0}) \in Nat /\ \A i \in Saved : i <= Max(Saved \cup {0})
<1>1. MaxId \in Nat /\ Saved \cup {0} \in SUBSET (0..MaxId) /\ Saved \cup {0} # {}
  BY SavingParameters DEF Saved, Ids
<1>2. Max(Saved \cup {0}) \in Saved \cup {0} /\ \A y \in Saved \cup {0} : Max(Saved \cup {0}) >= y
  BY <1>1, MaxOfBounded
<1> QED BY <1>1, <1>2

\* A transaction that writes its rows leaves the request at its end, or with files to delete.
LEMMA CommitsKeep ==
    ASSUME Base, NEW r \in Requests, NEW doomed \in Folders, req[r] # NoRequest, req[r].step = "writing",
           (req' = Ended(r) /\ doomed = {}) \/ req' = Deletes(r, doomed), UNCHANGED <<files, given>>
    PROVE  /\ RequestsTyped' /\ Shapes' /\ Fresh(r) /\ Alone(r) /\ req[r] \in Requested
           /\ \/ req'[r] = NoRequest /\ doomed = {}
              \/ req'[r] # NoRequest /\ ~Fresh(r)' /\ req'[r].names = doomed /\ Knows(r)' = Knows(r)
<1>0. RequestsTyped /\ Shapes /\ req[r] \in Requested
  BY IsRequested DEF Base, SavingTypeOK, RequestsTyped
<1>1. CASE req' = Ended(r) /\ doomed = {}
  <2>1. req' = Put(r, NoRequest)
    BY <1>1 DEF Ended, Put
  <2> QED BY <2>1, <1>0, <1>1, OneChanges DEF Fresh
<1>2. CASE req' = Deletes(r, doomed)
  <2> PICK q : q = [req[r] EXCEPT !.step = "tidying", !.names = doomed]
    OBVIOUS
  <2>1. req' = Put(r, q)
    BY <1>0, <1>2 DEF Deletes, Put, RequestsTyped
  <2>2. /\ q \in Requested /\ q.step = "tidying" /\ q.names = doomed /\ q.known = req[r].known /\ q.then = req[r].then
    BY <1>0 DEF Requested, Steps
  <2>3. Shape(q)
    BY <2>2 DEF Shape
  <2>4. RequestsTyped' /\ Shapes' /\ Alone(r) /\ req'[r] = q /\ q # NoRequest
    BY <1>0, <2>1, <2>2, <2>3, OneChanges, SavingDistinct
  <2> QED BY <1>0, <2>2, <2>4 DEF Fresh, Knows
<1> QED BY <1>1, <1>2

PutRow(i, row) == [items EXCEPT ![i] = row]

\* An item's row changes, and no other.
LEMMA OneRow ==
    ASSUME ItemsTyped, NEW i \in Ids, NEW row \in Rows \cup {NoItem}, items' = PutRow(i, row)
    PROVE  ItemsTyped' /\ items'[i] = row /\ \A j \in Ids \ {i} : items'[j] = items[j]
<1>1. items' \in [Ids -> Rows \cup {NoItem}] /\ items'[i] = row /\ \A j \in Ids \ {i} : items'[j] = items[j]
  BY DEF ItemsTyped, PutRow
<1> QED BY <1>1 DEF ItemsTyped, Ids, Rows

\* A new item.
LEMMA WriteItemKeeps ==
    ASSUME Base, NEW r \in Requests, WriteItem(r)
    PROVE  Kept
<1>0. RequestsTyped /\ Shapes /\ PicturesOk /\ ItemsTyped /\ accounts \subseteq Users
  BY DEF Base, SavingTypeOK, RequestsTyped, ItemsTyped
<1>1. req[r] # NoRequest /\ req[r].step = "writing" /\ req[r].user \in Users /\ UNCHANGED <<files, given, astray>> /\ req' = Ended(r)
  BY <1>0 DEF WriteItem, At, store
<1>2. /\ RequestsTyped' /\ Shapes' /\ Fresh(r) /\ Alone(r) /\ req[r] \in Requested
      /\ req'[r] = NoRequest
  <2>1. {} \in Folders /\ ({} = {})
    BY DEF Folders
  <2>2. req'[r] = NoRequest
    BY <1>0, <1>1 DEF Ended, RequestsTyped
  <2> QED BY <1>1, <2>1, <2>2, CommitsKeep
<1>3. PICK i \in NextIds(1) : items' = PutRow(i, [owner |-> req[r].user, pictures |-> req[r].names, of |-> NoEntry, changed |-> FALSE])
  BY DEF WriteItem, PutRow
<1> PICK row : row = [owner |-> req[r].user, pictures |-> req[r].names, of |-> NoEntry, changed |-> FALSE]
  OBVIOUS
<1>4. i \in Ids /\ items[i] = NoItem
  <2>1. i \in Ids
    BY DEF WriteItem
  <2>2. i = Max(Saved \cup {0}) + 1
    BY <1>3, LastId DEF NextIds
  <2> PICK last : last = Max(Saved \cup {0})
    OBVIOUS
  <2>3. i \notin Saved
    <3>1. last \in Nat /\ i = last + 1 /\ \A j \in Saved : j <= last
      BY <2>2, LastId
    <3> QED BY <3>1
  <2> QED BY <2>1, <2>3 DEF Saved
<1>5. row \in Rows /\ row # NoItem /\ row.pictures = req[r].names
  <2>1. req[r].user \in Users /\ req[r].names \in SUBSET Pictures
    BY <1>1, <1>2 DEF Requested, Folders
  <2>2. row \in Rows /\ row.pictures = req[r].names
    BY <2>1 DEF Rows
  <2> QED BY <2>2, SavingDistinct
<1>6. /\ ItemsTyped' /\ \A j \in Ids \ {i} : items'[j] = items[j] /\ \A p : In(p, j)' <=> In(p, j)
      /\ \A p : In(p, i)' <=> p \in req[r].names
  <2>1. ItemsTyped' /\ items'[i] = row /\ \A j \in Ids \ {i} : items'[j] = items[j]
    BY <1>0, <1>3, <1>4, <1>5, OneRow
  <2> QED BY <2>1, <1>5 DEF In
<1>7. \A p : ~In(p, i)
  BY <1>4 DEF In
<1>8. \A j \in Ids, p \in req[r].names : ~In(p, j)
  BY <1>0, <1>2 DEF PicturesOk, NewAreNobodys
<1>9. Writes(r, {})
  <2>1. \A j \in Ids : \A p : In(p, j)' => In(p, j) \/ p \in req[r].names
    BY <1>6
  <2>2. \A j, k \in Ids : \A p \in req[r].names : In(p, j)' /\ In(p, k)' => j = k
    BY <1>6, <1>8
  <2>3. \A j \in Ids : \A p : In(p, j) => In(p, j)'
    BY <1>6, <1>7
  <2>4. \A p \in req[r].names : \E j \in Ids : In(p, j)'
    BY <1>4, <1>6
  <2>5. \A j \in Ids : items[j] # NoItem => items'[j] = items[j]
    BY <1>4, <1>6
  <2> QED BY <1>1, <1>2, <2>1, <2>2, <2>3, <2>4, <2>5 DEF Writes
<1> QED BY <1>0, <1>2, <1>6, <1>9, WritesKeep DEF Kept

\* What is read of an item again tells which of its pictures crossed requests lost.
LEMMA WriteAddedKeeps ==
    ASSUME Base, NEW r \in Requests, WriteAdded(r)
    PROVE  Kept
<1>0. RequestsTyped /\ Shapes /\ PicturesOk /\ ItemsTyped
  BY DEF Base, SavingTypeOK, RequestsTyped, ItemsTyped
<1>1. req[r] # NoRequest /\ req[r].step = "writing" /\ UNCHANGED <<files, given>> /\ req' = Ended(r) /\ Own(r)
  BY <1>0 DEF WriteAdded, At, store
<1>2. /\ RequestsTyped' /\ Shapes' /\ Fresh(r) /\ Alone(r) /\ req[r] \in Requested
      /\ req'[r] = NoRequest
  <2>1. {} \in Folders /\ ({} = {})
    BY DEF Folders
  <2>2. req'[r] = NoRequest
    BY <1>0, <1>1 DEF Ended, RequestsTyped
  <2> QED BY <1>1, <2>1, <2>2, CommitsKeep
<1>3. PICK i \in Ids : i = req[r].id /\ items[i] # NoItem
  BY <1>1 DEF Own, Of, Saved
<1> PICK all : all = req[r].known \cup req[r].names
  OBVIOUS
<1> PICK row : row = [items[i] EXCEPT !.pictures = all]
  OBVIOUS
<1>4. items' = PutRow(i, row) /\ astray' = astray \cup Differ(req[r].known, items[i].pictures)
  BY <1>0, <1>3 DEF WriteAdded, ItemsTyped, PutRow
<1>5. row \in Rows /\ row # NoItem /\ row.pictures = all /\ row.owner = items[i].owner
  <2>1. items[i] \in Rows /\ all \in SUBSET Pictures
    BY <1>0, <1>2, <1>3 DEF ItemsTyped, Requested, Folders
  <2> QED BY <2>1, SavingDistinct DEF Rows
<1>6. /\ ItemsTyped' /\ items'[i] = row /\ \A j \in Ids \ {i} : items'[j] = items[j] /\ \A p : In(p, j)' <=> In(p, j)
      /\ \A p : In(p, i)' <=> p \in all
  <2>1. ItemsTyped' /\ items'[i] = row /\ \A j \in Ids \ {i} : items'[j] = items[j]
    BY <1>0, <1>4, <1>5, OneRow
  <2> QED BY <2>1, <1>5 DEF In
<1>7. \A p : In(p, i) <=> p \in items[i].pictures
  BY <1>3 DEF In
<1>8. \A j \in Ids, p \in req[r].names : ~In(p, j)
  BY <1>0, <1>2 DEF PicturesOk, NewAreNobodys
<1>9. Writes(r, {})
  <2>1. \A j \in Ids : \A p : In(p, j)' => In(p, j) \/ p \in req[r].names \/ (p \in Knows(r) /\ p \in astray')
    BY <1>4, <1>6, <1>7 DEF Knows, Differ
  <2>2. \A j, k \in Ids : \A p \in req[r].names : In(p, j)' /\ In(p, k)' => j = k
    BY <1>6, <1>8
  <2>3. \A j \in Ids : \A p : In(p, j) => In(p, j)' \/ p \in astray'
    BY <1>4, <1>6, <1>7 DEF Differ
  <2>4. \A p \in req[r].names : \E j \in Ids : In(p, j)'
    BY <1>6
  <2>5. \A j \in Ids : items[j] # NoItem /\ items'[j] # NoItem => items'[j].owner = items[j].owner
    BY <1>5, <1>6
  <2>6. astray \subseteq astray'
    BY <1>4
  <2> QED BY <1>1, <1>2, <2>1, <2>2, <2>3, <2>4, <2>5, <2>6 DEF Writes
<1> QED BY <1>0, <1>2, <1>6, <1>9, WritesKeep DEF Kept

\* An edit deletes what it read and doesn't keep.
LEMMA WriteKeptKeeps ==
    ASSUME Base, NEW r \in Requests, WriteKept(r)
    PROVE  Kept
<1>0. RequestsTyped /\ Shapes /\ PicturesOk /\ ItemsTyped
  BY DEF Base, SavingTypeOK, RequestsTyped, ItemsTyped
<1>1. /\ req[r] # NoRequest /\ req[r].kind = "edit" /\ req[r].step = "writing" /\ UNCHANGED <<files, given>> /\ Own(r)
      /\ req[r] \in Requested /\ Shape(req[r])
  <2>1. req[r] # NoRequest /\ req[r].kind = "edit" /\ req[r].step = "writing" /\ UNCHANGED <<files, given>> /\ Own(r)
    BY DEF WriteKept, At, store
  <2> QED BY <2>1, <1>0, IsRequested
<1>2. req[r].names = {} /\ req[r].keep \subseteq req[r].then
  BY <1>1 DEF Shape
<1> PICK doomed : doomed = req[r].known \ req[r].keep
  OBVIOUS
<1>3. doomed \in Folders /\ req' = Deletes(r, doomed)
  BY <1>1 DEF WriteKept, Doomed, Requested, Folders
<1>4. /\ RequestsTyped' /\ Shapes' /\ Fresh(r) /\ Alone(r)
      /\ \/ req'[r] = NoRequest /\ doomed = {}
         \/ req'[r] # NoRequest /\ ~Fresh(r)' /\ req'[r].names = doomed /\ Knows(r)' = Knows(r)
  BY <1>1, <1>3, CommitsKeep
<1>5. PICK i \in Ids : i = req[r].id /\ items[i] # NoItem
  BY <1>1 DEF Own, Of, Saved
<1> PICK changed \in BOOLEAN : items' = [items EXCEPT ![i].pictures = req[r].keep, ![i].changed = changed]
  BY <1>5 DEF WriteKept, Texts
<1> PICK row : row = [items[i] EXCEPT !.pictures = req[r].keep, !.changed = changed]
  OBVIOUS
<1>6. /\ items' = PutRow(i, row)
      /\ astray' = astray \cup Differ(req[r].known, items[i].pictures) \cup Differ(req[r].then, items[i].pictures)
  BY <1>0, <1>5 DEF WriteKept, ItemsTyped, PutRow
<1>7. row \in Rows /\ row # NoItem /\ row.pictures = req[r].keep /\ row.owner = items[i].owner
  <2>1. items[i] \in Rows /\ req[r].keep \in SUBSET Pictures
    BY <1>0, <1>1, <1>5 DEF ItemsTyped, Requested, Folders
  <2> QED BY <2>1, SavingDistinct DEF Rows
<1>8. /\ ItemsTyped' /\ items'[i] = row /\ \A j \in Ids \ {i} : items'[j] = items[j] /\ \A p : In(p, j)' <=> In(p, j)
      /\ \A p : In(p, i)' <=> p \in req[r].keep
  <2>1. ItemsTyped' /\ items'[i] = row /\ \A j \in Ids \ {i} : items'[j] = items[j]
    BY <1>0, <1>6, <1>7, OneRow
  <2> QED BY <2>1, <1>7 DEF In
<1>9. \A p : In(p, i) <=> p \in items[i].pictures
  BY <1>5 DEF In
<1>10. Writes(r, doomed)
  <2>1. \A j \in Ids : \A p : In(p, j)' => In(p, j) \/ (p \in Knows(r) /\ p \in astray')
    <3> SUFFICES ASSUME NEW p, In(p, i)', ~In(p, i) PROVE p \in Knows(r) /\ p \in astray'
      BY <1>8
    <3> QED BY <1>2, <1>6, <1>8, <1>9 DEF Knows, Differ
  <2>2. \A j \in Ids : \A p : In(p, j) => In(p, j)' \/ p \in astray' \cup doomed
    BY <1>6, <1>8, <1>9 DEF Differ
  <2>3. ASSUME NEW j \in Ids, NEW p \in doomed, In(p, j)' PROVE p \in astray'
    <3>1. j # i /\ In(p, j)
      BY <1>8, <2>3
    <3>2. CASE p \in items[i].pictures
      BY <3>1, <3>2, <1>0, <1>6, <1>9 DEF PicturesOk, OneItemEach
    <3>3. CASE p \notin items[i].pictures
      BY <3>3, <1>6 DEF Differ
    <3> QED BY <3>2, <3>3
  <2>4. \A j \in Ids : items[j] # NoItem /\ items'[j] # NoItem => items'[j].owner = items[j].owner
    BY <1>7, <1>8
  <2>5. astray \subseteq astray' /\ doomed \subseteq Knows(r)
    BY <1>6 DEF Knows
  <2> QED BY <1>1, <1>2, <1>4, <2>1, <2>2, <2>3, <2>4, <2>5 DEF Writes
<1> QED BY <1>0, <1>3, <1>4, <1>8, <1>10, WritesKeep DEF Kept

\* A removal deletes what it read, though there may be no row left.
LEMMA WriteRemovedKeeps ==
    ASSUME Base, NEW r \in Requests, WriteRemoved(r)
    PROVE  Kept
<1>0. RequestsTyped /\ Shapes /\ PicturesOk /\ ItemsTyped
  BY DEF Base, SavingTypeOK, RequestsTyped, ItemsTyped
<1>1. /\ req[r] # NoRequest /\ At(r, {"remove"}, "writing") /\ req[r].kind = "remove" /\ req[r].step = "writing"
      /\ UNCHANGED <<files, given>> /\ req[r] \in Requested /\ Shape(req[r])
  <2>1. /\ req[r] # NoRequest /\ At(r, {"remove"}, "writing") /\ req[r].kind = "remove" /\ req[r].step = "writing"
        /\ UNCHANGED <<files, given>>
    BY DEF WriteRemoved, At, store
  <2> QED BY <2>1, <1>0, IsRequested
<1>2. req[r].names = {}
  BY <1>1 DEF Shape
<1> PICK doomed : doomed = req[r].known
  OBVIOUS
<1>3. doomed \in Folders /\ req' = Deletes(r, doomed)
  BY <1>1 DEF WriteRemoved, Requested
<1>4. /\ RequestsTyped' /\ Shapes' /\ Fresh(r) /\ Alone(r)
      /\ \/ req'[r] = NoRequest /\ doomed = {}
         \/ req'[r] # NoRequest /\ ~Fresh(r)' /\ req'[r].names = doomed /\ Knows(r)' = Knows(r)
  BY <1>1, <1>3, CommitsKeep
<1>5. CASE ~Own(r)
  <2>1. UNCHANGED <<items, astray>>
    BY <1>5 DEF WriteRemoved
  <2>2. \A j \in Ids : \A p : In(p, j)' <=> In(p, j)
    BY <2>1 DEF In
  <2>3. \A j \in Ids : \A p \in doomed : In(p, j)' => p \in astray'
    BY <2>1, <2>2, <1>0, <1>1, <1>5 DEF PicturesOk, KnownIsThere
  <2>4. Writes(r, doomed)
    BY <2>1, <2>2, <2>3, <1>1, <1>2, <1>4 DEF Writes, Knows
  <2>5. ItemsTyped'
    BY <2>1, <1>0 DEF ItemsTyped, Ids, Rows
  <2> QED BY <2>4, <2>5, <1>0, <1>3, <1>4, WritesKeep DEF Kept
<1>6. CASE Own(r)
  <2>1. PICK i \in Ids : i = req[r].id /\ items[i] # NoItem
    BY <1>6 DEF Own, Of, Saved
  <2>2. items' = PutRow(i, NoItem) /\ astray' = astray \cup Differ(req[r].known, items[i].pictures)
    BY <2>1, <1>6 DEF WriteRemoved, PutRow
  <2>3. /\ ItemsTyped' /\ items'[i] = NoItem /\ \A j \in Ids \ {i} : items'[j] = items[j] /\ \A p : In(p, j)' <=> In(p, j)
        /\ \A p : ~In(p, i)'
    <3>1. ItemsTyped' /\ items'[i] = NoItem /\ \A j \in Ids \ {i} : items'[j] = items[j]
      BY <1>0, <2>2, OneRow
    <3> QED BY <3>1 DEF In
  <2>4. \A p : In(p, i) <=> p \in items[i].pictures
    BY <2>1 DEF In
  <2>5. Writes(r, doomed)
    <3>1. \A j \in Ids : \A p : In(p, j)' => In(p, j)
      BY <2>3
    <3>2. \A j \in Ids : \A p : In(p, j) => In(p, j)' \/ p \in astray' \cup doomed
      BY <2>2, <2>3, <2>4 DEF Differ
    <3>3. ASSUME NEW j \in Ids, NEW p \in doomed, In(p, j)' PROVE p \in astray'
      <4>1. j # i /\ In(p, j)
        BY <2>3, <3>3
      <4> QED BY <4>1, <1>0, <1>1, <2>1, <2>2 DEF PicturesOk, KnownIsThere
    <3>4. \A j \in Ids : items[j] # NoItem /\ items'[j] # NoItem => items'[j].owner = items[j].owner
      BY <2>3
    <3>5. astray \subseteq astray' /\ doomed \subseteq Knows(r)
      BY <2>2 DEF Knows
    <3> QED BY <1>1, <1>2, <1>4, <3>1, <3>2, <3>3, <3>4, <3>5 DEF Writes
  <2> QED BY <2>3, <2>5, <1>0, <1>3, <1>4, WritesKeep DEF Kept
<1> QED BY <1>5, <1>6

\* An account that closes takes its items along.
LEMMA WriteClosedKeeps ==
    ASSUME Base, NEW r \in Requests, WriteClosed(r)
    PROVE  Kept
<1>0. RequestsTyped /\ Shapes /\ PicturesOk /\ ItemsTyped
  BY DEF Base, SavingTypeOK, RequestsTyped, ItemsTyped
<1>1. /\ req[r] # NoRequest /\ req[r].kind = "close" /\ req[r].step = "writing"
      /\ UNCHANGED <<files, given>> /\ req[r] \in Requested /\ Shape(req[r])
  <2>1. /\ req[r] # NoRequest /\ req[r].kind = "close" /\ req[r].step = "writing" /\ UNCHANGED <<files, given>>
    BY DEF WriteClosed, At, store
  <2> QED BY <2>1, <1>0, IsRequested
<1>2. req[r].names = {}
  BY <1>1 DEF Shape
<1> PICK doomed : doomed = req[r].known
  OBVIOUS
<1> PICK mine : mine = Of(req[r].user)
  OBVIOUS
<1>3. doomed \in Folders /\ req' = Deletes(r, doomed)
  BY <1>1 DEF WriteClosed, Requested
<1>4. /\ RequestsTyped' /\ Shapes' /\ Fresh(r) /\ Alone(r)
      /\ \/ req'[r] = NoRequest /\ doomed = {}
         \/ req'[r] # NoRequest /\ ~Fresh(r)' /\ req'[r].names = doomed /\ Knows(r)' = Knows(r)
  BY <1>1, <1>3, CommitsKeep
<1>5. /\ items' = [i \in Ids |-> IF i \in mine THEN NoItem ELSE items[i]]
      /\ astray' = astray \cup Differ(req[r].known, AllOf(req[r].user))
  BY DEF WriteClosed
<1>6. /\ \A i \in Ids : i \in mine => items'[i] = NoItem
      /\ \A i \in Ids : i \notin mine => items'[i] = items[i]
      /\ ItemsTyped'
  BY <1>0, <1>5 DEF ItemsTyped, Ids, Rows
<1>7. \A i \in Ids : \A p : In(p, i)' <=> i \notin mine /\ In(p, i)
  BY <1>6 DEF In
<1>8. \A p : p \in AllOf(req[r].user) <=> \E i \in Ids : i \in mine /\ In(p, i)
  BY DEF AllOf, Of, Saved, In
<1>9. Writes(r, doomed)
  <2>1. \A j \in Ids : \A p : In(p, j)' => In(p, j)
    BY <1>7
  <2>2. \A j \in Ids : \A p : In(p, j) => In(p, j)' \/ p \in astray' \cup doomed
    BY <1>5, <1>7, <1>8 DEF Differ
  <2>3. ASSUME NEW j \in Ids, NEW p \in doomed, In(p, j)' PROVE p \in astray'
    <3>1. j \notin mine /\ In(p, j)
      BY <1>7, <2>3
    <3>2. CASE p \in AllOf(req[r].user)
      BY <3>1, <3>2, <1>0, <1>5, <1>8 DEF PicturesOk, OneItemEach
    <3>3. CASE p \notin AllOf(req[r].user)
      BY <3>3, <1>5 DEF Differ
    <3> QED BY <3>2, <3>3
  <2>4. \A j \in Ids : items[j] # NoItem /\ items'[j] # NoItem => items'[j].owner = items[j].owner
    BY <1>6
  <2>5. astray \subseteq astray' /\ doomed \subseteq Knows(r)
    BY <1>5 DEF Knows
  <2> QED BY <1>1, <1>2, <1>4, <2>1, <2>2, <2>3, <2>4, <2>5 DEF Writes
<1> QED BY <1>0, <1>3, <1>4, <1>6, <1>9, WritesKeep DEF Kept

UpTo(new, e) == Cardinality({f \in new : f <= e})

\* Entries get rows one after the other.
LEMMA RowsInTurn ==
    ASSUME NEW new \in SUBSET (1..Entries)
    PROVE  /\ Cardinality(new) \in Nat
           /\ \A e \in new : UpTo(new, e) \in 1..Cardinality(new)
           /\ \A e, g \in new : UpTo(new, e) = UpTo(new, g) => e = g
<1>0. Entries \in Nat /\ new \subseteq Nat
  BY SavingParameters
<1>1. IsFiniteSet(new) /\ Cardinality(new) \in Nat
  <2>1. IsFiniteSet(1..Entries)
    BY <1>0, FS_Interval
  <2>2. IsFiniteSet(new)
    BY <2>1, FS_Subset
  <2> QED BY <2>2, FS_CardinalityType
<1>2. ASSUME NEW e \in new
      PROVE  /\ IsFiniteSet({f \in new : f <= e}) /\ UpTo(new, e) \in Nat /\ UpTo(new, e) <= Cardinality(new) /\ UpTo(new, e) # 0
  <2> DEFINE S == {f \in new : f <= e}
  <2>1. S \in SUBSET new /\ e \in S
    BY <1>0
  <2>2. IsFiniteSet(S) /\ Cardinality(S) <= Cardinality(new)
    BY <2>1, <1>1, FS_Subset
  <2>3. Cardinality(S) \in Nat /\ Cardinality(S) # 0
    BY <2>1, <2>2, FS_CardinalityType, FS_EmptySet
  <2> QED BY <2>2, <2>3 DEF UpTo
<1>3. ASSUME NEW e \in new, NEW g \in new, e < g
      PROVE  UpTo(new, e) # UpTo(new, g)
  <2> DEFINE S == {f \in new : f <= e}
  <2> DEFINE T == {f \in new : f <= g}
  <2>0. e \in Nat /\ g \in Nat /\ \A f \in new : f \in Nat
    BY <1>0
  <2>1. S \in SUBSET T /\ g \in T /\ g \notin S
    <3>1. \A f \in new : f <= e => f <= g
      BY <2>0, <1>3
    <3>2. ~(g <= e) /\ g <= g
      BY <2>0, <1>3
    <3> QED BY <3>1, <3>2
  <2>2. IsFiniteSet(T)
    BY <1>2
  <2>3. Cardinality(S) = Cardinality(T) => T = S
    BY <2>1, <2>2, FS_Subset
  <2> QED BY <2>1, <2>3 DEF UpTo
<1>4. ASSUME NEW e \in new, NEW g \in new, UpTo(new, e) = UpTo(new, g)
      PROVE  e = g
  <2>1. e < g \/ g < e \/ e = g
    BY <1>0
  <2> QED BY <2>1, <1>3, <1>4
<1>5. ASSUME NEW e \in new PROVE UpTo(new, e) \in 1..Cardinality(new)
  <2> PICK u, n : u = UpTo(new, e) /\ n = Cardinality(new)
    OBVIOUS
  <2>1. u \in Nat /\ n \in Nat /\ u <= n /\ u # 0
    BY <1>1, <1>2
  <2>2. u \in 1..n
    BY <2>1
  <2> QED BY <2>2
<1> QED BY <1>1, <1>4, <1>5

\* The rows an import writes: each new entry has one, which was no item's, and the
\* other rows are as they were.
LEMMA ImportsRows ==
    ASSUME Base, NEW r \in Requests, WriteImport(r), NEW new \in SUBSET (1..Entries), new = NewEntries(r)
    PROVE  /\ \A i \in Ids : \/ items'[i] = items[i]
                             \/ \E e \in new : /\ items[i] = NoItem
                                               /\ items'[i] = [owner |-> req[r].user, pictures |-> req[r].stored[e], of |-> e, changed |-> FALSE]
           /\ \A e \in new : \E i \in Ids : /\ items[i] = NoItem
                                            /\ items'[i] = [owner |-> req[r].user, pictures |-> req[r].stored[e], of |-> e, changed |-> FALSE]
           /\ \A i, j \in Ids : \A e \in new :
                 items[i] = NoItem /\ items[j] = NoItem /\ items'[i] # NoItem /\ items'[j] # NoItem
                 /\ items'[i].of = e /\ items'[j].of = e => i = j
<1> PICK last : last = Max(Saved \cup {0})
  OBVIOUS
<1> DEFINE place(e) == last + UpTo(new, e)
<1> DEFINE row(e) == [owner |-> req[r].user, pictures |-> req[r].stored[e], of |-> e, changed |-> FALSE]
<1>1. last \in Nat /\ \A i \in Saved : i <= last
  BY LastId
<1>2. \A i \in Ids : items'[i] = IF \E e \in new : place(e) = i THEN row(CHOOSE e \in new : place(e) = i) ELSE items[i]
  BY DEF WriteImport, UpTo
<1>3. \A e \in new : place(e) \in Ids
  <2>1. (last + 1)..(last + Cardinality(new)) \subseteq Ids
    BY DEF WriteImport, NextIds
  <2> TAKE e \in new
  <2> PICK u, n : u = UpTo(new, e) /\ n = Cardinality(new)
    OBVIOUS
  <2>2. n \in Nat /\ u \in 1..n
    BY RowsInTurn
  <2>3. last + u \in (last + 1)..(last + n)
    BY <2>2, <1>1
  <2> QED BY <2>1, <2>3
<1>4. \A e, g \in new : place(e) = place(g) => e = g
  <2> SUFFICES ASSUME NEW e \in new, NEW g \in new, last + UpTo(new, e) = last + UpTo(new, g) PROVE e = g
    OBVIOUS
  <2>1. UpTo(new, e) \in Int /\ UpTo(new, g) \in Int
    BY RowsInTurn
  <2>2. UpTo(new, e) = UpTo(new, g)
    BY <2>1, <1>1
  <2> QED BY <2>2, RowsInTurn
<1>5. \A e \in new : items[place(e)] = NoItem
  <2> TAKE e \in new
  <2>1. UpTo(new, e) \in Int /\ UpTo(new, e) >= 1
    BY RowsInTurn
  <2>2. ~(place(e) <= last)
    BY <2>1, <1>1
  <2>3. place(e) \notin Saved
    BY <2>2, <1>1
  <2> QED BY <2>3, <1>3 DEF Saved
<1> HIDE DEF place
<1>6. \A i \in Ids, e \in new : place(e) = i => items'[i] = row(e) /\ items[i] = NoItem
  <2> TAKE i \in Ids, e \in new
  <2> HAVE place(e) = i
  <2>1. (CHOOSE g \in new : place(g) = i) = e
    BY <1>4
  <2> QED BY <2>1, <1>2, <1>5
<1>7. \A i \in Ids : items'[i] # items[i] => \E e \in new : place(e) = i
  BY <1>2
<1>8. \A i \in Ids : items[i] = NoItem /\ items'[i] # NoItem => \E e \in new : place(e) = i
  BY <1>7
<1>9. \A e \in new : row(e).of = e
  OBVIOUS
<1>10. \A i, j \in Ids : \A e \in new :
          items[i] = NoItem /\ items[j] = NoItem /\ items'[i] # NoItem /\ items'[j] # NoItem
          /\ items'[i].of = e /\ items'[j].of = e => i = j
  <2> SUFFICES ASSUME NEW i \in Ids, NEW j \in Ids, NEW e \in new, items[i] = NoItem, items[j] = NoItem,
                      items'[i] # NoItem, items'[j] # NoItem, items'[i].of = e, items'[j].of = e
               PROVE  i = j
    OBVIOUS
  <2>1. place(e) = i
    <3> PICK g \in new : place(g) = i
      BY <1>8
    <3>1. items'[i] = row(g)
      BY <1>6
    <3>2. items'[i].of = g
      BY <3>1, <1>9
    <3> QED BY <3>2
  <2>2. place(e) = j
    <3> PICK g \in new : place(g) = j
      BY <1>8
    <3>1. items'[j] = row(g)
      BY <1>6
    <3>2. items'[j].of = g
      BY <3>1, <1>9
    <3> QED BY <3>2
  <2> QED BY <2>1, <2>2
<1>11. \A i \in Ids : items'[i] = items[i] \/ \E e \in new : items[i] = NoItem /\ items'[i] = row(e)
  BY <1>6, <1>7
<1>12. \A e \in new : \E i \in Ids : items[i] = NoItem /\ items'[i] = row(e)
  BY <1>3, <1>6
<1> QED BY <1>10, <1>11, <1>12

\* An import writes what is new of what it stored, and deletes the rest.
LEMMA WriteImportKeeps ==
    ASSUME Base, NEW r \in Requests, WriteImport(r)
    PROVE  Kept
<1>0. RequestsTyped /\ Shapes /\ PicturesOk /\ ItemsTyped /\ accounts \subseteq Users
  BY DEF Base, SavingTypeOK, RequestsTyped, ItemsTyped
<1>1. /\ req[r] # NoRequest /\ req[r].kind = "import" /\ req[r].step = "writing" /\ req[r].user \in Users
      /\ UNCHANGED <<files, given, astray>> /\ req[r] \in Requested /\ Shape(req[r])
  <2>1. /\ req[r] # NoRequest /\ req[r].kind = "import" /\ req[r].step = "writing" /\ UNCHANGED <<files, given, astray>>
        /\ req[r].user \in accounts
    BY DEF WriteImport, At, store
  <2> QED BY <2>1, <1>0, IsRequested
<1>2. PICK new \in SUBSET (1..Entries) : new = NewEntries(r)
  BY <1>1 DEF NewEntries, Missing, Requested
<1> PICK doomed : doomed = req[r].names \ UNION {req[r].stored[e] : e \in new}
  OBVIOUS
<1>3. doomed \in Folders /\ req' = Deletes(r, doomed)
  BY <1>1, <1>2 DEF WriteImport, Requested, Folders
<1>4. /\ RequestsTyped' /\ Shapes' /\ Fresh(r) /\ Alone(r)
      /\ \/ req'[r] = NoRequest /\ doomed = {}
         \/ req'[r] # NoRequest /\ ~Fresh(r)' /\ req'[r].names = doomed /\ Knows(r)' = Knows(r)
  BY <1>1, <1>3, CommitsKeep
<1>5. /\ new \subseteq DOMAIN req[r].stored
      /\ \A e \in new : req[r].stored[e] \in Folders /\ req[r].stored[e] \subseteq req[r].names
      /\ \A e, f \in new : e # f => req[r].stored[e] \cap req[r].stored[f] = {}
  <2>1. req[r].stored \in Seq(Folders) /\ req[r].left = 0 /\ Len(req[r].stored) + req[r].left = Entries
    BY <1>1 DEF Shape, Requested
  <2>2. Len(req[r].stored) = Entries
    BY <2>1
  <2>3. DOMAIN req[r].stored = 1..Entries
    BY <2>1, <2>2
  <2>4. \A e \in DOMAIN req[r].stored : req[r].stored[e] \in Folders
    BY <2>1
  <2>5. /\ \A e \in DOMAIN req[r].stored : req[r].stored[e] \subseteq req[r].names
        /\ \A e, f \in DOMAIN req[r].stored : e # f => req[r].stored[e] \cap req[r].stored[f] = {}
    BY <1>1 DEF Shape
  <2> QED BY <2>3, <2>4, <2>5
<1> DEFINE row(e) == [owner |-> req[r].user, pictures |-> req[r].stored[e], of |-> e, changed |-> FALSE]
<1>6. /\ \A i \in Ids : items'[i] = items[i] \/ \E e \in new : items[i] = NoItem /\ items'[i] = row(e)
      /\ \A e \in new : \E i \in Ids : items[i] = NoItem /\ items'[i] = row(e)
      /\ \A i, j \in Ids : \A e \in new :
            items[i] = NoItem /\ items[j] = NoItem /\ items'[i] # NoItem /\ items'[j] # NoItem
            /\ items'[i].of = e /\ items'[j].of = e => i = j
  BY <1>2, ImportsRows
<1>7. \A e \in new : row(e) \in Rows /\ row(e) # NoItem /\ row(e).pictures = req[r].stored[e] /\ row(e).of = e
  <2> TAKE e \in new
  <2>1. row(e).pictures = req[r].stored[e] /\ row(e).of = e
    OBVIOUS
  <2>2. req[r].user \in Users /\ req[r].stored[e] \in SUBSET Pictures /\ e \in 1..Entries
    BY <1>1, <1>5 DEF Folders
  <2>3. row(e) \in Rows
    BY <2>2 DEF Rows
  <2> QED BY <2>1, <2>3, SavingDistinct
<1> HIDE DEF row
<1>8. ItemsTyped'
  <2>1. \A i \in Ids : items'[i] \in Rows \cup {NoItem}
    BY <1>0, <1>6, <1>7 DEF ItemsTyped
  <2>2. items' = [i \in Ids |-> items'[i]]
    BY <1>1 DEF WriteImport
  <2>3. items' \in [Ids -> Rows \cup {NoItem}]
    BY <2>1, <2>2
  <2> QED BY <2>3 DEF ItemsTyped, Ids, Rows
<1>9. \A i \in Ids : items[i] # NoItem => items'[i] = items[i]
  BY <1>6
<1>10. \A i \in Ids : \A p : In(p, i) => In(p, i)'
  BY <1>9 DEF In
<1>11. \A i \in Ids : \A p : In(p, i)' => In(p, i) \/ \E e \in new : items[i] = NoItem /\ items'[i] = row(e) /\ p \in req[r].stored[e]
  BY <1>6, <1>7 DEF In
<1>12. \A j \in Ids, p \in req[r].names : ~In(p, j)
  BY <1>0, <1>4 DEF PicturesOk, NewAreNobodys
<1>13. Writes(r, doomed)
  <2>1. \A j \in Ids : \A p : In(p, j)' => In(p, j) \/ p \in req[r].names
    BY <1>5, <1>11
  <2>2. ASSUME NEW i \in Ids, NEW j \in Ids, NEW p \in req[r].names, In(p, i)', In(p, j)' PROVE i = j
    <3>1. PICK e \in new : items[i] = NoItem /\ items'[i] = row(e) /\ p \in req[r].stored[e]
      BY <2>2, <1>11, <1>12
    <3>2. PICK f \in new : items[j] = NoItem /\ items'[j] = row(f) /\ p \in req[r].stored[f]
      BY <2>2, <1>11, <1>12
    <3>3. e = f
      BY <3>1, <3>2, <1>5
    <3> QED BY <3>1, <3>2, <3>3, <1>6, <1>7
  <2>3. \A p \in req[r].names : p \in doomed \/ \E j \in Ids : In(p, j)'
    <3> SUFFICES ASSUME NEW p \in req[r].names, p \notin doomed PROVE \E j \in Ids : In(p, j)'
      OBVIOUS
    <3>1. PICK e \in new : p \in req[r].stored[e]
      OBVIOUS
    <3>2. PICK j \in Ids : items[j] = NoItem /\ items'[j] = row(e)
      BY <1>6
    <3>3. In(p, j)'
      BY <3>1, <3>2, <1>7 DEF In
    <3> QED BY <3>3
  <2>4. \A j \in Ids : \A p \in doomed : ~In(p, j)'
    <3>1. \A p \in doomed : p \in req[r].names /\ \A e \in new : p \notin req[r].stored[e]
      OBVIOUS
    <3> QED BY <3>1, <1>11, <1>12
  <2>5. \A j \in Ids : items[j] # NoItem /\ items'[j] # NoItem => items'[j].owner = items[j].owner
    BY <1>9
  <2>6. astray \subseteq astray' /\ doomed \subseteq req[r].names
    BY <1>1
  <2> QED BY <1>1, <1>4, <1>10, <2>1, <2>2, <2>3, <2>4, <2>5, <2>6 DEF Writes
<1> QED BY <1>0, <1>3, <1>4, <1>8, <1>13, WritesKeep DEF Kept

\* Every step of a request leaves requests, items and pictures as they should be.
LEMMA WorkKeeps ==
    ASSUME Base, NEW r \in Requests, Work(r)
    PROVE  Kept
<1>1. CASE \E p \in Pictures : StoreFile(r, p)
  BY <1>1, StoringKeeps
<1>2. CASE \E p \in Pictures : Break(r, p)
  BY <1>2, FailuresKeep
<1>3. CASE Refuse(r)
  BY <1>3, StoringKeeps, FailuresKeep
<1>4. CASE ReadItem(r)
  BY <1>4, ReadingKeeps, FailuresKeep
<1>5. CASE ReadAgain(r) \/ ReadAccount(r) \/ ReadEntries(r) \/ HoldLock(r)
  BY <1>5, ReadingKeeps
<1>6. CASE RollBack(r) \/ Tidy(r)
  BY <1>6, FailuresKeep
<1>7. CASE WriteItem(r) \/ WriteAdded(r) \/ WriteKept(r) \/ WriteRemoved(r) \/ WriteClosed(r) \/ WriteImport(r)
  BY <1>7, WriteItemKeeps, WriteAddedKeeps, WriteKeptKeeps, WriteRemovedKeeps, WriteClosedKeeps, WriteImportKeeps
<1> QED BY <1>1, <1>2, <1>3, <1>4, <1>5, <1>6, <1>7 DEF Work

\* A stop cuts requests off, and what they stored or had yet to delete is astray.
LEMMA RestartKeeps ==
    ASSUME Base, Restart
    PROVE  Kept
<1>0. RequestsTyped /\ Shapes /\ PicturesOk /\ ItemsTyped
  BY DEF Base, SavingTypeOK, RequestsTyped, ItemsTyped
<1>1. /\ UNCHANGED <<items, files, given>> /\ req' = [r \in Requests |-> NoRequest]
      /\ astray' = astray \cup UNION {req[r].names : r \in UnderWay}
  BY DEF Restart, table, store
<1>2. \A r \in Requests : req'[r] = NoRequest
  BY <1>1
<1>3. RequestsTyped' /\ Shapes' /\ ItemsTyped'
  BY <1>0, <1>1, <1>2 DEF RequestsTyped, Requested, Shapes, ItemsTyped, Steps, Kinds, Folders, Ids, Rows
<1>4. \A i \in Ids : \A p : In(p, i)' <=> In(p, i)
  BY <1>1 DEF In
<1>5. \A r \in Requests : ~Fresh(r)' /\ ~At(r, {"remove"}, "writing")' /\ Names(r)' = {}
  BY <1>2 DEF Fresh, At, Names
<1>6. NamesGiven' /\ NewAreNobodys' /\ DeletesWhatIsGone' /\ KnownIsThere'
  <2>1. NamesGiven'
    BY <1>0, <1>1, <1>2, <1>4 DEF PicturesOk, NamesGiven, Ids
  <2>2. NewAreNobodys'
    BY <1>5 DEF NewAreNobodys
  <2>3. DeletesWhatIsGone'
    BY <1>2 DEF DeletesWhatIsGone
  <2>4. KnownIsThere'
    BY <1>5 DEF KnownIsThere
  <2> QED BY <2>1, <2>2, <2>3, <2>4
<1>7. OneItemEach' /\ NothingMissing'
  BY <1>0, <1>1, <1>4 DEF PicturesOk, OneItemEach, NothingMissing, Ids
<1>8. NothingLost'
  <2> SUFFICES ASSUME NEW p \in files, p \notin astray' PROVE \E i \in Ids : In(p, i)
    BY <1>1, <1>4 DEF NothingLost, Ids
  <2>1. \A r \in Requests : p \notin Names(r)
    BY <1>1 DEF Names, UnderWay
  <2> QED BY <2>1, <1>0, <1>1 DEF PicturesOk, NothingLost
<1> QED BY <1>3, <1>6, <1>7, <1>8 DEF Kept, PicturesOk

\* What is no request's step changes none of it.
LEMMA RestKeeps ==
    ASSUME Base, UNCHANGED <<items, files, given, astray, req>>
    PROVE  Kept
BY DEF Base, Kept, SavingTypeOK, RequestsTyped, ItemsTyped, Shapes, PicturesOk, NamesGiven, NewAreNobodys, OneItemEach,
       DeletesWhatIsGone, KnownIsThere, NothingLost, NothingMissing, In, Fresh, Knows, Names, At, Own, Of, Saved, Ids,
       Requested, Rows, Folders, Kinds, Steps, Shape

\* A title of its page leaves an item's owner, pictures and entry as they are.
LEMMA RetitleKeeps ==
    ASSUME Base, NEW i \in Ids, items[i] \in Rows, items' = PutRow(i, [items[i] EXCEPT !.changed = TRUE]),
           UNCHANGED <<files, given, astray, req>>
    PROVE  /\ Kept
           /\ \A k \in Ids : items'[k] # NoItem =>
                 items[k] # NoItem /\ items'[k].owner = items[k].owner /\ items'[k].of = items[k].of
<1> PICK row : row = [items[i] EXCEPT !.changed = TRUE]
  OBVIOUS
<1>0. ItemsTyped /\ RequestsTyped /\ Shapes /\ PicturesOk /\ items[i] # NoItem
  BY SavingDistinct DEF Base, SavingTypeOK, ItemsTyped, RequestsTyped
<1>1. /\ row \in Rows /\ row # NoItem /\ row.owner = items[i].owner /\ row.pictures = items[i].pictures
      /\ row.of = items[i].of
  BY SavingDistinct DEF Rows
<1>2. ItemsTyped' /\ items'[i] = row /\ \A k \in Ids \ {i} : items'[k] = items[k]
  BY <1>0, <1>1, OneRow
<1>3. /\ \A k \in Ids : (items'[k] # NoItem <=> items[k] # NoItem)
      /\ \A k \in Ids : items[k] # NoItem => items'[k].owner = items[k].owner /\ items'[k].of = items[k].of
      /\ \A k \in Ids : \A p : In(p, k)' <=> In(p, k)
  BY <1>0, <1>1, <1>2 DEF In
<1>4. \A r \in Requests : (Own(r)' <=> Own(r)) /\ (Fresh(r)' <=> Fresh(r)) /\ Knows(r)' = Knows(r) /\ Names(r)' = Names(r)
                           /\ (At(r, {"remove"}, "writing")' <=> At(r, {"remove"}, "writing"))
  BY <1>3 DEF Own, Of, Saved, Ids, Fresh, Knows, Names, At
<1>5. PicturesOk'
  <2>1. NamesGiven' /\ NewAreNobodys' /\ OneItemEach'
    BY <1>0, <1>3, <1>4 DEF PicturesOk, NamesGiven, NewAreNobodys, OneItemEach, Ids
  <2>2. DeletesWhatIsGone' /\ KnownIsThere'
    BY <1>0, <1>3, <1>4 DEF PicturesOk, DeletesWhatIsGone, KnownIsThere, Ids
  <2>3. NothingLost' /\ NothingMissing'
    BY <1>0, <1>3, <1>4 DEF PicturesOk, NothingLost, NothingMissing, Ids
  <2> QED BY <2>1, <2>2, <2>3 DEF PicturesOk
<1>6. RequestsTyped' /\ Shapes'
  BY <1>0 DEF RequestsTyped, Requested, Shapes, Shape, Steps, Kinds, Folders, Ids
<1> QED BY <1>2, <1>3, <1>5, <1>6 DEF Kept

\* A request begins by asking.
LEMMA AsksAre ==
    ASSUME NEW r \in Requests, Asks(r)
    PROVE  \E new : Ask(r, new)
BY DEF Asks, AskCapture, AskMail, AskAdd, AskEdit, AskRemove, AskImport, AskClose

\* Files have names that were given, and a step stores one at most.
LEMMA FilesKeep ==
    ASSUME Base, IsFiniteSet(files), NEW r \in Requests, Asks(r) \/ TurnAway(r) \/ Work(r)
    PROVE  IsFiniteSet(files') /\ files' \subseteq given' /\ given' \subseteq Pictures
<1>0. files \subseteq given /\ given \subseteq Pictures
  BY DEF Base, SavingTypeOK
<1> DEFINE Changes(lost, new) == /\ files' = (files \ lost) \cup new /\ given' = given \cup new
                                 /\ new = {} \/ \E p \in Pictures : new = {p}
<1>1. PICK lost, new : Changes(lost, new)
  <2>1. CASE Asks(r) \/ TurnAway(r)
    <3>1. UNCHANGED <<files, given>>
      BY <2>1, AsksAre DEF Ask, TurnAway, store
    <3>2. Changes({}, {})
      BY <3>1
    <3> QED BY <3>2
  <2>2. CASE \E p \in Pictures : StoreFile(r, p) \/ Break(r, p)
    <3> PICK p \in Pictures : StoreFile(r, p) \/ Break(r, p)
      BY <2>2
    <3>1. /\ files' = (files \ {}) \cup {p} \/ files' = (files \ req[r].names) \cup {p}
          /\ given' = given \cup {p}
      BY DEF StoreFile, Break, WithoutNames
    <3>2. Changes({}, {p}) \/ Changes(req[r].names, {p})
      BY <3>1
    <3> QED BY <3>2
  <2>3. CASE Refuse(r) \/ ReadItem(r) \/ RollBack(r) \/ Tidy(r)
    <3>1. (files' = files \/ files' = files \ req[r].names) /\ given' = given
      BY <2>3 DEF Refuse, ReadItem, RollBack, Tidy, Fail, WithoutNames
    <3>2. Changes({}, {}) \/ Changes(req[r].names, {})
      BY <3>1
    <3> QED BY <3>2
  <2>4. CASE \/ ReadAgain(r) \/ ReadAccount(r) \/ ReadEntries(r) \/ HoldLock(r) \/ WriteItem(r) \/ WriteAdded(r)
             \/ WriteKept(r) \/ WriteRemoved(r) \/ WriteClosed(r) \/ WriteImport(r)
    <3>1. UNCHANGED <<files, given>>
      BY <2>4 DEF ReadAgain, ReadAccount, ReadEntries, HoldLock, WriteItem, WriteAdded, WriteKept, WriteRemoved, WriteClosed,
                  WriteImport, store
    <3>2. Changes({}, {})
      BY <3>1
    <3> QED BY <3>2
  <2> QED BY <2>1, <2>2, <2>3, <2>4 DEF Work
<1>2. IsFiniteSet(files \ lost)
  BY FS_Subset
<1>3. IsFiniteSet(files')
  <2>1. CASE new = {}
    BY <2>1, <1>1, <1>2
  <2>2. CASE \E p \in Pictures : new = {p}
    BY <2>2, <1>1, <1>2, FS_AddElement
  <2> QED BY <2>1, <2>2, <1>1
<1> QED BY <1>0, <1>1, <1>3

\* What went astray was given, accounts are never new, and doubled entries are the export's.
LEMMA StrayKeeps ==
    ASSUME Base, NEW r \in Requests, Asks(r) \/ TurnAway(r) \/ Work(r)
    PROVE  /\ accounts' \subseteq Users /\ astray' \subseteq given' /\ doubled' \subseteq 1..Entries
           /\ doubled \subseteq doubled'
<1>0. /\ accounts \subseteq Users /\ astray \subseteq given /\ doubled \subseteq 1..Entries /\ RequestsTyped /\ Shapes
      /\ NamesGiven
  BY DEF Base, SavingTypeOK, RequestsTyped, PicturesOk
<1>1. CASE Asks(r) \/ TurnAway(r)
  <2>1. UNCHANGED <<accounts, given, astray, doubled>>
    BY <1>1, AsksAre DEF Ask, TurnAway, store, table
  <2> QED BY <2>1, <1>0
<1>2. CASE \E p \in Pictures : StoreFile(r, p) \/ Break(r, p)
  <2> PICK p \in Pictures : StoreFile(r, p) \/ Break(r, p)
    BY <1>2
  <2>1. /\ UNCHANGED <<accounts, doubled>> /\ given' = given \cup {p} /\ astray' \subseteq astray \cup {p}
    BY DEF StoreFile, Break, table
  <2> QED BY <2>1, <1>0
<1>3. CASE \/ Refuse(r) \/ ReadItem(r) \/ ReadAgain(r) \/ ReadAccount(r) \/ ReadEntries(r) \/ HoldLock(r) \/ WriteItem(r)
           \/ RollBack(r) \/ Tidy(r)
  <2>1. UNCHANGED <<accounts, given, astray, doubled>>
    BY <1>3 DEF Refuse, ReadItem, ReadAgain, ReadAccount, ReadEntries, HoldLock, WriteItem, RollBack, Tidy, store, table
  <2> QED BY <2>1, <1>0
<1>4. req[r] # NoRequest => Knows(r) \subseteq given /\ req[r] \in Requested
  BY <1>0, IsRequested DEF NamesGiven
<1>5. Own(r) => items[req[r].id].pictures \subseteq given
  BY <1>0 DEF Own, Of, Saved, NamesGiven, In
<1>6. CASE WriteAdded(r)
  <2>1. /\ UNCHANGED <<accounts, given, doubled>> /\ req[r] # NoRequest /\ Own(r)
        /\ astray' = astray \cup Differ(req[r].known, items[req[r].id].pictures)
    BY <1>6 DEF WriteAdded, At, store
  <2> QED BY <2>1, <1>0, <1>4, <1>5 DEF Differ, Knows
<1>7. CASE WriteKept(r)
  <2>1. /\ UNCHANGED <<accounts, given, doubled>> /\ req[r] # NoRequest /\ Own(r)
        /\ astray' = astray \cup Differ(req[r].known, items[req[r].id].pictures) \cup Differ(req[r].then, items[req[r].id].pictures)
    BY <1>7 DEF WriteKept, At, store
  <2> QED BY <2>1, <1>0, <1>4, <1>5 DEF Differ, Knows
<1>8. CASE WriteRemoved(r)
  <2>1. UNCHANGED <<accounts, given, doubled>> /\ req[r] # NoRequest
    BY <1>8 DEF WriteRemoved, At, store
  <2>2. astray' = astray \cup IF Own(r) THEN Differ(req[r].known, items[req[r].id].pictures) ELSE {}
    BY <1>8 DEF WriteRemoved
  <2> QED BY <2>1, <2>2, <1>0, <1>4, <1>5 DEF Differ, Knows
<1>9. CASE WriteClosed(r)
  <2>1. /\ UNCHANGED <<given, doubled>> /\ accounts' \subseteq accounts /\ req[r] # NoRequest
        /\ astray' = astray \cup Differ(req[r].known, AllOf(req[r].user))
    BY <1>9 DEF WriteClosed, At, store
  <2>2. AllOf(req[r].user) \subseteq given
    BY <1>0 DEF AllOf, Of, Saved, NamesGiven, In
  <2> QED BY <2>1, <2>2, <1>0, <1>4 DEF Differ, Knows
<1>10. CASE WriteImport(r)
  <2>1. /\ UNCHANGED <<accounts, given, astray>> /\ req[r] # NoRequest
        /\ doubled' = doubled \cup (req[r].found \ Missing(r)) \cup (Missing(r) \cap Unrecognised(req[r].user))
    BY <1>10 DEF WriteImport, At, store
  <2>2. req[r].found \subseteq 1..Entries /\ Missing(r) \subseteq 1..Entries
    BY <2>1, <1>4 DEF Requested, Missing
  <2> QED BY <2>1, <2>2, <1>0
<1> QED BY <1>1, <1>2, <1>3, <1>6, <1>7, <1>8, <1>9, <1>10 DEF Work

\* Rows that keep their owners and entries, or have no entry, don't double one.
LEMMA RowsStay ==
    ASSUME NothingIsDoubled, doubled \subseteq doubled',
           \A i \in Ids : items'[i] # NoItem =>
               \/ items'[i].of = NoEntry
               \/ items[i] # NoItem /\ items'[i].owner = items[i].owner /\ items'[i].of = items[i].of
    PROVE  NothingIsDoubled'
<1> SUFFICES ASSUME NEW u \in Users, NEW i \in Ids, NEW j \in Ids, i # j, items'[i] # NoItem, items'[j] # NoItem,
                    items'[i].owner = u, items'[j].owner = u, items'[i].of = items'[j].of, items'[i].of # NoEntry
             PROVE  items'[i].of \in doubled'
  BY DEF NothingIsDoubled, Of, Saved, Ids
<1>1. i \in Of(u) /\ j \in Of(u) /\ items[i].of = items[j].of /\ items'[i].of = items[i].of
  BY DEF Of, Saved
<1> QED BY <1>1 DEF NothingIsDoubled

\* No step of a request doubles an entry unseen.
LEMMA DoubledKeeps ==
    ASSUME Base, NothingIsDoubled, NEW r \in Requests, Asks(r) \/ TurnAway(r) \/ Work(r)
    PROVE  NothingIsDoubled'
<1>0. RequestsTyped /\ Shapes /\ ItemsTyped /\ doubled \subseteq doubled'
  BY StrayKeeps DEF Base, SavingTypeOK, RequestsTyped, ItemsTyped
<1>1. CASE Asks(r) \/ TurnAway(r)
  <2>1. UNCHANGED items
    BY <1>1, AsksAre DEF Ask, TurnAway, table
  <2> QED BY <2>1, <1>0, RowsStay
<1>2. CASE \/ \E p \in Pictures : StoreFile(r, p) \/ Break(r, p)
           \/ Refuse(r) \/ ReadItem(r) \/ ReadAgain(r) \/ ReadAccount(r) \/ ReadEntries(r) \/ HoldLock(r)
           \/ RollBack(r) \/ Tidy(r)
  <2>1. UNCHANGED items
    BY <1>2 DEF StoreFile, Break, Refuse, ReadItem, ReadAgain, ReadAccount, ReadEntries, HoldLock, RollBack, Tidy, table
  <2> QED BY <2>1, <1>0, RowsStay
<1>3. CASE WriteItem(r) \/ WriteAdded(r) \/ WriteKept(r) \/ WriteRemoved(r) \/ WriteClosed(r)
  <2>1. \A i \in Ids : items'[i] # NoItem =>
            \/ items'[i].of = NoEntry
            \/ items[i] # NoItem /\ items'[i].owner = items[i].owner /\ items'[i].of = items[i].of
    <3> TAKE i \in Ids
    <3>0. items[i] \in Rows \cup {NoItem}
      BY <1>0 DEF ItemsTyped
    <3>1. CASE WriteItem(r)
      BY <3>1, <3>0, <1>0 DEF WriteItem, ItemsTyped
    <3>2. CASE WriteAdded(r)
      <4>1. req[r].id \in Ids /\ items[req[r].id] # NoItem
        BY <3>2 DEF WriteAdded, Own, Of, Saved
      <4> QED BY <3>2, <3>0, <4>1, <1>0 DEF WriteAdded, ItemsTyped, Rows
    <3>3. CASE WriteKept(r)
      <4>1. req[r].id \in Ids /\ items[req[r].id] # NoItem
        BY <3>3 DEF WriteKept, Own, Of, Saved
      <4> QED BY <3>3, <3>0, <4>1, <1>0 DEF WriteKept, ItemsTyped, Rows
    <3>4. CASE WriteRemoved(r)
      BY <3>4, <1>0 DEF WriteRemoved, ItemsTyped
    <3>5. CASE WriteClosed(r)
      BY <3>5 DEF WriteClosed
    <3> QED BY <3>1, <3>2, <3>3, <3>4, <3>5, <1>3
  <2> QED BY <2>1, <1>0, RowsStay
<1>4. CASE WriteImport(r)
  <2> SUFFICES ASSUME NEW u \in Users, NEW i \in Ids, NEW j \in Ids, i # j, items'[i] # NoItem, items'[j] # NoItem,
                      items'[i].owner = u, items'[j].owner = u, items'[i].of = items'[j].of, items'[i].of # NoEntry
               PROVE  items'[i].of \in doubled'
    BY DEF NothingIsDoubled, Of, Saved, Ids
  <2>1. PICK new \in SUBSET (1..Entries) : new = NewEntries(r)
    <3>1. req[r] \in Requested
      BY <1>0, <1>4, IsRequested DEF WriteImport, At
    <3> QED BY <3>1 DEF NewEntries, Missing, Requested
  <2> DEFINE row(e) == [owner |-> req[r].user, pictures |-> req[r].stored[e], of |-> e, changed |-> FALSE]
  <2>2. /\ \A k \in Ids : items'[k] = items[k] \/ \E e \in new : items[k] = NoItem /\ items'[k] = row(e)
        /\ \A k, l \in Ids : \A e \in new :
              items[k] = NoItem /\ items[l] = NoItem /\ items'[k] # NoItem /\ items'[l] # NoItem
              /\ items'[k].of = e /\ items'[l].of = e => k = l
    BY <2>1, <1>4, ImportsRows
  <2>3. \A e \in new : row(e).owner = req[r].user /\ row(e).of = e
    OBVIOUS
  <2> HIDE DEF row
  <2>4. /\ doubled' = doubled \cup (req[r].found \ Missing(r)) \cup (Missing(r) \cap Unrecognised(req[r].user))
        /\ new \subseteq req[r].found \cup Missing(r)
    BY <1>4, <2>1 DEF WriteImport, NewEntries
  <2>5. ASSUME NEW k \in Ids, NEW l \in Ids, items[k] # NoItem, items'[k] = items[k], items'[k].owner = u,
               items[l] = NoItem, items'[l] # NoItem, items'[l].owner = u, items'[k].of = items'[l].of
        PROVE  items'[l].of \in doubled'
    <3>1. PICK e \in new : items'[l] = row(e)
      BY <2>2, <2>5
    <3>2. items[k].owner = req[r].user /\ items[k].of = e
      BY <3>1, <2>3, <2>5
    <3>3. e \notin Here(req[r].user) => e \in Unrecognised(req[r].user)
      BY <3>2, <2>5 DEF Unrecognised, Of, Saved
    <3>4. e \in Missing(r) => e \in Unrecognised(req[r].user)
      BY <3>3 DEF Missing
    <3> QED BY <3>1, <3>4, <2>3, <2>4
  <2>6. CASE items[i] # NoItem /\ items[j] # NoItem
    <3>1. i \in Of(u) /\ j \in Of(u) /\ items[i].of = items[j].of /\ items'[i].of = items[i].of
      BY <2>2, <2>6 DEF Of, Saved
    <3> QED BY <3>1, <1>0 DEF NothingIsDoubled
  <2>7. CASE items[i] = NoItem /\ items[j] = NoItem
    <3>1. PICK e \in new : items'[i] = row(e)
      BY <2>2, <2>7
    <3> QED BY <3>1, <2>2, <2>3, <2>7
  <2>8. CASE items[i] # NoItem /\ items[j] = NoItem
    BY <2>2, <2>5, <2>8
  <2>9. CASE items[i] = NoItem /\ items[j] # NoItem
    BY <2>2, <2>5, <2>9
  <2> QED BY <2>6, <2>7, <2>8, <2>9
<1> QED BY <1>1, <1>2, <1>3, <1>4 DEF Work

\* The size last measured is at most as old as the server has been full.
RoomSeen ==
    /\ Size < Limit => sinceRoom = 0
    /\ used >= Limit \/ sinceRoom <= age

Clock == used \in Nat /\ age \in 0..Minute /\ sinceRoom \in 0..Minute /\ events \in 0..MaxEvents

\* What a step does about the storage's size, and when the size was seen.
LEMMA StorageSteps ==
    ASSUME NEW r \in Requests, Asks(r) \/ TurnAway(r) \/ Work(r), Clock
    PROVE  /\ Measure \/ UNCHANGED storage
           /\ events' \in 0..MaxEvents
<1>1. MaxEvents \in Nat
  BY SavingParameters
<1>2. CASE Asks(r)
  BY <1>1, <1>2, AsksAre DEF Ask, Event, Clock
<1>3. CASE TurnAway(r)
  BY <1>3 DEF TurnAway, Clock
<1>4. CASE \E p \in Pictures : StoreFile(r, p) \/ Break(r, p)
  BY <1>4 DEF StoreFile, Break, Clock
<1>5. CASE Refuse(r) \/ ReadItem(r) \/ ReadAgain(r) \/ ReadAccount(r) \/ ReadEntries(r) \/ HoldLock(r) \/ RollBack(r) \/ Tidy(r)
  BY <1>5 DEF Refuse, ReadItem, ReadAgain, ReadAccount, ReadEntries, HoldLock, RollBack, Tidy, Clock
<1>6. CASE WriteItem(r) \/ WriteAdded(r) \/ WriteKept(r) \/ WriteRemoved(r) \/ WriteClosed(r) \/ WriteImport(r)
  BY <1>6 DEF WriteItem, WriteAdded, WriteKept, WriteRemoved, WriteClosed, WriteImport, Clock
<1> QED BY <1>2, <1>3, <1>4, <1>5, <1>6 DEF Work

\* Sizes and times when a request takes a step.
LEMMA ClockKeeps ==
    ASSUME Clock, RoomSeen, IsFiniteSet(files), IsFiniteSet(files'), NEW r \in Requests, Asks(r) \/ TurnAway(r) \/ Work(r), RoomIsSeen
    PROVE  Clock' /\ RoomSeen'
<1>0. Limit \in Nat /\ Minute \in Nat /\ used \in Nat /\ age \in 0..Minute /\ sinceRoom \in 0..Minute
  BY SavingParameters DEF Clock
<1>1. Size \in Nat /\ Cardinality(files') \in Nat
  BY FS_CardinalityType DEF Size
<1>2. sinceRoom' = IF Size < Limit \/ Cardinality(files') < Limit THEN 0 ELSE sinceRoom
  BY DEF RoomIsSeen
<1>3. sinceRoom' \in 0..Minute /\ (sinceRoom' = 0 \/ sinceRoom' = sinceRoom)
  BY <1>0, <1>2
<1>4. (UNCHANGED <<used, age>>) \/ (used' = Size /\ age' = 0)
  BY StorageSteps DEF Measure, storage
<1>5. events' \in 0..MaxEvents
  BY StorageSteps
<1>6. used' \in Nat /\ age' \in 0..Minute
  BY <1>0, <1>1, <1>4
<1>7. Cardinality(files') < Limit => sinceRoom' = 0
  BY <1>2
<1>8. used' >= Limit \/ sinceRoom' <= age'
  <2>1. CASE UNCHANGED <<used, age>>
    BY <2>1, <1>0, <1>3 DEF RoomSeen
  <2>2. CASE used' = Size /\ age' = 0
    BY <2>2, <1>0, <1>1, <1>2
  <2> QED BY <2>1, <2>2, <1>4
<1> QED BY <1>3, <1>5, <1>6, <1>7, <1>8 DEF Clock, RoomSeen, Size

\* The least of two numbers.
LEMMA LeastOfTwo ==
    ASSUME NEW a \in Nat, NEW b \in Nat
    PROVE  Min({a, b}) \in {a, b} /\ Min({a, b}) <= a /\ Min({a, b}) <= b
<1>1. {a, b} \in SUBSET Nat /\ {a, b} # {}
  OBVIOUS
<1>2. Min({a, b}) \in {a, b} /\ \A y \in {a, b} : Min({a, b}) <= y
  BY <1>1, MinOfNumbers
<1> QED BY <1>2

\* Sizes and times when time passes, or the server stops.
LEMMA ClockGoesOn ==
    ASSUME Clock, RoomSeen, IsFiniteSet(files), Tick \/ (Restart /\ RoomIsSeen)
    PROVE  Clock' /\ RoomSeen'
<1>0. /\ Limit \in Nat /\ Minute \in Nat /\ used \in Nat /\ age \in 0..Minute /\ sinceRoom \in 0..Minute
      /\ events \in 0..MaxEvents
  BY SavingParameters DEF Clock
<1>1. UNCHANGED <<files, used>> /\ Size' = Size
  BY DEF Tick, Restart, store, Size
<1>2. CASE Restart /\ RoomIsSeen
  <2>1. age' = Minute /\ UNCHANGED events
    BY <1>2 DEF Restart
  <2>2. sinceRoom' = IF Size < Limit THEN 0 ELSE sinceRoom
    BY <1>1, <1>2 DEF RoomIsSeen, Size
  <2>3. sinceRoom' \in 0..Minute /\ age' \in 0..Minute /\ sinceRoom' <= age'
    BY <1>0, <2>1, <2>2
  <2> QED BY <1>0, <1>1, <2>1, <2>2, <2>3 DEF Clock, RoomSeen
<1>3. CASE Tick
  <2> PICK a, s : a = Min({age + 1, Minute}) /\ s = Min({sinceRoom + 1, Minute})
    OBVIOUS
  <2>1. age' = a /\ UNCHANGED events /\ sinceRoom' = IF Size < Limit THEN 0 ELSE s
    BY <1>3 DEF Tick
  <2>2. a \in {age + 1, Minute} /\ a <= age + 1 /\ a <= Minute /\ s \in {sinceRoom + 1, Minute} /\ s <= sinceRoom + 1 /\ s <= Minute
    <3>1. age + 1 \in Nat /\ sinceRoom + 1 \in Nat
      BY <1>0
    <3> QED BY <3>1, <1>0, LeastOfTwo
  <2>3. a \in 0..Minute /\ s \in 0..Minute
    BY <1>0, <2>2
  <2>4. sinceRoom <= age => s <= a
    BY <1>0, <2>2
  <2>5. age' \in 0..Minute /\ sinceRoom' \in 0..Minute
    BY <2>1, <2>3, <1>0
  <2>6. used' >= Limit \/ sinceRoom' <= age'
    BY <1>1, <2>1, <2>3, <2>4, <1>0 DEF RoomSeen
  <2> QED BY <1>0, <1>1, <2>1, <2>5, <2>6 DEF Clock, RoomSeen
<1> QED BY <1>2, <1>3

\* The inductive invariant.
SavingOk == Base /\ IsFiniteSet(files) /\ NothingIsDoubled /\ RoomSeen

\* It holds to begin with, with nothing saved and nothing under way.
LEMMA SavingStarts == SavingInit => SavingOk
<1> SUFFICES ASSUME SavingInit PROVE SavingOk
  OBVIOUS
<1>0. /\ Limit \in Nat \ {0} /\ Minute \in Nat /\ MaxEvents \in Nat
  BY SavingParameters
<1>1. /\ items \in [Ids -> Rows \cup {NoItem}] /\ req \in [Requests -> Requested \cup {NoRequest}]
      /\ \A i \in Ids : items[i] = NoItem
      /\ \A r \in Requests : req[r] = NoRequest
  BY DEF SavingInit
<1>2. SavingTypeOK
  BY <1>0, <1>1 DEF SavingTypeOK, SavingInit
<1>3. (\A i \in Ids : \A p : ~In(p, i)) /\ \A r \in Requests : ~Fresh(r) /\ ~At(r, {"remove"}, "writing")
  BY <1>1 DEF In, Fresh, At
<1>4. Shapes /\ NamesGiven /\ NewAreNobodys /\ OneItemEach /\ DeletesWhatIsGone /\ KnownIsThere /\ NothingMissing
  BY <1>1, <1>3 DEF Shapes, NamesGiven, NewAreNobodys, OneItemEach, DeletesWhatIsGone, KnownIsThere, NothingMissing
<1>5. NothingLost /\ IsFiniteSet(files)
  BY FS_EmptySet DEF NothingLost, SavingInit
<1>6. NothingIsDoubled
  BY <1>1 DEF NothingIsDoubled, Of, Saved
<1>7. RoomSeen
  BY <1>0 DEF RoomSeen, SavingInit
<1> QED BY <1>2, <1>4, <1>5, <1>6, <1>7 DEF SavingOk, Base, PicturesOk

\* Every step preserves it.
LEMMA SavingGoesOn == SavingOk /\ [SavingNext]_savingVars => SavingOk'
<1> SUFFICES ASSUME SavingOk, [SavingNext]_savingVars PROVE SavingOk'
  OBVIOUS
<1>0. Base /\ IsFiniteSet(files) /\ NothingIsDoubled /\ RoomSeen /\ Clock
  BY DEF SavingOk, Base, SavingTypeOK, Clock
<1>1. ASSUME Kept, Clock', accounts' \subseteq Users, files' \subseteq given', given' \subseteq Pictures, astray' \subseteq given',
             doubled' \subseteq 1..Entries
      PROVE  Base'
  BY <1>1 DEF Base, Kept, SavingTypeOK, RequestsTyped, ItemsTyped, Clock
<1>2. ASSUME NEW r \in Requests, Asks(r) \/ TurnAway(r) \/ Work(r), RoomIsSeen
      PROVE  SavingOk'
  <2>1. Kept
    <3>1. CASE Asks(r)
      BY <1>0, <3>1, AsksKeep
    <3>2. CASE TurnAway(r)
      BY <1>0, <3>2, RestKeeps DEF TurnAway, table, store
    <3>3. CASE Work(r)
      BY <1>0, <3>3, WorkKeeps
    <3> QED BY <1>2, <3>1, <3>2, <3>3
  <2>2. IsFiniteSet(files') /\ files' \subseteq given' /\ given' \subseteq Pictures
    BY <1>0, <1>2, FilesKeep
  <2>3. accounts' \subseteq Users /\ astray' \subseteq given' /\ doubled' \subseteq 1..Entries
    BY <1>0, <1>2, StrayKeeps
  <2>4. NothingIsDoubled'
    BY <1>0, <1>2, DoubledKeeps
  <2>5. Clock' /\ RoomSeen'
    BY <1>0, <1>2, <2>2, ClockKeeps
  <2>6. Base'
    BY <1>1, <2>1, <2>2, <2>3, <2>5
  <2> QED BY <2>2, <2>4, <2>5, <2>6 DEF SavingOk
<1>3. ASSUME Tick \/ (Restart /\ RoomIsSeen) \/ UNCHANGED savingVars PROVE SavingOk'
  <2>1. UNCHANGED <<items, accounts, files, given, doubled>>
    BY <1>3 DEF Tick, Restart, savingVars, table, store
  <2>2. Kept
    <3>1. CASE Tick \/ UNCHANGED savingVars
      BY <1>0, <3>1, RestKeeps DEF Tick, savingVars, table, store
    <3>2. CASE Restart
      BY <1>0, <3>2, RestartKeeps
    <3> QED BY <1>3, <3>1, <3>2
  <2>3. Clock' /\ RoomSeen'
    <3>1. CASE UNCHANGED savingVars
      BY <1>0, <3>1 DEF savingVars, Clock, RoomSeen, Size
    <3> QED BY <1>0, <1>3, <3>1, ClockGoesOn
  <2>4. astray' \subseteq given'
    <3>1. \A r \in Requests : req[r] # NoRequest => req[r].names \subseteq given
      BY <1>0 DEF Base, PicturesOk, NamesGiven
    <3>2. astray' = astray \/ astray' = astray \cup UNION {req[r].names : r \in UnderWay}
      BY <1>3 DEF Tick, Restart, savingVars
    <3>3. astray \subseteq given
      BY <1>0 DEF Base, SavingTypeOK
    <3> QED BY <2>1, <3>1, <3>2, <3>3 DEF UnderWay
  <2>5. accounts' \subseteq Users /\ files' \subseteq given' /\ given' \subseteq Pictures /\ doubled' \subseteq 1..Entries
    BY <1>0, <2>1 DEF Base, SavingTypeOK
  <2>6. NothingIsDoubled'
    BY <1>0, <2>1 DEF NothingIsDoubled, Of, Saved, Ids
  <2>7. Base'
    BY <1>1, <2>2, <2>3, <2>4, <2>5
  <2> QED BY <1>0, <2>1, <2>3, <2>6, <2>7 DEF SavingOk
<1>4. ASSUME NEW i \in Ids, Retitle(i), RoomIsSeen PROVE SavingOk'
  <2>1. UNCHANGED <<accounts, files, given, used, age, req, astray, doubled, events>>
    BY <1>4 DEF Retitle, store, storage
  <2>2. /\ items[i] \in Rows
        /\ items' = PutRow(i, [items[i] EXCEPT !.changed = TRUE])
    BY <1>0, <1>4 DEF Retitle, Saved, PutRow, Base, SavingTypeOK
  <2>3. Kept /\ \A k \in Ids : items'[k] # NoItem =>
            items[k] # NoItem /\ items'[k].owner = items[k].owner /\ items'[k].of = items[k].of
    BY <1>0, <1>4, <2>1, <2>2, RetitleKeeps
  <2>4. NothingIsDoubled'
    BY <1>0, <2>1, <2>3, RowsStay
  <2>5. Clock' /\ RoomSeen'
    <3>1. sinceRoom' = 0 \/ sinceRoom' = sinceRoom
      BY <1>4 DEF RoomIsSeen
    <3>2. sinceRoom' \in 0..Minute /\ Size' = Size /\ (Size < Limit => sinceRoom' = 0)
      BY <1>0, <2>1, <1>4, <3>1, SavingParameters DEF Clock, Size, RoomIsSeen
    <3> QED BY <1>0, <2>1, <3>1, <3>2, SavingParameters DEF Clock, RoomSeen
  <2>6. Base'
    BY <1>0, <1>1, <2>1, <2>3, <2>5 DEF Base, SavingTypeOK
  <2> QED BY <1>0, <2>1, <2>4, <2>5, <2>6 DEF SavingOk
<1> QED BY <1>2, <1>3, <1>4 DEF SavingNext

\* Whatever requests cross, fail or are cut off, what is stored stays in order: the
\* invariant that the properties below rest on.
THEOREM SavingInvariance == SavingSpec => []SavingOk
<1> QED BY SavingStarts, SavingGoesOn, PTL DEF SavingSpec

\* Every variable has its type, whatever the requests do.
THEOREM SavingTypeCorrect == SavingSpec => []SavingTypeOK
<1>1. SavingOk => SavingTypeOK
  BY DEF SavingOk, Base
<1> QED BY <1>1, SavingInvariance, PTL

\* Every picture an item shows has its file, for any requests at once, in any order of
\* their steps, but for those that crossed requests lost track of.
THEOREM ItemsHaveTheirFiles == SavingSpec => []PicturesHaveFiles
<1>1. SavingOk => PicturesHaveFiles
  BY DEF SavingOk, Base, PicturesOk, NothingMissing, PicturesHaveFiles, Named, Saved, In
<1> QED BY <1>1, SavingInvariance, PTL

\* When nothing is under way, no file is left that is no item's.
THEOREM NoOrphansStay == SavingSpec => []NoFileIsLeft
<1>1. SavingOk => NoFileIsLeft
  <2> SUFFICES ASSUME SavingOk, UnderWay = {}, NEW p \in files, p \notin astray PROVE p \in Named
    BY DEF NoFileIsLeft
  <2>1. \A r \in Requests : Names(r) = {}
    BY DEF UnderWay, Names
  <2>2. PICK i \in Ids : In(p, i)
    BY <2>1 DEF SavingOk, Base, PicturesOk, NothingLost
  <2> QED BY <2>2 DEF Named, Saved, In
<1> QED BY <1>1, SavingInvariance, PTL

\* An export brought in again, twice at once or after a failure, adds no item that is
\* there, unless two imports looked for it before either wrote, or its item's address,
\* title or text had changed.
THEOREM ImportsDoubleNothing == SavingSpec => []NothingIsDoubled
<1>1. SavingOk => NothingIsDoubled
  BY DEF SavingOk
<1> QED BY <1>1, SavingInvariance, PTL

\* No request that brings files begins once storage has been full for a minute,
\* though the size is measured once a minute at most, but for mail, which isn't held
\* to the limit.
THEOREM FullStorageStops == SavingSpec => StopsWhenFull
<1>1. SavingOk /\ [SavingNext]_savingVars =>
        [\A r \in Requests : Begins(r, Checked) => sinceRoom < Minute]_savingVars
  <2> SUFFICES ASSUME SavingOk, SavingNext, NEW r \in Requests, req[r] = NoRequest, req'[r] # NoRequest, req'[r].kind \in Checked
               PROVE  sinceRoom < Minute
    BY DEF Begins
  <2>0. /\ RoomSeen /\ Limit \in Nat /\ Minute \in Nat \ {0} /\ used \in Nat /\ age \in 0..Minute /\ sinceRoom \in 0..Minute
        /\ Size \in Nat /\ req \in [Requests -> Requested \cup {NoRequest}]
    BY SavingParameters, FS_CardinalityType DEF SavingOk, Base, SavingTypeOK, Size
  <2>1. PICK k \in Requests : Asks(k) \/ TurnAway(k) \/ Work(k)
    <3>1. ~Tick /\ ~Restart /\ \A i \in Ids : ~Retitle(i)
      BY DEF Tick, Restart, Retitle
    <3> QED BY <3>1 DEF SavingNext
  <2>2. ~TurnAway(k)
    BY DEF TurnAway
  <2>3. ~Work(k)
    <3> SUFFICES ASSUME Work(k) PROVE FALSE
      OBVIOUS
    <3>1. req[k] # NoRequest
      BY DEF Work, StoreFile, Break, Refuse, ReadItem, ReadAgain, ReadAccount, ReadEntries, HoldLock, WriteItem, WriteAdded,
             WriteKept, WriteRemoved, WriteClosed, WriteImport, RollBack, Tidy, At
    <3>2. CASE (\E p \in Pictures : StoreFile(k, p)) \/ Refuse(k)
      BY <3>1, <3>2, <2>0 DEF StoreFile, Refuse, OneLess, Ended
    <3>3. CASE (\E p \in Pictures : Break(k, p)) \/ ReadItem(k) \/ ReadAgain(k) \/ ReadAccount(k)
      BY <3>1, <3>3, <2>0 DEF Break, ReadItem, ReadAgain, ReadAccount, Ended, Fail
    <3>4. CASE ReadEntries(k) \/ HoldLock(k) \/ RollBack(k) \/ Tidy(k)
      BY <3>1, <3>4, <2>0 DEF ReadEntries, HoldLock, RollBack, Tidy, Ended, Fail
    <3>5. CASE WriteItem(k) \/ WriteAdded(k) \/ WriteKept(k)
      BY <3>1, <3>5, <2>0 DEF WriteItem, WriteAdded, WriteKept, Ended, Deletes
    <3>6. CASE WriteRemoved(k) \/ WriteClosed(k) \/ WriteImport(k)
      BY <3>1, <3>6, <2>0 DEF WriteRemoved, WriteClosed, WriteImport, Deletes
    <3> QED BY <3>2, <3>3, <3>4, <3>5, <3>6 DEF Work
  <2>4. PICK new : Ask(k, new)
    BY <2>1, <2>2, <2>3, AsksAre
  <2>5. req' = [req EXCEPT ![k] = new]
    BY <2>4 DEF Ask
  <2>6. k = r /\ new = req'[r]
    BY <2>0, <2>5
  <2>7. Measure /\ used' < Limit
    BY <2>4, <2>6 DEF Ask
  <2>8. CASE Due
    BY <2>0, <2>7, <2>8 DEF Measure, RoomSeen
  <2>9. CASE ~Due
    BY <2>0, <2>7, <2>9 DEF Measure, RoomSeen, Due, storage
  <2> QED BY <2>8, <2>9
<1> QED BY <1>1, SavingInvariance, PTL DEF SavingSpec, StopsWhenFull
=============================================================================
