-------------------------- MODULE ReadMarks_proofs --------------------------
(***************************************************************************)
(* That marks are gathered one way only and that none is forgotten, for    *)
(* any articles, calls and numbers of presses and failures (ReadMarks);    *)
(* and that the lists they are made in, and the copies that apps keep,     *)
(* miss nothing, whatever the texts of articles (ArticleList, FullText).   *)
(***************************************************************************)
EXTENDS ReadMarks, FullText, Largest, FiniteSetTheorems, TLAPS

Requests == {call[c] : c \in Waiting} \cup late

\* What is gathered is what the reader last chose
GatheredAsChosen ==
    \A a \in Articles \ crossed, read \in BOOLEAN : a \in pending[read] => read = chosen[a]

\* A request against what the reader chose since was sent before that choice,
\* which is still gathered: were it sent too, the two would cross
CallsAreOlder ==
    \A a \in Articles \ crossed, c \in Calls :
        call[c] # NoCall /\ a \in call[c].ids /\ call[c].read # chosen[a] => a \in pending[chosen[a]]

LateAreOlder ==
    \A a \in Articles \ crossed, q \in late :
        a \in q.ids /\ q.read # chosen[a] => a \in pending[chosen[a]]

IInv == TypeOK /\ GatheredAsChosen /\ CallsAreOlder /\ LateAreOlder /\ MarksAreKept

\* What becomes of the marks gathered when a call goes on
LEMMA GoingOn ==
    ASSUME NEW c \in Calls, NEW gathered \in [BOOLEAN -> SUBSET Articles],
           pending \in [BOOLEAN -> SUBSET Articles],
           call \in [Calls -> CallStates \cup {NoCall}], call[c] # NoCall, crossed \subseteq Articles,
           GoOn(c, gathered)
    PROVE  /\ pending' \in [BOOLEAN -> SUBSET Articles]
           /\ call' \in [Calls -> CallStates \cup {NoCall}]
           /\ crossed \subseteq crossed' /\ crossed' \subseteq Articles
           /\ \A d \in Calls \ {c} : call'[d] = call[d]
           /\ \/ /\ call'[c] = NoCall /\ pending' = gathered
              \/ /\ call'[c] # NoCall /\ ~call'[c].handled /\ call'[c].read = FALSE
                 /\ call'[c].ids = gathered[FALSE]
                 /\ pending' = [gathered EXCEPT ![FALSE] = {}]
                 /\ \A a \in gathered[FALSE] \ crossed' :
                       /\ \A d \in Calls \ {c} : call[d] # NoCall /\ a \in call[d].ids => call[d].read = FALSE
                       /\ \A q \in late' : a \in q.ids => q.read = FALSE
<1>1. CASE call[c].read /\ gathered[FALSE] # {}
  <2> DEFINE others == {call[d] : d \in Waiting \ {c}} \cup late'
             next == [call EXCEPT ![c].read = FALSE, ![c].ids = gathered[FALSE], ![c].handled = FALSE]
  <2>1. call' = next /\ pending' = [gathered EXCEPT ![FALSE] = {}]
        /\ crossed' = crossed \cup Crossing(FALSE, gathered[FALSE], others)
    BY <1>1 DEF GoOn
  <2>2. call[c] \in CallStates
    OBVIOUS
  <2>3. /\ next[c] \in CallStates /\ next[c].handled = FALSE /\ next[c].read = FALSE
        /\ next[c].ids = gathered[FALSE]
    BY <2>2 DEF CallStates
  <2>4. next[c] # NoCall
    BY <2>3, Distinct
  <2>5. \A a \in gathered[FALSE] \ crossed' : \A q \in others : a \in q.ids => q.read = FALSE
    BY <2>1 DEF Crossing
  <2>6. \A d \in Calls \ {c} : call[d] # NoCall => call[d] \in others
    BY DEF Waiting
  <2> HIDE DEF others
  <2>7. crossed' \subseteq Articles /\ crossed \subseteq crossed'
    BY <2>1 DEF Crossing
  <2> QED BY <2>1, <2>3, <2>4, <2>5, <2>6, <2>7 DEF others
<1>2. CASE ~(call[c].read /\ gathered[FALSE] # {})
  BY <1>2 DEF GoOn
<1> QED BY <1>1, <1>2

LEMMA MarksInitially == Init => IInv
<1> SUFFICES ASSUME Init PROVE IInv
  OBVIOUS
<1>1. TypeOK
  <2>1. presses \in 0..MaxPresses /\ failures \in 0..MaxFailures
    BY Parameters DEF Init
  <2>2. /\ server \in [Articles -> BOOLEAN] /\ shown \in [Articles -> BOOLEAN]
        /\ chosen \in [Articles -> BOOLEAN] /\ call \in [Calls -> CallStates \cup {NoCall}]
    BY DEF Init
  <2>3. pending \in [BOOLEAN -> SUBSET Articles] /\ pending[TRUE] = {}
    BY DEF Init
  <2>4. /\ timer \in BOOLEAN /\ late \subseteq LateRequests /\ crossed \subseteq Articles
        /\ loaded \in [Articles -> BOOLEAN] \cup {NoAnswer}
    BY DEF Init
  <2> QED BY <2>1, <2>2, <2>3, <2>4 DEF TypeOK
<1>2. GatheredAsChosen /\ CallsAreOlder /\ LateAreOlder /\ MarksAreKept
  BY DEF Init, GatheredAsChosen, CallsAreOlder, LateAreOlder, MarksAreKept
<1> QED BY <1>1, <1>2 DEF IInv

\* A press puts the mark where the reader's last choice is, and nowhere else
LEMMA Pressing == ASSUME IInv, NEW a \in Articles, Press(a) PROVE IInv'
<1> DEFINE v == ~shown[a]
<1>0. TypeOK /\ v \in BOOLEAN
  BY DEF IInv, TypeOK
<1>1. /\ chosen' = [chosen EXCEPT ![a] = v]
      /\ pending' = [pending EXCEPT ![v] = @ \cup {a}, ![~v] = @ \ {a}]
      /\ UNCHANGED <<call, late, server, loaded, crossed, failures>>
  BY DEF Press, Gathered
<1> HIDE DEF v
<1>2. /\ a \in pending'[v] /\ a \notin pending'[~v] /\ chosen'[a] = v
      /\ \A b \in Articles \ {a} : /\ chosen'[b] = chosen[b]
                                   /\ \A read \in BOOLEAN : b \in pending'[read] <=> b \in pending[read]
      /\ pending' \in [BOOLEAN -> SUBSET Articles] /\ chosen' \in [Articles -> BOOLEAN]
  <2>1. v = TRUE \/ v = FALSE
    BY <1>0
  <2>2. CASE v = TRUE
    BY <1>0, <1>1, <2>2 DEF TypeOK
  <2>3. CASE v = FALSE
    BY <1>0, <1>1, <2>3 DEF TypeOK
  <2> QED BY <2>1, <2>2, <2>3
<1>3. TypeOK'
  <2>1. pending'[TRUE] \cap pending'[FALSE] = {}
    <3>1. \A b \in Articles : ~(b \in pending'[TRUE] /\ b \in pending'[FALSE])
      BY <1>0, <1>2 DEF TypeOK
    <3> QED BY <1>2, <3>1
  <2>2. shown' \in [Articles -> BOOLEAN] /\ timer' \in BOOLEAN /\ presses' \in 0..MaxPresses
    BY <1>0, Parameters DEF Press, TypeOK
  <2> QED BY <1>0, <1>1, <1>2, <2>1, <2>2 DEF TypeOK, LateRequests
<1>4. GatheredAsChosen'
  BY <1>0, <1>1, <1>2 DEF IInv, GatheredAsChosen
<1>5. CallsAreOlder'
  BY <1>0, <1>1, <1>2 DEF IInv, CallsAreOlder, TypeOK
<1>6. LateAreOlder'
  BY <1>0, <1>1, <1>2 DEF IInv, LateAreOlder, TypeOK
<1>7. MarksAreKept'
  BY <1>0, <1>1, <1>2 DEF IInv, MarksAreKept, OnItsWay, Waiting, TypeOK
<1> QED BY <1>3, <1>4, <1>5, <1>6, <1>7 DEF IInv

\* A call that begins takes what is gathered for one half
LEMMA Sending ==
    ASSUME IInv, NEW c \in Calls, NEW cause \in Causes, Flush(c, cause) PROVE IInv'
<1>0. TypeOK
  BY DEF IInv
<1>1. PICK read \in BOOLEAN : Send(c, cause, read)
  BY DEF Flush
<1> DEFINE new == [cause |-> cause, read |-> read, ids |-> pending[read], handled |-> FALSE]
<1>2. /\ timer' = FALSE /\ call[c] = NoCall
      /\ UNCHANGED <<shown, loaded, late, server, chosen, presses, failures>>
  BY DEF Flush, page, bounds
<1>3. /\ call' = [call EXCEPT ![c] = new] /\ pending' = [pending EXCEPT ![read] = {}]
      /\ crossed' = crossed \cup Crossing(read, pending[read], Requests)
  BY <1>1 DEF Send, Requests
<1>4. new \in CallStates /\ new # NoCall
  <2>1. pending[read] \in SUBSET Articles
    BY <1>0 DEF TypeOK
  <2>2. new \in CallStates
    BY <2>1 DEF CallStates
  <2> QED BY <2>2, Distinct
<1>5. new.read = read /\ new.ids = pending[read] /\ ~new.handled
  OBVIOUS
<1> HIDE DEF new
<1>6. \A d \in Calls : call'[d] = IF d = c THEN new ELSE call[d]
  BY <1>0, <1>3 DEF TypeOK
<1>7. \A r \in BOOLEAN : pending'[r] = IF r = read THEN {} ELSE pending[r]
  BY <1>0, <1>3 DEF TypeOK
<1>8. \A a \in pending[read] \ crossed' : \A q \in Requests : a \in q.ids => q.read = read
  BY <1>3 DEF Crossing
<1>9. crossed \subseteq crossed' /\ crossed' \subseteq Articles
  BY <1>0, <1>3 DEF TypeOK, Crossing
<1>10. TypeOK'
  <2>1. call' \in [Calls -> CallStates \cup {NoCall}]
    BY <1>0, <1>3, <1>4 DEF TypeOK
  <2>2. pending' \in [BOOLEAN -> SUBSET Articles] /\ pending'[TRUE] \cap pending'[FALSE] = {}
    BY <1>0, <1>3, <1>7 DEF TypeOK
  <2> QED BY <1>0, <1>2, <1>9, <2>1, <2>2 DEF TypeOK, LateRequests
<1>11. GatheredAsChosen'
  BY <1>0, <1>2, <1>7, <1>9 DEF IInv, GatheredAsChosen
<1>12. CallsAreOlder'
  <2> SUFFICES ASSUME NEW a \in Articles \ crossed', NEW d \in Calls,
                      call'[d] # NoCall, a \in call'[d].ids, call'[d].read # chosen[a]
               PROVE  a \in pending'[chosen[a]]
    BY <1>2 DEF CallsAreOlder
  <2>1. chosen[a] \in BOOLEAN /\ a \notin crossed
    BY <1>0, <1>9 DEF TypeOK
  <2>2. CASE d = c
    <3>1. a \in pending[read] /\ read # chosen[a]
      BY <1>5, <1>6, <2>2
    <3> QED BY <2>1, <3>1 DEF IInv, GatheredAsChosen
  <2>3. CASE d # c
    <3>1. a \in pending[chosen[a]] /\ call[d] \in Requests /\ a \in call[d].ids /\ call[d].read # chosen[a]
      BY <1>6, <2>1, <2>3 DEF IInv, CallsAreOlder, Requests, Waiting
    <3>2. read # chosen[a]
      BY <1>8, <3>1
    <3> QED BY <1>7, <2>1, <3>1, <3>2
  <2> QED BY <2>2, <2>3
<1>13. LateAreOlder'
  <2> SUFFICES ASSUME NEW a \in Articles \ crossed', NEW q \in late, a \in q.ids, q.read # chosen[a]
               PROVE  a \in pending'[chosen[a]]
    BY <1>2 DEF LateAreOlder
  <2>1. chosen[a] \in BOOLEAN /\ a \notin crossed
    BY <1>0, <1>9 DEF TypeOK
  <2>2. a \in pending[chosen[a]] /\ q \in Requests
    BY <2>1 DEF IInv, LateAreOlder, Requests
  <2>3. read # chosen[a]
    BY <1>8, <2>2
  <2> QED BY <1>7, <2>1, <2>2, <2>3
<1>14. MarksAreKept'
  <2> SUFFICES ASSUME NEW a \in Articles \ crossed', server[a] # chosen[a] PROVE OnItsWay(a)'
    BY <1>2 DEF MarksAreKept
  <2>1. chosen[a] \in BOOLEAN /\ OnItsWay(a)
    BY <1>0, <1>9 DEF TypeOK, IInv, MarksAreKept
  <2>2. CASE a \in pending[chosen[a]]
    BY <1>2, <1>4, <1>5, <1>6, <1>7, <2>1, <2>2 DEF OnItsWay, Waiting
  <2>3. CASE \E d \in Waiting : ~call[d].handled /\ call[d].read = chosen[a] /\ a \in call[d].ids
    BY <1>2, <1>6, <2>3 DEF OnItsWay, Waiting
  <2> QED BY <2>1, <2>2, <2>3 DEF OnItsWay
<1> QED BY <1>10, <1>11, <1>12, <1>13, <1>14 DEF IInv

\* A call that is answered, or fails and gives back what it carried, goes on
LEMMA GoingOnKeeps ==
    ASSUME IInv, NEW c \in Calls, NEW gathered \in [BOOLEAN -> SUBSET Articles],
           call[c] # NoCall, GoOn(c, gathered),
           gathered[TRUE] \cap gathered[FALSE] = {},
           \A r \in BOOLEAN : pending[r] \subseteq gathered[r],
           \A a \in Articles \ crossed, r \in BOOLEAN : a \in gathered[r] => r = chosen[a],
           \/ call[c].handled
           \/ \A a \in call[c].ids \ crossed : call[c].read = chosen[a] => a \in gathered[chosen[a]],
           late' \subseteq LateRequests,
           \A q \in late' : q \in late \/ (q.read = call[c].read /\ q.ids = call[c].ids),
           timer' \in BOOLEAN, failures' \in 0..MaxFailures,
           UNCHANGED <<shown, server, loaded, chosen, presses>>
    PROVE  IInv'
<1>0. TypeOK
  BY DEF IInv
<1>1. /\ pending' \in [BOOLEAN -> SUBSET Articles]
      /\ call' \in [Calls -> CallStates \cup {NoCall}]
      /\ crossed \subseteq crossed' /\ crossed' \subseteq Articles
      /\ \A d \in Calls \ {c} : call'[d] = call[d]
      /\ \/ /\ call'[c] = NoCall /\ pending' = gathered
         \/ /\ call'[c] # NoCall /\ ~call'[c].handled /\ call'[c].read = FALSE
            /\ call'[c].ids = gathered[FALSE]
            /\ pending' = [gathered EXCEPT ![FALSE] = {}]
            /\ \A a \in gathered[FALSE] \ crossed' :
                  /\ \A d \in Calls \ {c} : call[d] # NoCall /\ a \in call[d].ids => call[d].read = FALSE
                  /\ \A q \in late' : a \in q.ids => q.read = FALSE
  BY <1>0, GoingOn DEF TypeOK
<1>2. \A r \in BOOLEAN : pending'[r] \subseteq gathered[r]
  BY <1>1
<1>3. \A a \in Articles, r \in BOOLEAN :
         a \in gathered[r] => \/ a \in pending'[r]
                              \/ call'[c] # NoCall /\ ~call'[c].handled /\ call'[c].read = r /\ a \in call'[c].ids
  BY <1>1
<1>4. TypeOK'
  <2>1. pending'[TRUE] \cap pending'[FALSE] = {}
    BY <1>2
  <2> QED BY <1>0, <1>1, <2>1 DEF TypeOK, LateRequests
<1>5. GatheredAsChosen'
  BY <1>0, <1>1, <1>2 DEF GatheredAsChosen
<1>6. ASSUME NEW a \in Articles \ crossed', NEW read \in BOOLEAN, read # chosen[a],
             \/ \E d \in Calls \ {c} : call[d] # NoCall /\ a \in call[d].ids /\ call[d].read = read
             \/ \E q \in late' : a \in q.ids /\ q.read = read
      PROVE  a \in pending'[chosen[a]]
  <2>1. chosen[a] \in BOOLEAN /\ a \notin crossed
    BY <1>0, <1>1 DEF TypeOK
  <2>2. a \in pending[chosen[a]]
    BY <1>6, <2>1 DEF IInv, CallsAreOlder, LateAreOlder
  <2>3. a \in gathered[chosen[a]]
    BY <2>1, <2>2
  <2>4. CASE call'[c] # NoCall /\ chosen[a] = FALSE
    <3>1. read = FALSE
      BY <1>1, <1>6, <2>3, <2>4
    <3> QED BY <1>6, <2>4, <3>1
  <2> QED BY <1>1, <2>1, <2>3, <2>4
<1>7. CallsAreOlder'
  <2> SUFFICES ASSUME NEW a \in Articles \ crossed', NEW d \in Calls,
                      call'[d] # NoCall, a \in call'[d].ids, call'[d].read # chosen[a]
               PROVE  a \in pending'[chosen[a]]
    BY DEF CallsAreOlder
  <2>1. CASE d = c
    <3>1. a \in gathered[FALSE] /\ chosen[a] # FALSE /\ a \notin crossed
      BY <1>1, <2>1
    <3> QED BY <3>1
  <2>2. CASE d # c
    <3>1. call'[d] = call[d] /\ call[d].read \in BOOLEAN
      BY <1>0, <1>1, <2>2 DEF TypeOK, CallStates
    <3> QED BY <1>6, <2>2, <3>1
  <2> QED BY <2>1, <2>2
<1>8. LateAreOlder'
  <2> SUFFICES ASSUME NEW a \in Articles \ crossed', NEW q \in late', a \in q.ids, q.read # chosen[a]
               PROVE  a \in pending'[chosen[a]]
    BY DEF LateAreOlder
  <2>1. q.read \in BOOLEAN
    BY DEF LateRequests
  <2> QED BY <1>6, <2>1
<1>9. MarksAreKept'
  <2> SUFFICES ASSUME NEW a \in Articles \ crossed', server[a] # chosen[a] PROVE OnItsWay(a)'
    BY DEF MarksAreKept
  <2>1. chosen[a] \in BOOLEAN /\ a \notin crossed /\ OnItsWay(a)
    BY <1>0, <1>1 DEF TypeOK, IInv, MarksAreKept
  <2>2. CASE a \in gathered[chosen[a]]
    BY <1>3, <2>1, <2>2 DEF OnItsWay, Waiting
  <2>3. CASE a \notin gathered[chosen[a]]
    <3>1. a \notin pending[chosen[a]]
      BY <2>1, <2>3
    <3>2. PICK d \in Waiting : ~call[d].handled /\ call[d].read = chosen[a] /\ a \in call[d].ids
      BY <2>1, <3>1 DEF OnItsWay
    <3>3. d # c
      BY <2>1, <2>3, <3>2
    <3> QED BY <1>1, <3>2, <3>3 DEF OnItsWay, Waiting
  <2> QED BY <2>2, <2>3
<1> QED BY <1>4, <1>5, <1>7, <1>8, <1>9 DEF IInv

LEMMA Answering == ASSUME IInv, NEW c \in Calls, Answered(c) PROVE IInv'
<1>1. TypeOK /\ GatheredAsChosen
  BY DEF IInv
<1>2. /\ call[c] # NoCall /\ call[c].handled /\ GoOn(c, pending) /\ late' = late
      /\ UNCHANGED <<timer, shown, loaded, server, chosen, presses, failures>>
  BY DEF Answered, page, bounds
<1>3. /\ pending \in [BOOLEAN -> SUBSET Articles] /\ pending[TRUE] \cap pending[FALSE] = {}
      /\ late' \subseteq LateRequests /\ timer' \in BOOLEAN /\ failures' \in 0..MaxFailures
  BY <1>1, <1>2 DEF TypeOK
<1> QED BY <1>1, <1>2, <1>3, GoingOnKeeps DEF GatheredAsChosen

\* What a request that failed gives back is what the reader last chose: if that
\* was the other way since, it is gathered there
LEMMA Failing == ASSUME IInv, NEW c \in Calls, Fail(c) PROVE IInv'
<1>0. TypeOK /\ GatheredAsChosen /\ CallsAreOlder
  BY DEF IInv
<1> DEFINE q == call[c]
           gathered == GivenBack(q)
<1>1. /\ call[c] # NoCall /\ failures < MaxFailures /\ failures' = failures + 1
      /\ GoOn(c, gathered) /\ timer' = (timer \/ q.cause # "leave")
      /\ UNCHANGED <<shown, loaded, server, chosen, presses>>
  BY DEF Fail, page
<1>2. late' = late \/ late' = late \cup {[read |-> q.read, ids |-> q.ids, no |-> failures]}
  BY DEF Fail
<1>3. q \in CallStates /\ q.read \in BOOLEAN /\ q.ids \in SUBSET Articles
  BY <1>0, <1>1 DEF TypeOK, CallStates
<1>4. gathered = [pending EXCEPT ![q.read] = @ \cup (q.ids \ pending[~q.read])]
  BY DEF GivenBack
<1> HIDE DEF q, gathered
<1>5. /\ gathered \in [BOOLEAN -> SUBSET Articles]
      /\ gathered[q.read] = pending[q.read] \cup (q.ids \ pending[~q.read])
      /\ gathered[~q.read] = pending[~q.read]
  <2>1. CASE q.read = TRUE
    BY <1>0, <1>3, <1>4, <2>1 DEF TypeOK
  <2>2. CASE q.read = FALSE
    BY <1>0, <1>3, <1>4, <2>2 DEF TypeOK
  <2> QED BY <1>3, <2>1, <2>2
<1>6. (q.read = TRUE /\ ~q.read = FALSE) \/ (q.read = FALSE /\ ~q.read = TRUE)
  BY <1>3
<1>7. gathered[TRUE] \cap gathered[FALSE] = {}
  <2>1. pending[q.read] \cap pending[~q.read] = {}
    BY <1>0, <1>6 DEF TypeOK
  <2>2. gathered[q.read] \cap gathered[~q.read] = {}
    BY <1>5, <2>1
  <2> QED BY <1>6, <2>2
<1>8. \A r \in BOOLEAN : pending[r] \subseteq gathered[r]
  BY <1>5, <1>6
<1>9. \A a \in Articles \ crossed, r \in BOOLEAN : a \in gathered[r] => r = chosen[a]
  <2> SUFFICES ASSUME NEW a \in Articles \ crossed, NEW r \in BOOLEAN, a \in gathered[r]
               PROVE  r = chosen[a]
    OBVIOUS
  <2>1. CASE a \in pending[r]
    BY <1>0, <2>1 DEF GatheredAsChosen
  <2>2. CASE a \notin pending[r]
    <3>1. r = q.read /\ a \in q.ids /\ a \notin pending[~q.read]
      BY <1>5, <1>6, <2>2
    <3>2. chosen[a] \in BOOLEAN
      BY <1>0 DEF TypeOK
    <3>3. q.read # chosen[a] => a \in pending[chosen[a]]
      BY <1>0, <1>1, <3>1 DEF CallsAreOlder, q
    <3>4. q.read # chosen[a] => chosen[a] = ~q.read
      BY <1>3, <3>2
    <3> QED BY <3>1, <3>3, <3>4
  <2> QED BY <2>1, <2>2
<1>10. \A a \in q.ids \ crossed : q.read = chosen[a] => a \in gathered[chosen[a]]
  <2> SUFFICES ASSUME NEW a \in q.ids \ crossed, q.read = chosen[a] PROVE a \in gathered[q.read]
    OBVIOUS
  <2>1. a \notin pending[~q.read]
    BY <1>0, <1>3, <1>6 DEF GatheredAsChosen
  <2> QED BY <1>5, <2>1
<1>11. /\ failures \in 0..MaxFailures /\ failures' \in 0..MaxFailures /\ timer' \in BOOLEAN
  BY <1>0, <1>1, Parameters DEF TypeOK
<1>12. late' \subseteq LateRequests /\ \A x \in late' : x \in late \/ (x.read = q.read /\ x.ids = q.ids)
  <2>1. [read |-> q.read, ids |-> q.ids, no |-> failures] \in LateRequests
    BY <1>3, <1>11 DEF LateRequests
  <2> QED BY <1>0, <1>2, <2>1 DEF TypeOK
<1> USE DEF q
<1> QED BY <1>1, <1>5, <1>7, <1>8, <1>9, <1>10, <1>11, <1>12, GoingOnKeeps

\* The server does what a request asks for: against what the reader chose since
\* only while that choice is still gathered
LEMMA Handling ==
    ASSUME IInv, NEW q, q.ids \subseteq Articles, q.read \in BOOLEAN, server' = Marked(q),
           \A a \in q.ids \ crossed : q.read # chosen[a] => a \in pending[chosen[a]],
           UNCHANGED <<shown, loaded, pending, timer, chosen, crossed, presses, failures>>,
           late' \subseteq late, call' \in [Calls -> CallStates \cup {NoCall}],
           \A c \in Calls : /\ (call'[c] = NoCall) <=> (call[c] = NoCall)
                            /\ call'[c].read = call[c].read /\ call'[c].ids = call[c].ids
                            /\ \/ call'[c].handled = call[c].handled
                               \/ call[c].read = q.read /\ call[c].ids = q.ids
    PROVE  IInv'
<1>0. TypeOK
  BY DEF IInv
<1>1. server' \in [Articles -> BOOLEAN]
  BY <1>0 DEF Marked, TypeOK
<1>2. TypeOK'
  BY <1>0, <1>1 DEF TypeOK, LateRequests
<1>3. GatheredAsChosen' /\ CallsAreOlder' /\ LateAreOlder'
  BY DEF IInv, GatheredAsChosen, CallsAreOlder, LateAreOlder
<1>4. MarksAreKept'
  <2> SUFFICES ASSUME NEW a \in Articles \ crossed, server'[a] # chosen[a] PROVE OnItsWay(a)'
    BY DEF MarksAreKept
  <2>1. CASE a \in q.ids
    <3>1. server'[a] = q.read
      BY <2>1 DEF Marked
    <3> QED BY <2>1, <3>1 DEF OnItsWay
  <2>2. CASE a \notin q.ids
    <3>1. server'[a] = server[a]
      BY <2>2 DEF Marked
    <3>2. OnItsWay(a)
      BY <3>1 DEF IInv, MarksAreKept
    <3> QED BY <2>2, <3>2 DEF OnItsWay, Waiting
  <2> QED BY <2>1, <2>2
<1> QED BY <1>2, <1>3, <1>4 DEF IInv

THEOREM Invariance == Spec => []IInv
<1>1. Init => IInv
  BY MarksInitially
<1>2. IInv /\ [Next]_vars => IInv'
  <2> SUFFICES ASSUME IInv, [Next]_vars PROVE IInv'
    OBVIOUS
  <2>0. TypeOK
    BY DEF IInv
  <2>1. CASE \E a \in Articles : Press(a)
    BY <2>1, Pressing
  <2>2. CASE Reload \/ Render \/ TimerFinds
    <3>1. /\ UNCHANGED <<pending, call, late, server, chosen, crossed, presses, failures>>
          /\ shown' \in [Articles -> BOOLEAN] /\ timer' \in BOOLEAN
          /\ loaded' \in [Articles -> BOOLEAN] \cup {NoAnswer}
      BY <2>0, <2>2 DEF Reload, Render, TimerFinds, page, bounds, TypeOK
    <3>2. TypeOK'
      BY <2>0, <3>1 DEF TypeOK, LateRequests
    <3> QED BY <3>1, <3>2 DEF IInv, GatheredAsChosen, CallsAreOlder, LateAreOlder, MarksAreKept, OnItsWay, Waiting
  <2>3. CASE \E c \in Calls : OnTimer(c) \/ OnPoll(c) \/ OnLeave(c)
    BY <2>3, Sending DEF OnTimer, OnPoll, OnLeave, Causes
  <2>4. CASE \E c \in Calls : Answered(c) \/ Fail(c)
    BY <2>4, Answering, Failing
  <2>5. CASE \E c \in Calls : Handle(c)
    <3>1. PICK c \in Calls : Handle(c)
      BY <2>5
    <3> DEFINE new == [call[c] EXCEPT !.handled = TRUE]
    <3>2. call[c] \in CallStates
      BY <2>0, <3>1 DEF Handle, TypeOK
    <3>3. call[c].ids \subseteq Articles /\ call[c].read \in BOOLEAN
      BY <3>2 DEF CallStates
    <3>4. new \in CallStates /\ new.read = call[c].read /\ new.ids = call[c].ids
      BY <3>2 DEF CallStates
    <3>5. new # NoCall
      BY <3>4, Distinct
    <3>6. call' = [call EXCEPT ![c] = new]
      BY <3>1 DEF Handle
    <3> HIDE DEF new
    <3>7. call' \in [Calls -> CallStates \cup {NoCall}] /\ \A d \in Calls : call'[d] = IF d = c THEN new ELSE call[d]
      BY <2>0, <3>4, <3>6 DEF TypeOK
    <3>8. /\ server' = Marked(call[c]) /\ call[c] # NoCall
          /\ UNCHANGED <<shown, loaded, pending, timer, late, chosen, crossed, presses, failures>>
      BY <3>1 DEF Handle, page, bounds
    <3>9. \A a \in call[c].ids \ crossed : call[c].read # chosen[a] => a \in pending[chosen[a]]
      BY <3>3, <3>8 DEF IInv, CallsAreOlder
    <3>10. \A d \in Calls : /\ (call'[d] = NoCall) <=> (call[d] = NoCall)
                            /\ call'[d].read = call[d].read /\ call'[d].ids = call[d].ids
                            /\ \/ call'[d].handled = call[d].handled
                               \/ call[d].read = call[c].read /\ call[d].ids = call[c].ids
      BY <3>4, <3>5, <3>7, <3>8
    <3> QED BY <3>3, <3>7, <3>8, <3>9, <3>10, Handling
  <2>6. CASE \E q \in late : HandleLate(q)
    <3>1. PICK q \in late : HandleLate(q)
      BY <2>6
    <3>2. q.ids \subseteq Articles /\ q.read \in BOOLEAN
      BY <2>0 DEF TypeOK, LateRequests
    <3>3. /\ server' = Marked(q) /\ late' \subseteq late
          /\ UNCHANGED <<shown, loaded, pending, timer, call, chosen, crossed, presses, failures>>
      BY <3>1 DEF HandleLate, page, bounds
    <3>4. \A a \in q.ids \ crossed : q.read # chosen[a] => a \in pending[chosen[a]]
      BY <3>2 DEF IInv, LateAreOlder
    <3>5. call' \in [Calls -> CallStates \cup {NoCall}]
      BY <2>0, <3>3 DEF TypeOK
    <3> QED BY <3>2, <3>3, <3>4, <3>5, Handling
  <2>7. CASE UNCHANGED vars
    BY <2>7 DEF vars, IInv, TypeOK, LateRequests, GatheredAsChosen, CallsAreOlder, LateAreOlder, MarksAreKept, OnItsWay, Waiting
  <2> QED BY <2>1, <2>2, <2>3, <2>4, <2>5, <2>6, <2>7 DEF Next
<1> QED BY <1>1, <1>2, PTL DEF Spec

\* The type invariant; in particular no mark is gathered both ways.
THEOREM TypeCorrect == Spec => []TypeOK
<1>1. IInv => TypeOK
  BY DEF IInv
<1> QED BY <1>1, Invariance, PTL

\* No mark is forgotten, whatever failed, came late or overlapped
\* (flushMarks, articles.js:303-321), but where two requests crossed.
THEOREM NoMarkIsForgotten == Spec => []MarksAreKept
<1>1. IInv => MarksAreKept
  BY DEF IInv
<1> QED BY <1>1, Invariance, PTL

-----------------------------------------------------------------------------
(* Lists of articles, and their full text: proofs about ArticleList and     *)
(* FullText, for any entries, dates, page size and order of the list.       *)

\* Rows are in a strict order, which leaves no two of them with different ids side by side.
LEMMA RowsAreOrdered ==
    /\ \A r \in Rows : ~Before(r, r)
    /\ \A r, s, t \in Rows : Before(r, s) /\ Before(s, t) => Before(r, t)
    /\ \A r, s \in Rows : r.id # s.id => Before(r, s) \/ Before(s, r)
<1>1. \A r \in Rows : Published[r.entry] \in Nat /\ r.id \in Nat
  BY ListParameters DEF Rows, Ids
<1>2. NewestFirst \in BOOLEAN
  BY ListParameters
<1> QED BY <1>1, <1>2 DEF Before

Ahead(S, r) == {s \in S : Before(s, r)}

\* Rows with ids of their own, as those of the table
Apart(S) == S \subseteq Rows /\ IsFiniteSet(S) /\ \A r, s \in S : r.id = s.id => r = s

\* The further back a row is, the more rows are before it.
LEMMA MoreAhead ==
    ASSUME NEW S, Apart(S)
    PROVE  /\ Cardinality(S) \in Nat
           /\ \A r \in S : Cardinality(Ahead(S, r)) \in 0..Cardinality(S)
           /\ \A r, s \in S : Before(r, s) => Cardinality(Ahead(S, r)) < Cardinality(Ahead(S, s))
<1>1. IsFiniteSet(S) /\ Cardinality(S) \in Nat
  BY FS_CardinalityType DEF Apart
<1>2. ASSUME NEW r \in S
      PROVE  /\ IsFiniteSet(Ahead(S, r)) /\ Cardinality(Ahead(S, r)) \in Nat
             /\ Cardinality(Ahead(S, r)) <= Cardinality(S)
  <2>1. Ahead(S, r) \in SUBSET S
    BY DEF Ahead
  <2>2. IsFiniteSet(Ahead(S, r)) /\ Cardinality(Ahead(S, r)) <= Cardinality(S)
    BY <1>1, <2>1, FS_Subset
  <2> QED BY <2>2, FS_CardinalityType
<1>3. ASSUME NEW r \in S, NEW s \in S, Before(r, s)
      PROVE  Cardinality(Ahead(S, r)) < Cardinality(Ahead(S, s))
  <2>1. Ahead(S, r) \in SUBSET Ahead(S, s) /\ r \in Ahead(S, s) /\ r \notin Ahead(S, r)
    BY <1>3, RowsAreOrdered DEF Ahead, Apart
  <2>2. Cardinality(Ahead(S, r)) <= Cardinality(Ahead(S, s)) /\ Cardinality(Ahead(S, r)) # Cardinality(Ahead(S, s))
    BY <2>1, <1>2, FS_Subset
  <2>3. Cardinality(Ahead(S, r)) \in Nat /\ Cardinality(Ahead(S, s)) \in Nat
    BY <1>2
  <2> QED BY <2>2, <2>3
<1>4. \A r \in S : Cardinality(Ahead(S, r)) \in 0..Cardinality(S)
  <2> TAKE r \in S
  <2> PICK a, n : a = Cardinality(Ahead(S, r)) /\ n = Cardinality(S)
    OBVIOUS
  <2>1. a \in Nat /\ n \in Nat /\ a <= n
    BY <1>1, <1>2
  <2>2. a \in 0..n
    BY <2>1
  <2> QED BY <2>2
<1> QED BY <1>1, <1>3, <1>4

\* rows[-1] is a row of the page, and no row of it comes after.
LEMMA LastOfRows ==
    ASSUME NEW S, Apart(S), S # {}
    PROVE  LastRow(S) \in S /\ \A s \in S : LastRow(S) = s \/ Before(s, LastRow(S))
<1> DEFINE ranks == {Cardinality(Ahead(S, s)) : s \in S}
<1>1. Cardinality(S) \in Nat /\ ranks \in SUBSET (0..Cardinality(S)) /\ ranks # {}
  BY MoreAhead
<1>2. Max(ranks) \in ranks /\ \A n \in ranks : Max(ranks) >= n
  BY <1>1, MaxOfBounded
<1>3. PICK m \in S : Max(ranks) = Cardinality(Ahead(S, m))
  BY <1>2
<1>4. \A s \in S : m = s \/ Before(s, m)
  <2> SUFFICES ASSUME NEW s \in S, m # s, ~Before(s, m) PROVE FALSE
    OBVIOUS
  <2>1. Before(m, s)
    BY RowsAreOrdered DEF Apart
  <2>2. Cardinality(Ahead(S, m)) < Cardinality(Ahead(S, s))
    BY <2>1, MoreAhead
  <2>3. Cardinality(Ahead(S, m)) >= Cardinality(Ahead(S, s))
    BY <1>2, <1>3
  <2>4. Cardinality(Ahead(S, m)) \in 0..Cardinality(S) /\ Cardinality(Ahead(S, s)) \in 0..Cardinality(S)
    BY MoreAhead
  <2> QED BY <1>1, <2>2, <2>3, <2>4
<1>5. \E r \in S : \A s \in S : r = s \/ Before(s, r)
  BY <1>4
<1> QED BY <1>5 DEF LastRow

\* Rows have a first one, before which there is none.
LEMMA FirstOfRows ==
    ASSUME NEW S, Apart(S), S # {}
    PROVE  \E m \in S : Ahead(S, m) = {}
<1> DEFINE ranks == {Cardinality(Ahead(S, s)) : s \in S}
<1>1. Cardinality(S) \in Nat /\ ranks \in SUBSET Nat /\ ranks # {}
  <2>1. Cardinality(S) \in Nat /\ \A r \in S : Cardinality(Ahead(S, r)) \in 0..Cardinality(S)
    BY MoreAhead
  <2> QED BY <2>1
<1>2. Min(ranks) \in ranks /\ \A n \in ranks : Min(ranks) <= n
  BY <1>1, MinOfNumbers
<1>3. PICK m \in S : Min(ranks) = Cardinality(Ahead(S, m))
  BY <1>2
<1>4. ASSUME NEW s \in Ahead(S, m) PROVE FALSE
  <2>1. s \in S /\ Before(s, m)
    BY DEF Ahead
  <2>2. Cardinality(Ahead(S, s)) < Cardinality(Ahead(S, m))
    BY <2>1, MoreAhead
  <2>3. Cardinality(Ahead(S, m)) <= Cardinality(Ahead(S, s))
    BY <1>2, <1>3, <2>1
  <2>4. Cardinality(Ahead(S, m)) \in Nat /\ Cardinality(Ahead(S, s)) \in Nat
    BY <2>1, <1>1
  <2> QED BY <2>2, <2>3, <2>4
<1> QED BY <1>4

\* A page is the first rows there are; what isn't on it comes after the cursor to the next.
LEMMA PagesLeaveNothing ==
    ASSUME NEW S, Apart(S)
    PROVE  /\ FirstOf(S) \subseteq S
           /\ NextCursor(S) # NoRow => NextCursor(S) \in Rows
           /\ \A r \in S \ FirstOf(S) : NextCursor(S) \in Rows /\ Before(NextCursor(S), r)
<1> PICK F : F = FirstOf(S)
  OBVIOUS
<1>0. PageSize \in Nat \ {0} /\ Cardinality(S) \in Nat
  BY ListParameters, MoreAhead
<1>1. \A r \in S : r \in F <=> Cardinality(Ahead(S, r)) < PageSize
  BY DEF FirstOf, Ahead
<1>2. F \subseteq S
  BY DEF FirstOf
<1>3. Apart(F)
  <2>1. IsFiniteSet(F)
    BY <1>2, FS_Subset DEF Apart
  <2> QED BY <2>1, <1>2 DEF Apart
<1>4. S # {} => F # {}
  <2> SUFFICES ASSUME S # {} PROVE F # {}
    OBVIOUS
  <2>1. PICK m \in S : Ahead(S, m) = {}
    BY FirstOfRows
  <2>2. Cardinality(Ahead(S, m)) = 0
    BY <2>1, FS_EmptySet
  <2> QED BY <2>2, <1>0, <1>1
<1>5. S # {} => LastRow(F) \in F /\ LastRow(F) \in Rows
  BY <1>3, <1>4, LastOfRows DEF Apart
<1>6. Cardinality(S) > PageSize => S # {}
  <2>1. Cardinality({}) = 0
    BY FS_EmptySet
  <2> QED BY <2>1, <1>0
<1>7. NextCursor(S) # NoRow => NextCursor(S) \in Rows
  BY <1>5, <1>6 DEF NextCursor
<1>8. ASSUME NEW r \in S \ F
      PROVE  NextCursor(S) \in Rows /\ Before(NextCursor(S), r)
  <2>1. Cardinality(Ahead(S, r)) \in Nat /\ ~(Cardinality(Ahead(S, r)) < PageSize)
    <3>1. Cardinality(Ahead(S, r)) \in 0..Cardinality(S)
      BY MoreAhead
    <3> QED BY <3>1, <1>0, <1>1, <1>8
  <2>2. Cardinality(Ahead(S, r)) < Cardinality(S)
    <3>1. Ahead(S, r) \in SUBSET S /\ r \notin Ahead(S, r) /\ r \in S
      BY RowsAreOrdered DEF Ahead, Apart
    <3>2. Cardinality(Ahead(S, r)) <= Cardinality(S) /\ Cardinality(Ahead(S, r)) # Cardinality(S)
      BY <3>1, FS_Subset DEF Apart
    <3> QED BY <3>2, <2>1, <1>0
  <2>3. Cardinality(S) > PageSize
    BY <2>1, <2>2, <1>0
  <2>4. NextCursor(S) = LastRow(F)
    BY <2>3 DEF NextCursor
  <2> PICK l : l = LastRow(F)
    OBVIOUS
  <2>5. l \in F /\ l \in Rows /\ l \in S
    BY <1>2, <1>5
  <2>6. ~Before(r, l)
    <3> SUFFICES ASSUME Before(r, l) PROVE FALSE
      OBVIOUS
    <3>1. Cardinality(Ahead(S, r)) < Cardinality(Ahead(S, l))
      BY <2>5, MoreAhead
    <3>2. Cardinality(Ahead(S, l)) < PageSize
      BY <2>5, <1>1
    <3>3. Cardinality(Ahead(S, l)) \in 0..Cardinality(S)
      BY <2>5, MoreAhead
    <3> QED BY <3>1, <3>2, <3>3, <2>1, <1>0
  <2>7. r # l
    BY <1>8, <2>5
  <2>8. Before(l, r)
    BY <2>5, <2>6, <2>7, RowsAreOrdered DEF Apart
  <2> QED BY <2>4, <2>5, <2>8
<1> QED BY <1>2, <1>7, <1>8

\* Ids tell the rows of the table apart.
LEMMA TableIsApart ==
    ASSUME article \in [Ids -> Entries \cup {NoArticle}]
    PROVE  Apart(Table)
<1>0. MaxId \in Nat
  BY ListParameters
<1>1. Table \subseteq Rows
  BY DEF Table, Rows, Used
<1>2. IsFiniteSet(Used)
  <2>1. IsFiniteSet(1..MaxId)
    BY <1>0, FS_Interval
  <2> QED BY <2>1, FS_Subset DEF Used, Ids
<1>3. IsFiniteSet(Table)
  <2> DEFINE f == [i \in Used |-> [id |-> i, entry |-> article[i]]]
  <2>1. f \in Surjection(Used, Table)
    BY DEF Surjection, Table
  <2> QED BY <2>1, <1>2, FS_Surjection
<1>4. \A r, s \in Table : r.id = s.id => r = s
  BY DEF Table
<1> QED BY <1>1, <1>3, <1>4 DEF Apart

-----------------------------------------------------------------------------
(* What holds while a list is loaded and a copy is brought up to date       *)

\* An entry that "mark all as read" marked has the time of its batch.
BatchesAgree == \A e \in Entries : batchOf[e] = 0 \/ readAt[e] = batchOf[e]

\* An article that an app has, or has been sent, or can't know of.
KnownTo(r) == r \in app.known \cup app.got \/ r.entry \in untold

\* Between the two SELECTs of an answer the app's part of it is everything there is; once
\* it has the new since_id it is everything up to that.
AppKnows ==
    /\ app.asked = "max" => \A r \in Table : KnownTo(r)
    /\ app.asked = "answer" => \A r \in Table : r.id <= app.top => KnownTo(r)

\* What is asked for goes with who reads and with what is there: the page's list is pinned
\* by its first answer, an app's never, and a list that isn't at its end has a cursor.
PageShape ==
    /\ asked # "contents"
    /\ asked = "max" => maxId = NoMax
    /\ asked = "answer" => answer.maxId # NoMax /\ (maxId = NoMax \/ answer.maxId = maxId)
    /\ done => maxId # NoMax
    /\ maxId # NoMax /\ ~done => cursor # NoRow
    /\ maxId = NoMax => cursor = NoRow

ReaderShape ==
    /\ asked # "max" /\ maxId = NoMax
    /\ asked \in {"contents", "answer"} => answer.maxId = NoMax

ListShape ==
    /\ reading = "page" => PageShape
    /\ reading = "reader" => ReaderShape
    /\ ~HasList => asked = "no" /\ maxId = NoMax
    /\ asked # "no" => ~done

\* The list as it will be once the answer under way is there.
HalfAnswered == asked \in {"max", "contents", "answer"}
WillHave(r) ==
    \/ r.entry \in excused
    \/ r \in listed \cup answer.rows
    \/ asked = "answer" /\ r.id > answer.maxId
    \/ answer.next # NoRow /\ Before(answer.next, r)
Pages == HalfAnswered => \A r \in Unread : WillHave(r)

ListInv ==
    /\ ListTypeOK
    /\ BatchesAgree
    /\ AppMissesNothing /\ AppKnows
    /\ ListShape
    /\ Pages /\ NothingIsMissed

\* What a claim marked as being worked on is in the worker's hands, or was left behind.
WorkIsKnown ==
    /\ \A i \in Ids \ Used : text[i].status # "working"
    /\ worker = "running" =>
        \A i \in Ids : text[i].status = "working" =>
            i \in left \/ \E j \in fetches : j.id = i /\ ~j.byHand

\* What can happen, by what it changes: a list, its copy in an app, marks, or the table.
Paging == ReadRows \/ ReadMax \/ ReadContents \/ Receive \/ LoadMore \/ LoadFails
Sweeping == PressMarkAll \/ ReaderMarksAll \/ LoseMarkAll
LEMMA StepsOfLists ==
    ASSUME ListNext
    PROVE  \/ HasList /\ (Paging \/ ResetList \/ Sweeping \/ MarkAll)
           \/ \E batch \in 1..MaxSeconds : HasList /\ Undo(batch)
           \/ App
           \/ \E e \in Entries, read \in BOOLEAN : Mark(e, read)
           \/ \E e \in Entries : Store(e)
           \/ \E i \in Ids : Delete(i)
           \/ Tick
<1>1. reading = "page" /\ Page => \/ HasList /\ (Paging \/ ResetList \/ Sweeping \/ MarkAll)
                                 \/ \E batch \in 1..MaxSeconds : HasList /\ Undo(batch)
  BY DEF Page, List, Poll, Paging, Sweeping, HasList
<1>2. reading = "reader" /\ Reader => HasList /\ (Paging \/ ResetList \/ Sweeping \/ MarkAll)
  BY DEF Reader, List, Paging, Sweeping, HasList
<1> QED BY <1>1, <1>2 DEF ListNext

TableType ==
    /\ article \in [Ids -> Entries \cup {NoArticle}]
    /\ \A i, j \in Used : article[i] = article[j] => i = j
    /\ Present \subseteq arrived /\ arrived \subseteq Entries
ListType ==
    /\ listed \subseteq Rows /\ cursor \in Rows \cup {NoRow} /\ maxId \in 0..NoMax /\ done \in BOOLEAN
    /\ asked \in {"no", "rows", "max", "contents", "answer"}
    /\ answer \in [rows : SUBSET Rows, next : Rows \cup {NoRow}, maxId : 0..NoMax]
MarkType ==
    /\ readAt \in [Entries -> 0..MaxSeconds]
    /\ clock \in 1..MaxSeconds
    /\ pressed \in [batch : 1..MaxSeconds, maxId : 0..NoMax, ts : 0..AnyDate] \cup {NoRow}
    /\ batchOf \in [Entries -> 0..MaxSeconds]
    /\ reading \in {"page", "app", "reader", "nothing"} /\ marks \in 0..MaxMarks /\ deletes \in 0..MaxDeletes
AppType ==
    /\ app \in [asked : AppSteps, got : SUBSET Rows, top : 0..MaxId, since : 0..MaxId, known : SUBSET Rows]
    /\ excused \subseteq Entries /\ untold \subseteq Entries

\* The type invariant in four parts.
LEMMA TypeInParts == ListTypeOK <=> TableType /\ ListType /\ MarkType /\ AppType
BY DEF ListTypeOK, TableType, ListType, MarkType, AppType

\* MAX(id) of the table is an id of it, or 0, and no row has a larger one.
LEMMA TopOfTable ==
    ASSUME TableType
    PROVE  /\ Top \in 0..MaxId
           /\ \A r \in Table : r \in Rows /\ r.id \in Used /\ r.entry = article[r.id] /\ r.id <= Top
           /\ Apart(Table)
           /\ \A i \in Used : i \in Ids /\ article[i] \in Entries
<1>1. MaxId \in Nat
  BY ListParameters
<1>2. Used \cup {0} \in SUBSET (0..MaxId)
  BY <1>1 DEF Used, Ids
<1>3. Top \in Used \cup {0} /\ \A i \in Used \cup {0} : Top >= i
  BY <1>1, <1>2, MaxOfBounded DEF Top
<1>4. \A i \in Used : i \in Ids /\ article[i] \in Entries
  BY DEF TableType, Used
<1>5. Top \in 0..MaxId
  BY <1>2, <1>3
<1>6. \A i \in Used : i <= Top
  <2> TAKE i \in Used
  <2>1. Top >= i /\ i \in Int /\ Top \in Int
    BY <1>1, <1>3, <1>4, <1>5 DEF Ids
  <2> QED BY <2>1
<1>7. \A r \in Table : r \in Rows /\ r.id \in Used /\ r.entry = article[r.id]
  BY <1>4 DEF Table, Rows
<1>8. Apart(Table)
  BY TableIsApart DEF TableType
<1> QED BY <1>4, <1>5, <1>6, <1>7, <1>8

\* There is a date after those of all entries, also of those that a list has.
LEMMA DatesOfEntries ==
    /\ AnyDate \in Nat
    /\ listed \subseteq Rows => Newest \in 0..AnyDate
<1> DEFINE all == {Published[e] : e \in Entries}
<1>1. IsFiniteSet(Entries) /\ Published \in [Entries -> Nat]
  BY ListParameters
<1>2. IsFiniteSet(all)
  <2> DEFINE f == [e \in Entries |-> Published[e]]
  <2>1. f \in Surjection(Entries, all)
    BY DEF Surjection
  <2> QED BY <2>1, <1>1, FS_Surjection
<1>3. IsFiniteSet(all \cup {0}) /\ all \cup {0} \in SUBSET Nat
  BY <1>1, <1>2, FS_AddElement
<1> HIDE DEF all
<1>4. Max(all \cup {0}) \in Nat /\ \A n \in all \cup {0} : Max(all \cup {0}) >= n
  BY <1>3, MaxOfFinite
<1>5. AnyDate = Max(all \cup {0}) + 1
  BY DEF AnyDate, all
<1>6. ASSUME listed \subseteq Rows
      PROVE  Newest \in 0..AnyDate
  <2> DEFINE some == {Published[r.entry] : r \in listed}
  <2>1. some \cup {0} \in SUBSET (all \cup {0})
    BY <1>6 DEF all, Rows
  <2>2. IsFiniteSet(some \cup {0}) /\ some \cup {0} \in SUBSET Nat /\ some \cup {0} # {}
    BY <2>1, <1>3, FS_Subset
  <2> HIDE DEF some
  <2>3. Max(some \cup {0}) \in some \cup {0}
    BY <2>2, MaxOfFinite
  <2>4. Newest = Max(some \cup {0})
    BY DEF Newest, some
  <2>5. Newest \in all \cup {0} /\ Newest \in Nat
    BY <2>1, <2>2, <2>3, <2>4
  <2>6. Max(all \cup {0}) >= Newest
    BY <2>5, <1>4
  <2> QED BY <2>5, <2>6, <1>4, <1>5
<1> QED BY <1>4, <1>5, <1>6

\* The rows of the next page, and the cursor to the one after it.
LEMMA PageOfRows ==
    ASSUME TableType
    PROVE  /\ FirstOf(Matching) \subseteq Rows /\ NextCursor(Matching) \in Rows \cup {NoRow}
           /\ \A r \in Matching : \/ r \in FirstOf(Matching)
                                  \/ NextCursor(Matching) \in Rows /\ Before(NextCursor(Matching), r)
<1>1. Apart(Table) /\ Table \subseteq Rows
  BY TopOfTable
<1>2. Matching \in SUBSET Table
  BY DEF Matching, Unread
<1>3. IsFiniteSet(Matching)
  BY <1>1, <1>2, FS_Subset DEF Apart
<1>4. Apart(Matching)
  BY <1>1, <1>2, <1>3 DEF Apart
<1> PICK M : M = Matching
  OBVIOUS
<1>5. /\ FirstOf(M) \subseteq M
      /\ NextCursor(M) # NoRow => NextCursor(M) \in Rows
      /\ \A r \in M \ FirstOf(M) : NextCursor(M) \in Rows /\ Before(NextCursor(M), r)
  BY <1>4, PagesLeaveNothing
<1> QED BY <1>1, <1>2, <1>5

-----------------------------------------------------------------------------
(* The types                                                               *)

\* The table grows by what isn't in it and never was, at an id that no row has.
LEMMA TableTypeStep ==
    ASSUME ListTypeOK, [ListNext]_listVars
    PROVE  TableType'
<1>0. TableType
  BY TypeInParts
<1>1. CASE UNCHANGED <<article, arrived>>
  BY <1>0, <1>1 DEF TableType, Used, Present
<1>2. CASE \E e \in Entries : Store(e)
  <2> PICK e \in Entries : Store(e)
    BY <1>2
  <2> PICK n : n = Top + 1
    OBVIOUS
  <2>1. /\ n \in Ids /\ e \notin arrived
        /\ article' = [article EXCEPT ![n] = e] /\ arrived' = arrived \cup {e}
    BY DEF Store, Fresh
  <2>2. \A i \in Ids : article'[i] = IF i = n THEN e ELSE article[i]
    BY <1>0, <2>1 DEF TableType
  <2>3. e # NoArticle
    BY ListDistinct
  <2>4. Used' = Used \cup {n}
    BY <2>1, <2>2, <2>3 DEF Used
  <2>5. article' \in [Ids -> Entries \cup {NoArticle}]
    BY <1>0, <2>1 DEF TableType
  <2>6. \A i \in Used : i \in Ids /\ article[i] \in arrived
    BY <1>0 DEF TableType, Used, Present
  <2>7. \A i, j \in Used' : article'[i] = article'[j] => i = j
    <3> TAKE i, j \in Used'
    <3>1. CASE i = n \/ j = n
      BY <3>1, <2>1, <2>2, <2>4, <2>6
    <3>2. CASE i # n /\ j # n
      BY <3>2, <1>0, <2>2, <2>4, <2>6 DEF TableType
    <3> QED BY <3>1, <3>2
  <2>8. Present' \subseteq arrived' /\ arrived' \subseteq Entries
    <3>1. Present' = {article'[i] : i \in Used'}
      BY DEF Present
    <3>2. \A i \in Used' : article'[i] \in arrived \cup {e}
      BY <2>1, <2>2, <2>4, <2>6
    <3> QED BY <3>1, <3>2, <2>1, <1>0 DEF TableType
  <2> QED BY <2>5, <2>7, <2>8 DEF TableType
<1>3. CASE \E i \in Ids : Delete(i)
  <2> PICK i \in Ids : Delete(i)
    BY <1>3
  <2>1. article' = [article EXCEPT ![i] = NoArticle] /\ arrived' = arrived
    BY DEF Delete
  <2>2. \A j \in Ids : article'[j] = IF j = i THEN NoArticle ELSE article[j]
    BY <1>0, <2>1 DEF TableType
  <2>3. Used' = Used \ {i}
    BY <2>2 DEF Used
  <2>4. \A j \in Used' : j \in Used /\ article'[j] = article[j]
    BY <2>2, <2>3 DEF Used
  <2>5. article' \in [Ids -> Entries \cup {NoArticle}]
    BY <1>0, <2>1 DEF TableType
  <2>6. Present' \subseteq Present
    <3>1. Present' = {article'[j] : j \in Used'}
      BY DEF Present
    <3> QED BY <3>1, <2>4 DEF Present
  <2> QED BY <1>0, <2>1, <2>4, <2>5, <2>6 DEF TableType
<1>4. ListNext => \/ UNCHANGED <<article, arrived>>
                  \/ \E e \in Entries : Store(e)
                  \/ \E i \in Ids : Delete(i)
  <2> SUFFICES ASSUME ListNext
               PROVE  \/ UNCHANGED <<article, arrived>>
                      \/ \E e \in Entries : Store(e)
                      \/ \E i \in Ids : Delete(i)
    OBVIOUS
  <2>1. CASE Paging \/ ResetList
    BY <2>1 DEF Paging, ResetList, ReadRows, ReadMax, ReadContents, Receive, LoadMore, LoadFails
  <2>2. CASE Sweeping \/ MarkAll \/ \E batch \in 1..MaxSeconds : Undo(batch)
    BY <2>2 DEF Sweeping, PressMarkAll, ReaderMarksAll, LoseMarkAll, MarkAll, Undo
  <2>3. CASE App \/ Tick \/ \E e \in Entries, read \in BOOLEAN : Mark(e, read)
    BY <2>3 DEF App, AppAsks, AppReadsIds, AppReadsMax, AppReceives, AppLoses, Tick, Mark
  <2> QED BY <2>1, <2>2, <2>3, StepsOfLists
<1> QED BY <1>1, <1>2, <1>3, <1>4 DEF listVars

\* What is listed and asked for consists of rows.
LEMMA ListTypeStep ==
    ASSUME ListTypeOK, [ListNext]_listVars
    PROVE  ListType'
<1>0. ListType /\ TableType
  BY TypeInParts
<1>1. MaxId \in Nat /\ Top \in 0..NoMax /\ NoMax \in 0..NoMax
  BY <1>0, ListParameters, TopOfTable DEF NoMax
<1>2. CASE UNCHANGED list
  BY <1>0, <1>2 DEF ListType, list
<1>3. CASE NewList
  BY <1>1, <1>3 DEF ListType, NewList, NoPage
<1>4. CASE ReadRows
  <2>1. [rows |-> FirstOf(Matching), next |-> NextCursor(Matching), maxId |-> maxId] \in
            [rows : SUBSET Rows, next : Rows \cup {NoRow}, maxId : 0..NoMax]
    BY <1>0, PageOfRows DEF ListType
  <2> QED BY <1>0, <1>4, <2>1 DEF ReadRows, ListType
<1>5. CASE ReadMax
  BY <1>0, <1>1, <1>5 DEF ReadMax, ListType
<1>6. CASE ReadContents
  <2>1. {r \in Table : \E s \in answer.rows : r.id = s.id} \in SUBSET Rows
    BY <1>0, TopOfTable
  <2> QED BY <1>0, <1>6, <2>1 DEF ReadContents, ListType
<1>7. CASE Receive
  <2>1. NoPage \in [rows : SUBSET Rows, next : Rows \cup {NoRow}, maxId : 0..NoMax]
    BY <1>1 DEF NoPage
  <2> QED BY <1>0, <1>7, <2>1 DEF Receive, ListType
<1>8. CASE LoadMore
  BY <1>0, <1>8 DEF LoadMore, ListType
<1>9. CASE LoadFails
  BY <1>0, <1>1, <1>9 DEF LoadFails, ListType, NoPage
<1>10. ListNext => UNCHANGED list \/ NewList \/ Paging
  <2> SUFFICES ASSUME ListNext PROVE UNCHANGED list \/ NewList \/ Paging
    OBVIOUS
  <2>1. CASE Sweeping \/ ResetList \/ MarkAll \/ \E batch \in 1..MaxSeconds : Undo(batch)
    BY <2>1 DEF Sweeping, PressMarkAll, ReaderMarksAll, LoseMarkAll, ResetList, MarkAll, Undo, Reloaded
  <2>2. CASE App \/ Tick \/ \E e \in Entries, read \in BOOLEAN : Mark(e, read)
    BY <2>2 DEF App, AppAsks, AppReadsIds, AppReadsMax, AppReceives, AppLoses, Tick, Mark
  <2>3. CASE (\E e \in Entries : Store(e)) \/ \E i \in Ids : Delete(i)
    BY <2>3 DEF Store, Delete
  <2> QED BY <2>1, <2>2, <2>3, StepsOfLists
<1>11. UNCHANGED listVars => UNCHANGED list
  BY DEF listVars, list
<1> QED BY <1>2, <1>3, <1>4, <1>5, <1>6, <1>7, <1>8, <1>9, <1>10, <1>11 DEF Paging

\* Marks are times so far, and so is what is on its way to the server.
LEMMA MarkTypeStep ==
    ASSUME ListTypeOK, [ListNext]_listVars
    PROVE  MarkType'
<1>0. MarkType /\ ListType
  BY TypeInParts
<1>1. /\ MaxSeconds \in Nat \ {0} /\ MaxMarks \in Nat /\ MaxDeletes \in Nat /\ MaxId \in Nat
      /\ AnyDate \in 0..AnyDate /\ Newest \in 0..AnyDate /\ NoMax \in 0..NoMax
  BY <1>0, ListParameters, DatesOfEntries DEF ListType, NoMax
<1>2. CASE UNCHANGED <<readAt, clock, pressed, batchOf, reading, marks, deletes>>
  BY <1>0, <1>2 DEF MarkType, AnyDate
<1>3. ASSUME NEW e \in Entries, NEW read \in BOOLEAN, Mark(e, read)
      PROVE  MarkType'
  <2>1. Stamped(e) \in [Entries -> 0..MaxSeconds] /\ [readAt EXCEPT ![e] = 0] \in [Entries -> 0..MaxSeconds]
    BY <1>0, <1>1 DEF Stamped, MarkType
  <2>2. readAt' \in [Entries -> 0..MaxSeconds]
    BY <2>1, <1>3 DEF Mark
  <2>3. batchOf' \in [Entries -> 0..MaxSeconds]
    BY <1>0, <1>1, <1>3 DEF Mark, MarkType
  <2>4. marks' \in 0..MaxMarks
    BY <1>0, <1>1, <1>3 DEF Mark, MarkType
  <2> QED BY <1>0, <1>3, <2>2, <2>3, <2>4 DEF Mark, MarkType, AnyDate
<1>4. CASE PressMarkAll \/ ReaderMarksAll
  <2>1. pressed' \in [batch : 1..MaxSeconds, maxId : 0..NoMax, ts : 0..AnyDate]
    BY <1>0, <1>1, <1>4 DEF PressMarkAll, ReaderMarksAll, MarkType, ListType
  <2>2. marks' \in 0..MaxMarks
    BY <1>0, <1>1, <1>4 DEF PressMarkAll, ReaderMarksAll, MarkType
  <2> QED BY <1>0, <1>4, <2>1, <2>2 DEF PressMarkAll, ReaderMarksAll, MarkType, AnyDate, history
<1>5. CASE LoseMarkAll
  BY <1>0, <1>5 DEF LoseMarkAll, MarkType, AnyDate, history, listBounds
<1>6. CASE MarkAll
  <2>1. pressed.batch \in 0..MaxSeconds
    BY <1>0, <1>1, <1>6 DEF MarkAll, MarkType
  <2>2. readAt' \in [Entries -> 0..MaxSeconds] /\ batchOf' \in [Entries -> 0..MaxSeconds]
    BY <2>1, <1>0, <1>6 DEF MarkAll, MarkType
  <2> QED BY <2>2, <1>0, <1>6 DEF MarkAll, MarkType, AnyDate, listBounds
<1>7. ASSUME NEW batch \in 1..MaxSeconds, Undo(batch)
      PROVE  MarkType'
  <2>1. readAt' \in [Entries -> 0..MaxSeconds] /\ batchOf' \in [Entries -> 0..MaxSeconds]
    BY <1>0, <1>1, <1>7 DEF Undo, MarkType
  <2> QED BY <2>1, <1>0, <1>7 DEF Undo, MarkType, AnyDate, listBounds
<1>8. ASSUME NEW i \in Ids, Delete(i)
      PROVE  MarkType'
  <2>1. deletes' \in 0..MaxDeletes
    BY <1>0, <1>1, <1>8 DEF Delete, MarkType
  <2> QED BY <2>1, <1>0, <1>8 DEF Delete, MarkType, AnyDate, history
<1>9. CASE Tick
  <2>1. clock' \in 1..MaxSeconds
    BY <1>0, <1>1, <1>9 DEF Tick, MarkType
  <2> QED BY <2>1, <1>0, <1>9 DEF Tick, MarkType, AnyDate, history, listBounds
<1>10. CASE Paging \/ ResetList
  <2>1. UNCHANGED <<readAt, clock, pressed, batchOf, reading, marks, deletes>>
    BY <1>10 DEF Paging, ResetList, ReadRows, ReadMax, ReadContents, Receive, LoadMore, LoadFails, history, listBounds
  <2> QED BY <2>1, <1>2
<1>11. CASE App \/ \E e \in Entries : Store(e)
  <2>1. UNCHANGED <<readAt, clock, pressed, batchOf, reading, marks, deletes>>
    BY <1>11 DEF App, AppAsks, AppReadsIds, AppReadsMax, AppReceives, AppLoses, Store, history, listBounds
  <2> QED BY <2>1, <1>2
<1>12. UNCHANGED listVars => UNCHANGED <<readAt, clock, pressed, batchOf, reading, marks, deletes>>
  BY DEF listVars
<1> QED BY <1>2, <1>3, <1>4, <1>5, <1>6, <1>7, <1>8, <1>9, <1>10, <1>11, <1>12, StepsOfLists DEF Sweeping

\* An app's copy consists of rows, up to an id that there is.
LEMMA AppTypeStep ==
    ASSUME ListTypeOK, [ListNext]_listVars
    PROVE  AppType'
<1>0. AppType /\ TableType
  BY TypeInParts
<1>1. Top \in 0..MaxId /\ 0 \in 0..MaxId /\ Table \subseteq Rows /\ Present \subseteq Entries
  BY <1>0, ListParameters, TopOfTable DEF TableType
<1>2. excused' \subseteq Entries /\ untold' \subseteq Entries
  <2>1. CASE UNCHANGED <<excused, untold>>
    BY <1>0, <2>1 DEF AppType
  <2>2. CASE Paging \/ ResetList \/ Sweeping \/ MarkAll
    BY <1>0, <2>2 DEF AppType, Paging, ReadRows, ReadMax, ReadContents, Receive, LoadMore, LoadFails, history,
           ResetList, Sweeping, PressMarkAll, ReaderMarksAll, LoseMarkAll, MarkAll
  <2>3. CASE \E batch \in 1..MaxSeconds : Undo(batch)
    BY <1>0, <1>1, <2>3 DEF AppType, Undo
  <2>4. CASE App \/ Tick \/ \E i \in Ids : Delete(i)
    <3>1. CASE AppReadsIds
      <4>1. \A r \in Table : r.entry \in Entries
        BY <1>1 DEF Rows
      <4> QED BY <1>0, <3>1, <4>1 DEF AppReadsIds, AppType
    <3>2. CASE ~AppReadsIds
      <4>1. UNCHANGED <<excused, untold>>
        BY <2>4, <3>2 DEF App, AppAsks, AppReadsMax, AppReceives, AppLoses, Tick, Delete, history
      <4> QED BY <4>1, <2>1
    <3> QED BY <3>1, <3>2
  <2>5. CASE (\E e \in Entries, read \in BOOLEAN : Mark(e, read)) \/ \E e \in Entries : Store(e)
    BY <1>0, <2>5 DEF AppType, Mark, Store
  <2> QED BY <2>1, <2>2, <2>3, <2>4, <2>5, StepsOfLists DEF listVars
<1>3. app' \in [asked : AppSteps, got : SUBSET Rows, top : 0..MaxId, since : 0..MaxId, known : SUBSET Rows]
  <2>0. app \in [asked : AppSteps, got : SUBSET Rows, top : 0..MaxId, since : 0..MaxId, known : SUBSET Rows]
    BY <1>0 DEF AppType
  <2>1. CASE UNCHANGED app
    BY <2>0, <2>1
  <2>2. CASE App
    <3>1. WithinLimit({r \in Table : Since(r)}) \in SUBSET Rows
      BY <1>1 DEF WithinLimit
    <3>2. CASE AppAsks \/ AppLoses
      BY <2>0, <1>1, <3>2 DEF AppAsks, AppLoses, AppSteps
    <3>3. CASE AppReadsIds
      BY <2>0, <3>1, <3>3 DEF AppReadsIds, AppSteps
    <3>4. CASE AppReadsMax
      BY <2>0, <1>1, <3>4 DEF AppReadsMax, AppSteps
    <3>5. CASE AppReceives
      BY <2>0, <1>1, <3>5 DEF AppReceives, AppSteps
    <3> QED BY <2>2, <3>2, <3>3, <3>4, <3>5 DEF App
  <2>3. CASE Paging \/ ResetList \/ Sweeping
    <3>1. UNCHANGED app
      BY <2>3 DEF Paging, ReadRows, ReadMax, ReadContents, Receive, LoadMore, LoadFails,
           ResetList, Sweeping, PressMarkAll, ReaderMarksAll, LoseMarkAll
    <3> QED BY <3>1, <2>1
  <2>4. CASE MarkAll \/ Tick \/ \E batch \in 1..MaxSeconds : Undo(batch)
    BY <2>1, <2>4 DEF MarkAll, Tick, Undo
  <2>5. CASE (\E e \in Entries, read \in BOOLEAN : Mark(e, read)) \/ (\E e \in Entries : Store(e)) \/ \E i \in Ids : Delete(i)
    BY <2>1, <2>5 DEF Mark, Store, Delete
  <2> QED BY <2>1, <2>2, <2>3, <2>4, <2>5, StepsOfLists DEF listVars
<1> QED BY <1>2, <1>3 DEF AppType

\* The types are kept.
LEMMA TypesOfLists ==
    ASSUME ListTypeOK, [ListNext]_listVars
    PROVE  ListTypeOK'
<1>1. TableType' /\ ListType' /\ MarkType' /\ AppType'
  BY TableTypeStep, ListTypeStep, MarkTypeStep, AppTypeStep
<1> QED BY <1>1 DEF ListTypeOK, TableType, ListType, MarkType, AppType

-----------------------------------------------------------------------------
(* What steps do to the table and to what is unread                        *)

NewRow(e) == [id |-> Top + 1, entry |-> e]

\* Rows come into the table one at a time, at the end.
LEMMA RowsOfTable ==
    ASSUME ListTypeOK, [ListNext]_listVars
    PROVE  \A r \in Table' : \/ r \in Table
                             \/ \E e \in Entries : Store(e) /\ r = NewRow(e)
<1>0. TableType
  BY TypeInParts
<1>1. CASE UNCHANGED article
  BY <1>1 DEF Table, Used
<1>2. ASSUME NEW e \in Entries, Store(e)
      PROVE  \A r \in Table' : r \in Table \/ r = NewRow(e)
  <2> PICK n : n = Top + 1
    OBVIOUS
  <2>1. n \in Ids /\ article' = [article EXCEPT ![n] = e]
    BY <1>2 DEF Store
  <2>2. \A i \in Ids : article'[i] = IF i = n THEN e ELSE article[i]
    BY <1>0, <2>1 DEF TableType
  <2>3. Used' \subseteq Used \cup {n}
    BY <2>2 DEF Used
  <2>4. \A i \in Used' : \/ i \in Used /\ article'[i] = article[i]
                         \/ i = n /\ article'[i] = e
    BY <2>2, <2>3 DEF Used
  <2>5. NewRow(e) = [id |-> n, entry |-> e]
    BY DEF NewRow
  <2>6. ASSUME NEW r \in Table'
        PROVE  r \in Table \/ r = [id |-> n, entry |-> e]
    <3>1. PICK i \in Used' : r = [id |-> i, entry |-> article'[i]]
      BY <2>6 DEF Table
    <3> QED BY <3>1, <2>4 DEF Table
  <2> QED BY <2>5, <2>6
<1>3. ASSUME NEW i \in Ids, Delete(i)
      PROVE  \A r \in Table' : r \in Table
  <2>1. article' = [article EXCEPT ![i] = NoArticle]
    BY <1>3 DEF Delete
  <2>2. \A j \in Ids : article'[j] = IF j = i THEN NoArticle ELSE article[j]
    BY <1>0, <2>1 DEF TableType
  <2>3. \A j \in Used' : j \in Used /\ article'[j] = article[j]
    BY <2>2 DEF Used
  <2> QED BY <2>3 DEF Table
<1>4. CASE Paging \/ ResetList \/ Sweeping \/ MarkAll
  BY <1>1, <1>4 DEF Paging, ReadRows, ReadMax, ReadContents, Receive, LoadMore, LoadFails,
       ResetList, Sweeping, PressMarkAll, ReaderMarksAll, LoseMarkAll, MarkAll
<1>5. CASE App \/ Tick
  BY <1>1, <1>5 DEF App, AppAsks, AppReadsIds, AppReadsMax, AppReceives, AppLoses, Tick
<1>6. CASE (\E e \in Entries, read \in BOOLEAN : Mark(e, read)) \/ \E batch \in 1..MaxSeconds : Undo(batch)
  BY <1>1, <1>6 DEF Mark, Undo
<1> QED BY <1>1, <1>2, <1>3, <1>4, <1>5, <1>6, StepsOfLists DEF listVars

\* What becomes unread for someone who has a list was marked so, or is new.
LEMMA RowsUnread ==
    ASSUME ListTypeOK, [ListNext]_listVars
    PROVE  \A r \in Unread' : \/ r \in Unread
                              \/ HasList /\ r.entry \in excused'
                              \/ ~HasList
                              \/ \E e \in Entries : Store(e) /\ r = NewRow(e)
<1>0. TableType /\ MarkType
  BY TypeInParts
<1>1. \A r \in Unread' : r \in Table' /\ readAt'[r.entry] = 0
  BY DEF Unread
<1>2. \A r \in Table' : r \in Table \/ \E e \in Entries : Store(e) /\ r = NewRow(e)
  BY RowsOfTable
<1>3. \A r \in Table : r.entry \in Entries
  BY <1>0, TopOfTable
<1>4. CASE UNCHANGED readAt
  BY <1>1, <1>2, <1>4 DEF Unread
<1>5. ASSUME NEW e \in Entries, NEW read \in BOOLEAN, Mark(e, read)
      PROVE  \A f \in Entries : readAt'[f] = 0 => readAt[f] = 0 \/ ~HasList \/ f \in excused'
  <2>1. CASE read
    <3>1. readAt' = Stamped(e)
      BY <1>5, <2>1 DEF Mark
    <3>2. clock # 0
      BY <1>0 DEF MarkType
    <3> QED BY <1>0, <3>1, <3>2 DEF Stamped, MarkType
  <2>2. CASE ~read
    <3>1. readAt' = [readAt EXCEPT ![e] = 0] /\ (HasList => excused' = excused \cup {e})
      BY <1>5, <2>2 DEF Mark
    <3> QED BY <1>0, <3>1 DEF MarkType
  <2> QED BY <2>1, <2>2
<1>6. CASE MarkAll
  <2>1. pressed.batch # 0
    BY <1>0, <1>6 DEF MarkAll, MarkType
  <2>2. \A f \in Entries : readAt'[f] = 0 => readAt[f] = 0
    BY <1>6, <2>1 DEF MarkAll
  <2> QED BY <1>1, <1>2, <1>3, <2>2 DEF Unread
<1>7. ASSUME NEW batch \in 1..MaxSeconds, Undo(batch)
      PROVE  \A f \in Entries : readAt'[f] = 0 => readAt[f] = 0 \/ f \in excused'
  BY <1>7 DEF Undo
<1>8. CASE Paging \/ ResetList \/ Sweeping
  BY <1>4, <1>8 DEF Paging, ReadRows, ReadMax, ReadContents, Receive, LoadMore, LoadFails,
       ResetList, Sweeping, PressMarkAll, ReaderMarksAll, LoseMarkAll
<1>9. CASE App \/ Tick
  BY <1>4, <1>9 DEF App, AppAsks, AppReadsIds, AppReadsMax, AppReceives, AppLoses, Tick
<1>10. CASE (\E e \in Entries : Store(e)) \/ \E i \in Ids : Delete(i)
  BY <1>4, <1>10 DEF Store, Delete
<1>11. CASE \E e \in Entries, read \in BOOLEAN : Mark(e, read)
  BY <1>1, <1>2, <1>3, <1>5, <1>11 DEF Unread
<1>12. CASE \E batch \in 1..MaxSeconds : Undo(batch)
  BY <1>1, <1>2, <1>3, <1>7, <1>12 DEF Unread
<1> QED BY <1>4, <1>6, <1>8, <1>9, <1>10, <1>11, <1>12, StepsOfLists DEF listVars

-----------------------------------------------------------------------------
(* Marks and their batches                                                 *)

\* Reading again and marking unread keep mark and batch together.
LEMMA BatchesStep ==
    ASSUME ListTypeOK, BatchesAgree, [ListNext]_listVars
    PROVE  BatchesAgree'
<1>0. MarkType
  BY TypeInParts
<1>1. CASE UNCHANGED <<readAt, batchOf>>
  BY <1>1 DEF BatchesAgree
<1>2. ASSUME NEW e \in Entries, NEW read \in BOOLEAN, Mark(e, read)
      PROVE  BatchesAgree'
  <2>1. CASE read
    <3>1. readAt' = Stamped(e) /\ batchOf' = batchOf
      BY <1>2, <2>1 DEF Mark
    <3>2. \A f \in Entries : readAt'[f] = readAt[f] \/ readAt[f] = 0
      BY <1>0, <3>1 DEF Stamped, MarkType
    <3> QED BY <3>1, <3>2 DEF BatchesAgree
  <2>2. CASE ~read
    <3>1. readAt' = [readAt EXCEPT ![e] = 0] /\ batchOf' = [batchOf EXCEPT ![e] = 0]
      BY <1>2, <2>2 DEF Mark
    <3> QED BY <1>0, <3>1 DEF BatchesAgree, MarkType
  <2> QED BY <2>1, <2>2
<1>3. CASE MarkAll
  BY <1>3 DEF MarkAll, BatchesAgree
<1>4. ASSUME NEW batch \in 1..MaxSeconds, Undo(batch)
      PROVE  BatchesAgree'
  BY <1>4 DEF Undo, BatchesAgree
<1>5. CASE Paging \/ ResetList \/ Sweeping
  BY <1>1, <1>5 DEF Paging, ReadRows, ReadMax, ReadContents, Receive, LoadMore, LoadFails, history,
       ResetList, Sweeping, PressMarkAll, ReaderMarksAll, LoseMarkAll
<1>6. CASE App \/ Tick
  BY <1>1, <1>6 DEF App, AppAsks, AppReadsIds, AppReadsMax, AppReceives, AppLoses, Tick, history
<1>7. CASE (\E e \in Entries : Store(e)) \/ \E i \in Ids : Delete(i)
  BY <1>1, <1>7 DEF Store, Delete, history
<1> QED BY <1>1, <1>2, <1>3, <1>4, <1>5, <1>6, <1>7, StepsOfLists DEF listVars

-----------------------------------------------------------------------------
(* An app's copy                                                           *)

\* The copy and what the answer brings cover the table up to the id that goes with them.
LEMMA AppStep ==
    ASSUME ListTypeOK, AppMissesNothing, AppKnows, [ListNext]_listVars
    PROVE  AppMissesNothing' /\ AppKnows'
<1>0. TableType /\ AppType /\ app.since \in Int /\ app.top \in Int /\ Top \in Int /\ MaxId \in Nat
  BY TypeInParts, TopOfTable, ListParameters DEF AppType
<1>1. \A r \in Table : r \in Rows /\ r.id \in Int /\ r.id <= Top
  BY <1>0, TopOfTable DEF Rows, Ids
<1>2. ASSUME UNCHANGED app, untold \subseteq untold',
             \A r \in Table' : r \in Table \/ r.entry \in untold' \/ (app.asked # "max" /\ r.id > app.since /\ r.id > app.top)
      PROVE  AppMissesNothing' /\ AppKnows'
  <2>1. AppMissesNothing'
    <3> SUFFICES ASSUME NEW r \in Table', r.id <= app.since, r.entry \notin untold' PROVE r \in app.known
      BY <1>2 DEF AppMissesNothing
    <3>1. r \in Table \/ r.id > app.since
      BY <1>2
    <3>2. r \in Table
      <4>1. ~(r.id > app.since) \/ r \notin Table'
        <5>1. r.id \in Int
          <6>1. TableType'
            BY TableTypeStep
          <6>2. Table' \subseteq Rows
            BY <6>1 DEF TableType, Table, Rows, Used
          <6> QED BY <6>2 DEF Rows, Ids
        <5> QED BY <5>1, <1>0
      <4> QED BY <3>1, <4>1
    <3> QED BY <3>2, <1>2 DEF AppMissesNothing
  <2>2. AppKnows'
    <3>1. Table' \subseteq Rows
      <4>1. TableType'
        BY TableTypeStep
      <4> QED BY <4>1 DEF TableType, Table, Rows, Used
    <3>2. ASSUME NEW r \in Table', app.asked = "max" PROVE KnownTo(r)'
      BY <1>2, <3>2 DEF AppKnows, KnownTo
    <3>3. ASSUME NEW r \in Table', app.asked = "answer", r.id <= app.top PROVE KnownTo(r)'
      <4>1. r.id \in Int
        BY <3>1 DEF Rows, Ids
      <4>2. ~(r.id > app.top)
        BY <1>0, <3>3, <4>1
      <4> QED BY <1>2, <3>3, <4>2 DEF AppKnows, KnownTo
    <3> QED BY <1>2, <3>2, <3>3 DEF AppKnows
  <2> QED BY <2>1, <2>2
<1>3. ASSUME NEW e \in Entries, Store(e)
      PROVE  AppMissesNothing' /\ AppKnows'
  <2>1. UNCHANGED app /\ untold \subseteq untold' /\ NewRow(e).id = Top + 1 /\ NewRow(e).entry = e
    BY <1>3 DEF Store, NewRow
  <2>2. e \in untold' \/ (app.asked # "max" /\ Top + 1 > app.since /\ Top + 1 > app.top)
    <3>1. {app.top, app.since} \in SUBSET (0..MaxId)
      BY <1>0 DEF AppType
    <3>2. Max({app.top, app.since}) \in {app.top, app.since} /\ \A n \in {app.top, app.since} : Max({app.top, app.since}) >= n
      BY <1>0, <3>1, MaxOfBounded
    <3> PICK m : m = Max({app.top, app.since})
      OBVIOUS
    <3>3. m \in Int /\ m >= app.top /\ m >= app.since
      BY <3>2, <1>0
    <3>4. app.asked = "max" \/ Top + 1 <= m => e \in untold'
      BY <1>3 DEF Store
    <3>5. ~(Top + 1 <= m) => Top + 1 > app.since /\ Top + 1 > app.top
      BY <3>3, <1>0
    <3> QED BY <3>4, <3>5
  <2>3. \A r \in Table' : r \in Table \/ r = NewRow(e)
    <3>1. \A f \in Entries : Store(f) => f = e
      <4> TAKE f \in Entries
      <4> HAVE Store(f)
      <4>1. arrived' = arrived \cup {e} /\ arrived' = arrived \cup {f} /\ e \notin arrived
        BY <1>3 DEF Store, Fresh
      <4> QED BY <4>1
    <3> QED BY <3>1, RowsOfTable
  <2> QED BY <1>2, <2>1, <2>2, <2>3
<1>4. ASSUME UNCHANGED <<app, untold>>, ~\E e \in Entries : Store(e)
      PROVE  AppMissesNothing' /\ AppKnows'
  <2>1. \A r \in Table' : r \in Table
    BY <1>4, RowsOfTable
  <2> QED BY <1>2, <1>4, <2>1
<1>5. CASE UNCHANGED <<app, untold>> \/ \E e \in Entries : Store(e)
  BY <1>3, <1>4, <1>5
<1>6. CASE App
  <2>0. Table' = Table /\ untold \subseteq untold'
    BY <1>6 DEF App, AppAsks, AppReadsIds, AppReadsMax, AppReceives, AppLoses, Table, Used, history
  <2>1. app \in [asked : AppSteps, got : SUBSET Rows, top : 0..MaxId, since : 0..MaxId, known : SUBSET Rows]
    BY <1>0 DEF AppType
  <2>2. CASE AppAsks \/ AppLoses
    <3>1. app'.asked \in {"ids", "no"} /\ app'.since = app.since /\ app'.known = app.known
      BY <2>1, <2>2 DEF AppAsks, AppLoses
    <3> QED BY <2>0, <3>1 DEF AppMissesNothing, AppKnows
  <2>3. CASE AppReadsIds
    <3> DEFINE S == {r \in Table : Since(r)}
               got == WithinLimit(S)
    <3>1. app'.asked = "max" /\ app'.since = app.since /\ app'.known = app.known /\ app'.got = got
      BY <2>1, <2>3 DEF AppReadsIds
    <3>2. untold' = untold \cup {r.entry : r \in S \ got}
      BY <2>3 DEF AppReadsIds
    <3>3. \A r \in Table : r \in S \/ r.id <= app.since
      BY <1>0, <1>1 DEF Since
    <3> HIDE DEF S, got
    <3>4. \A r \in S : r \in got \/ r.entry \in untold'
      BY <3>2
    <3> QED BY <2>0, <3>1, <3>3, <3>4 DEF AppMissesNothing, AppKnows, KnownTo
  <2>4. CASE AppReadsMax
    <3>1. /\ app'.asked = "answer" /\ app'.since = app.since /\ app'.known = app.known /\ app'.got = app.got
          /\ app.asked = "max"
      BY <2>1, <2>4 DEF AppReadsMax
    <3> QED BY <2>0, <3>1 DEF AppMissesNothing, AppKnows, KnownTo
  <2>5. CASE AppReceives
    <3>1. /\ app'.asked = "no" /\ app'.since = app.top /\ app'.known = app.known \cup app.got
          /\ app.asked = "answer"
      BY <2>1, <2>5 DEF AppReceives
    <3> QED BY <2>0, <3>1 DEF AppMissesNothing, AppKnows, KnownTo
  <2> QED BY <1>6, <2>2, <2>3, <2>4, <2>5 DEF App
<1>7. CASE Paging \/ ResetList \/ Sweeping
  BY <1>5, <1>7 DEF Paging, ReadRows, ReadMax, ReadContents, Receive, LoadMore, LoadFails, history,
       ResetList, Sweeping, PressMarkAll, ReaderMarksAll, LoseMarkAll
<1>8. CASE MarkAll \/ \E batch \in 1..MaxSeconds : Undo(batch)
  BY <1>5, <1>8 DEF MarkAll, Undo
<1>9. CASE Tick \/ (\E e \in Entries, read \in BOOLEAN : Mark(e, read)) \/ \E i \in Ids : Delete(i)
  BY <1>5, <1>9 DEF Tick, Mark, Delete, history
<1> QED BY <1>5, <1>6, <1>7, <1>8, <1>9, StepsOfLists DEF listVars

-----------------------------------------------------------------------------
(* The pages of a list                                                     *)

\* A step keeps to the list, begins it anew, or is one of paging.
LEMMA ListKept ==
    ASSUME [ListNext]_listVars
    PROVE  /\ reading' = reading
           /\ \/ UNCHANGED list /\ excused \subseteq excused' /\ UNCHANGED reading
              \/ HasList /\ NewList
              \/ HasList /\ Paging
<1>1. CASE UNCHANGED listVars
  BY <1>1 DEF listVars, list
<1>2. CASE HasList /\ Paging
  BY <1>2 DEF Paging, ReadRows, ReadMax, ReadContents, Receive, LoadMore, LoadFails, listBounds
<1>3. CASE HasList /\ (ResetList \/ Sweeping \/ MarkAll)
  BY <1>3 DEF ResetList, Sweeping, PressMarkAll, ReaderMarksAll, LoseMarkAll, MarkAll, Reloaded, list, history, listBounds
<1>4. CASE \E batch \in 1..MaxSeconds : HasList /\ Undo(batch)
  BY <1>4 DEF Undo, Reloaded, list, listBounds
<1>5. CASE App \/ Tick
  BY <1>5 DEF App, AppAsks, AppReadsIds, AppReadsMax, AppReceives, AppLoses, Tick, list, history, listBounds
<1>6. CASE (\E e \in Entries, read \in BOOLEAN : Mark(e, read)) \/ \E i \in Ids : Delete(i)
  BY <1>6 DEF Mark, Delete, list, history
<1>7. CASE \E e \in Entries : Store(e)
  BY <1>7 DEF Store, list, listBounds
<1> QED BY <1>1, <1>2, <1>3, <1>4, <1>5, <1>6, <1>7, StepsOfLists

\* Who reads, what is pinned and what is asked for keep going together.
LEMMA ShapeStep ==
    ASSUME ListTypeOK, ListShape, [ListNext]_listVars
    PROVE  ListShape'
<1>0. /\ ListType /\ TableType /\ MaxId \in Nat /\ Top \in 0..MaxId /\ NoMax = MaxId + 1 /\ Top # NoMax
      /\ answer \in [rows : SUBSET Rows, next : Rows \cup {NoRow}, maxId : 0..NoMax]
  BY TypeInParts, TopOfTable, ListParameters DEF NoMax, ListType
<1>1. reading' = reading
  BY ListKept
<1>2. CASE UNCHANGED list
  <2>1. UNCHANGED <<asked, maxId, done, cursor, answer>>
    BY <1>2 DEF list
  <2> QED BY <1>1, <2>1 DEF ListShape, PageShape, ReaderShape, HasList
<1>3. CASE HasList /\ NewList
  BY <1>1, <1>3 DEF NewList, NoPage, ListShape, PageShape, ReaderShape, HasList
<1>4. CASE HasList /\ ReadRows
  <2>1. /\ asked = "rows" /\ UNCHANGED <<cursor, maxId, done>> /\ answer'.maxId = maxId
        /\ asked' = IF reading = "reader" THEN "contents" ELSE IF maxId = NoMax THEN "max" ELSE "answer"
    BY <1>4 DEF ReadRows
  <2> QED BY <1>1, <1>4, <2>1 DEF ListShape, PageShape, ReaderShape, HasList
<1>5. CASE HasList /\ ReadMax
  <2>1. asked = "max" /\ UNCHANGED <<cursor, maxId, done>> /\ answer'.maxId = Top /\ asked' = "answer"
    BY <1>0, <1>5 DEF ReadMax
  <2> QED BY <1>0, <1>1, <1>5, <2>1 DEF ListShape, PageShape, ReaderShape, HasList
<1>6. CASE HasList /\ ReadContents
  <2>1. asked = "contents" /\ UNCHANGED <<cursor, maxId, done>> /\ answer'.maxId = answer.maxId /\ asked' = "answer"
    BY <1>0, <1>6 DEF ReadContents
  <2> QED BY <1>1, <1>6, <2>1 DEF ListShape, PageShape, ReaderShape, HasList
<1>7. CASE HasList /\ Receive
  <2>1. /\ asked = "answer" /\ asked' = "no" /\ maxId' = answer.maxId /\ done' = (answer.next = NoRow)
        /\ cursor' = IF answer.next # NoRow THEN answer.next ELSE cursor
    BY <1>7 DEF Receive
  <2> QED BY <1>1, <1>7, <2>1 DEF ListShape, PageShape, ReaderShape, HasList
<1>8. CASE HasList /\ (LoadMore \/ LoadFails)
  <2>1. UNCHANGED <<cursor, maxId, done>> /\ asked' \in {"rows", "no"} /\ (asked' # "no" => ~done)
    BY <1>8 DEF LoadMore, LoadFails
  <2> QED BY <1>1, <1>8, <2>1 DEF ListShape, PageShape, ReaderShape, HasList
<1> QED BY <1>2, <1>3, <1>4, <1>5, <1>6, <1>7, <1>8, ListKept DEF Paging

\* What comes while a list is kept as it is, comes after its pages or is excused.
LEMMA NewRowsOfLists ==
    ASSUME ListTypeOK, ListShape, NEW e \in Entries, Store(e), HasList
    PROVE  \/ e \in excused'
           \/ /\ asked # "max" /\ reading = "page"
              /\ asked = "answer" => NewRow(e).id > answer.maxId
              /\ maxId = NoMax \/ NewRow(e).id > maxId
<1> PICK n : n = NewRow(e).id
  OBVIOUS
<1>1. /\ n = Top + 1 /\ n \in 0..NoMax /\ n \in Int /\ MaxId \in Int /\ n <= MaxId
      /\ maxId \in Int /\ maxId \in 0..NoMax /\ answer.maxId \in Int /\ answer.maxId \in 0..NoMax /\ NoMax = MaxId + 1
  BY TypeInParts, ListParameters DEF NewRow, ListType, Store, Ids, NoMax
<1> PICK limit : limit = IF asked = "answer" THEN answer.maxId ELSE maxId
  OBVIOUS
<1>2. asked = "max" \/ n <= limit => e \in excused'
  BY <1>1 DEF Store
<1>3. CASE reading = "reader"
  <2>1. limit = NoMax
    BY <1>3 DEF ListShape, ReaderShape
  <2>2. n <= limit
    BY <1>1, <2>1
  <2> QED BY <1>2, <2>2
<1>4. CASE reading = "page" /\ ~(asked = "max" \/ n <= limit)
  <2>1. n > limit
    BY <1>1, <1>4
  <2>2. asked = "answer" => limit = answer.maxId /\ (maxId = limit \/ maxId = NoMax)
    BY <1>4 DEF ListShape, PageShape
  <2> QED BY <1>4, <2>1, <2>2
<1> QED BY <1>2, <1>3, <1>4 DEF HasList

\* A list that is kept while the world changes misses nothing more.
LEMMA KeptList ==
    ASSUME ListTypeOK, ListShape, Pages, NothingIsMissed, [ListNext]_listVars,
           UNCHANGED list, excused \subseteq excused'
    PROVE  Pages' /\ NothingIsMissed'
<1>0. UNCHANGED <<listed, cursor, maxId, done, asked, answer, reading>>
  BY ListKept DEF list
<1>1. \A r \in Unread' : \/ r \in Unread
                         \/ HasList /\ r.entry \in excused'
                         \/ ~HasList
                         \/ \E e \in Entries : Store(e) /\ r = NewRow(e)
  BY RowsUnread
<1>2. CASE ~HasList
  <2>1. asked = "no" /\ maxId = NoMax /\ reading # "reader"
    BY <1>2 DEF ListShape, HasList
  <2> QED BY <1>0, <2>1 DEF Pages, HalfAnswered, NothingIsMissed, Begun
<1>3. CASE HasList
  <2>1. ASSUME NEW r \in Unread', HalfAnswered
        PROVE  WillHave(r)'
    <3>1. CASE r \in Unread
      BY <1>0, <2>1, <3>1 DEF Pages, WillHave
    <3>2. ASSUME NEW e \in Entries, Store(e), r = NewRow(e)
          PROVE  WillHave(r)'
      <4>1. r.entry = e
        BY <3>2 DEF NewRow
      <4>2. e \in excused' \/ (asked # "max" /\ reading = "page" /\ (asked = "answer" => r.id > answer.maxId))
        BY <1>3, <3>2, NewRowsOfLists
      <4>3. reading = "page" => asked # "contents"
        BY DEF ListShape, PageShape
      <4> QED BY <1>0, <2>1, <4>1, <4>2, <4>3 DEF WillHave, HalfAnswered
    <3> QED BY <1>1, <1>3, <3>1, <3>2 DEF WillHave
  <2>2. ASSUME NEW r \in Unread', Begun
        PROVE  r.entry \in excused' \/ r \in listed \/ r.id > maxId \/ (~done /\ Before(cursor, r))
    <3>1. CASE r \in Unread
      <4>1. r.entry \in excused \/ r \in listed \cup New \/ (~done /\ Before(cursor, r))
        BY <2>2, <3>1 DEF NothingIsMissed
      <4> QED BY <4>1 DEF New
    <3>2. ASSUME NEW e \in Entries, Store(e), r = NewRow(e)
          PROVE  r.entry \in excused' \/ r.id > maxId
      <4>1. r.entry = e
        BY <3>2 DEF NewRow
      <4>2. e \in excused' \/ (reading = "page" /\ (maxId = NoMax \/ r.id > maxId))
        BY <1>3, <3>2, NewRowsOfLists
      <4> QED BY <2>2, <4>1, <4>2 DEF Begun
    <3> QED BY <1>1, <1>3, <3>1, <3>2
  <2>3. HalfAnswered' = HalfAnswered /\ Begun' = Begun
    BY <1>0 DEF HalfAnswered, Begun
  <2>4. Pages'
    BY <2>1, <2>3 DEF Pages
  <2>5. NothingIsMissed'
    <3> SUFFICES ASSUME Begun', NEW r \in Unread'
                 PROVE  r.entry \in excused' \/ r \in (listed \cup New)' \/ (~done' /\ Before(cursor', r))
      BY DEF NothingIsMissed, Before
    <3>1. r.entry \in excused' \/ r \in listed \/ r.id > maxId \/ (~done /\ Before(cursor, r))
      BY <2>2, <2>3
    <3>2. r.id > maxId => r \in New'
      BY <1>0 DEF New
    <3> QED BY <1>0, <3>1, <3>2
  <2> QED BY <2>4, <2>5
<1> QED BY <1>2, <1>3

\* Its pages take from what is unread the first that the list hasn't got, and name the
\* place where the next one goes on.
LEMMA PagedList ==
    ASSUME ListTypeOK, ListShape, Pages, NothingIsMissed, HasList, Paging
    PROVE  Pages' /\ NothingIsMissed'
<1>0. /\ TableType /\ ListType /\ MaxId \in Nat /\ NoMax = MaxId + 1 /\ maxId \in Int
      /\ answer \in [rows : SUBSET Rows, next : Rows \cup {NoRow}, maxId : 0..NoMax] /\ NoRow \notin Rows
  BY TypeInParts, ListParameters, ListDistinct DEF ListType, NoMax
<1>1. Unread' = Unread /\ reading' = reading
  BY DEF Paging, ReadRows, ReadMax, ReadContents, Receive, LoadMore, LoadFails, Unread, Table, Used, listBounds
<1>2. \A r \in Unread : r \in Table /\ r \in Rows /\ r.id \in Int /\ r.id <= NoMax
  <2>1. \A r \in Table : r \in Rows
    BY <1>0, TopOfTable
  <2> QED BY <1>0, <2>1 DEF Unread, Rows, Ids
<1>3. CASE ReadRows
  <2>1. /\ asked = "rows" /\ UNCHANGED <<listed, cursor, maxId, done>>
        /\ answer' = [rows |-> FirstOf(Matching), next |-> NextCursor(Matching), maxId |-> maxId]
        /\ asked' = IF reading = "reader" THEN "contents" ELSE IF maxId = NoMax THEN "max" ELSE "answer"
        /\ excused' = IF cursor = NoRow THEN {} ELSE excused
    BY <1>3 DEF ReadRows
  <2>2. ~done /\ (reading = "page" => (maxId = NoMax <=> cursor = NoRow)) /\ (reading = "reader" => maxId = NoMax)
    BY <2>1, HasList DEF ListShape, PageShape, ReaderShape
  <2>3. Begun' = Begun /\ (Begun <=> cursor # NoRow)
    BY <1>1, <2>1, <2>2 DEF Begun, HasList
  <2>4. \A r \in Matching : \/ r \in FirstOf(Matching)
                            \/ NextCursor(Matching) \in Rows /\ Before(NextCursor(Matching), r)
    BY <1>0, PageOfRows
  <2>5. ASSUME NEW r \in Unread
        PROVE  WillHave(r)'
    <3>1. CASE r \in Matching
      <4>1. CASE r \in FirstOf(Matching)
        BY <2>1, <4>1 DEF WillHave
      <4>2. CASE NextCursor(Matching) \in Rows /\ Before(NextCursor(Matching), r)
        <5>1. answer'.next = NextCursor(Matching) /\ answer'.next # NoRow
          BY <1>0, <2>1, <4>2
        <5> QED BY <4>2, <5>1 DEF WillHave, Before
      <4> QED BY <2>4, <3>1, <4>1, <4>2
    <3>2. CASE cursor # NoRow /\ ~(r.id <= maxId)
      <4>1. r.id > maxId /\ maxId # NoMax
        BY <1>0, <1>2, <3>2
      <4>2. asked' = "answer" /\ answer'.maxId = maxId
        BY <2>1, <2>2, <4>1
      <4> QED BY <4>1, <4>2 DEF WillHave
    <3>3. CASE cursor # NoRow /\ r.id <= maxId /\ ~Before(cursor, r)
      <4>1. r.entry \in excused \/ r \in listed \cup New
        BY <2>3, <3>3 DEF NothingIsMissed
      <4>2. r \notin New
        BY <1>0, <1>2, <3>3 DEF New
      <4> QED BY <2>1, <3>3, <4>1, <4>2 DEF WillHave
    <3>4. cursor = NoRow => r.id <= maxId
      BY <1>2, <2>2 DEF HasList
    <3> QED BY <3>1, <3>2, <3>3, <3>4 DEF Matching, Beyond
  <2>6. Pages'
    BY <1>1, <2>5 DEF Pages
  <2>7. NothingIsMissed'
    <3> SUFFICES ASSUME Begun', NEW r \in Unread'
                 PROVE  r.entry \in excused' \/ r \in (listed \cup New)' \/ (~done' /\ Before(cursor', r))
      BY DEF NothingIsMissed, Before
    <3>1. Begun /\ r \in Unread /\ excused' = excused
      BY <1>1, <2>1, <2>3
    <3>2. New' = New
      BY <1>1, <2>1 DEF New
    <3> QED BY <2>1, <3>1, <3>2 DEF NothingIsMissed
  <2> QED BY <2>6, <2>7
<1>4. ASSUME UNCHANGED <<listed, cursor, maxId, done, excused>>
      PROVE  NothingIsMissed'
  <2>1. Begun' = Begun /\ New' = New
    BY <1>1, <1>4 DEF Begun, New
  <2> QED BY <1>1, <1>4, <2>1 DEF NothingIsMissed, Before
<1>5. CASE ReadMax
  <2>1. /\ UNCHANGED <<listed, cursor, maxId, done, excused>> /\ asked = "max"
        /\ answer'.rows = answer.rows /\ answer'.next = answer.next
    BY <1>0, <1>5 DEF ReadMax, history
  <2>2. ASSUME NEW r \in Unread PROVE WillHave(r)'
    <3>1. WillHave(r)
      BY <2>1 DEF Pages, HalfAnswered
    <3> QED BY <2>1, <3>1 DEF WillHave, Before
  <2> QED BY <1>1, <1>4, <2>1, <2>2 DEF Pages
<1>6. CASE ReadContents
  <2>1. /\ UNCHANGED <<listed, cursor, maxId, done, excused>> /\ asked = "contents"
        /\ answer'.rows = {r \in Table : \E s \in answer.rows : r.id = s.id} /\ answer'.next = answer.next
    BY <1>0, <1>6 DEF ReadContents, history
  <2>2. ASSUME NEW r \in Unread PROVE WillHave(r)'
    <3>1. WillHave(r)
      BY <2>1 DEF Pages, HalfAnswered
    <3>2. r \in answer.rows => r \in answer'.rows
      BY <1>2, <2>1
    <3> QED BY <2>1, <3>1, <3>2 DEF WillHave, Before
  <2> QED BY <1>1, <1>4, <2>1, <2>2 DEF Pages
<1>7. CASE Receive
  <2>1. /\ asked = "answer" /\ asked' = "no" /\ listed' = listed \cup answer.rows
        /\ cursor' = IF answer.next # NoRow THEN answer.next ELSE cursor
        /\ maxId' = answer.maxId /\ done' = (answer.next = NoRow) /\ excused' = excused
    BY <1>7 DEF Receive, history
  <2>2. ASSUME NEW r \in Unread'
        PROVE  r.entry \in excused' \/ r \in (listed \cup New)' \/ (~done' /\ Before(cursor', r))
    <3>1. r \in Unread /\ WillHave(r)
      BY <1>1, <2>1 DEF Pages, HalfAnswered
    <3>2. r.id > answer.maxId => r \in New'
      BY <2>1 DEF New
    <3>3. answer.next # NoRow /\ Before(answer.next, r) => ~done' /\ Before(cursor', r)
      BY <2>1
    <3> QED BY <2>1, <3>1, <3>2, <3>3 DEF WillHave
  <2> QED BY <2>1, <2>2 DEF Pages, HalfAnswered, NothingIsMissed, Before
<1>8. CASE LoadMore \/ LoadFails
  <2>1. UNCHANGED <<listed, cursor, maxId, done, excused>> /\ asked' \in {"rows", "no"}
    BY <1>8 DEF LoadMore, LoadFails, history
  <2> QED BY <1>4, <2>1 DEF Pages, HalfAnswered
<1> QED BY <1>3, <1>5, <1>6, <1>7, <1>8 DEF Paging

\* The list misses nothing.
LEMMA PagesStep ==
    ASSUME ListTypeOK, ListShape, Pages, NothingIsMissed, [ListNext]_listVars
    PROVE  Pages' /\ NothingIsMissed'
<1>1. CASE UNCHANGED list /\ excused \subseteq excused'
  BY <1>1, KeptList
<1>2. CASE HasList /\ NewList
  <2>1. asked' = "rows" /\ maxId' = NoMax' /\ ~done' /\ cursor' = NoRow
    BY <1>2 DEF NewList, NoMax
  <2> QED BY <2>1 DEF Pages, HalfAnswered, NothingIsMissed, Begun
<1>3. CASE HasList /\ Paging
  BY <1>3, PagedList
<1> QED BY <1>1, <1>2, <1>3, ListKept

-----------------------------------------------------------------------------
(* From the start                                                          *)

\* Before anything is asked for there is nothing to miss.
LEMMA ListsInitially ==
    ASSUME ListInit
    PROVE  ListInv
<1>0. MaxId \in Nat /\ MaxSeconds \in Nat \ {0} /\ MaxMarks \in Nat /\ MaxDeletes \in Nat /\ NoMax \in 0..NoMax
  BY ListParameters DEF NoMax
<1>1. TableType
  <2>1. /\ article \in [Ids -> Entries \cup {NoArticle}] /\ arrived = Present
        /\ \A i, j \in Ids : i # j /\ article[i] # NoArticle => article[i] # article[j]
    BY DEF ListInit
  <2>2. \A i \in Used : i \in Ids /\ article[i] # NoArticle /\ article[i] \in Entries
    BY <2>1 DEF Used
  <2> QED BY <2>1, <2>2 DEF TableType, Present
<1>2. ListType
  BY <1>0 DEF ListInit, ListType, NoPage, HasList
<1>3. MarkType
  BY <1>0 DEF ListInit, MarkType
<1>4. AppType
  BY <1>0 DEF ListInit, AppType, AppSteps
<1>5. BatchesAgree
  BY DEF ListInit, BatchesAgree
<1>6. AppMissesNothing /\ AppKnows
  <2>1. app.since = 0 /\ app.asked = "no"
    BY DEF ListInit
  <2>2. \A r \in Table : ~(r.id <= 0)
    <3>1. \A r \in Table : r \in Rows
      BY <1>1, TopOfTable
    <3> QED BY <3>1, <1>0 DEF Rows, Ids
  <2> QED BY <2>1, <2>2 DEF AppMissesNothing, AppKnows
<1>7. ListShape
  BY DEF ListInit, ListShape, PageShape, ReaderShape, HasList
<1>8. Pages /\ NothingIsMissed
  <2>1. asked \in {"rows", "no"} /\ maxId = NoMax /\ ~done /\ cursor = NoRow
    BY DEF ListInit
  <2> QED BY <2>1 DEF Pages, HalfAnswered, NothingIsMissed, Begun
<1> QED BY <1>1, <1>2, <1>3, <1>4, <1>5, <1>6, <1>7, <1>8, TypeInParts DEF ListInv

\* The invariant of lists, copies and marks.
LEMMA ListsStep ==
    ASSUME ListInv, [ListNext]_listVars
    PROVE  ListInv'
BY TypesOfLists, BatchesStep, AppStep, ShapeStep, PagesStep DEF ListInv

\* The text of articles, and what fetches it, change no list: with it the articles are
\* still those of ArticleList, also when a backup is imported.
LEMMA TextsStep ==
    ASSUME [FullNext]_allVars
    PROVE  [ListNext]_listVars
<1>1. CASE Elsewhere
  BY <1>1 DEF Elsewhere
<1>2. CASE reading = "nothing" /\ Texting
  BY <1>2 DEF Texting, Claim, Ask, Finish, LoseResult, Import, Stop, Start, ResetInterrupted, ResetFails, Here, ListNext
<1> QED BY <1>1, <1>2 DEF FullNext, allVars

\* FullText implements ArticleList: whatever the worker, requests for a text, restarts
\* and failed writes do, articles and lists do what ArticleList lets them.
THEOREM TextsKeepToLists == FullSpec => ListSpec
<1>1. FullInit => ListInit
  BY DEF FullInit
<1> QED BY <1>1, TextsStep, PTL DEF FullSpec, ListSpec

\* The inductive invariant of lists: what is listed, what is on the way, and what comes
\* after the cursor or will be announced are together all that is unread.
THEOREM ListInvariance == ListSpec => []ListInv
BY ListsInitially, ListsStep, PTL DEF ListSpec

\* Whatever arrives, is read or goes while a list is loaded (the two SELECTs of loadMore's
\* first page, the cursor of articles.py), an unread article is in the list, in one
\* of its next pages or announced as new.
THEOREM UnreadIsListed == FullSpec => []NothingIsMissed
<1>1. ListInv => NothingIsMissed
  BY DEF ListInv
<1> QED BY <1>1, TextsKeepToLists, ListInvariance, PTL

\* "Mark all as read" (mark_scope_read) on a list that is loaded to its end marks nothing
\* that the list doesn't have, but for what is excused.
THEOREM MarkAllSparesTheNew == FullSpec => SparesNew
<1>1. ASSUME ListInv, MarkAll, done, pressed.maxId = maxId, reading = "page",
             NEW e \in Entries, readAt[e] = 0, readAt'[e] # 0
      PROVE  e \in excused \/ \E r \in listed : r.entry = e
  <2>1. PICK r \in Unread : r.entry = e /\ MarkedWithAll(r)
    BY <1>1 DEF MarkAll
  <2>2. r.id <= maxId /\ r.id \in Int /\ maxId \in Int
    <3>1. TableType /\ ListType
      BY <1>1, TypeInParts DEF ListInv
    <3>2. r \in Rows
      BY <3>1, TopOfTable DEF Unread
    <3> QED BY <1>1, <2>1, <3>1, <3>2, ListParameters DEF MarkedWithAll, ListType, Rows, Ids, NoMax
  <2>3. r \notin New
    BY <2>2 DEF New
  <2>4. Begun
    BY <1>1 DEF ListInv, ListShape, PageShape, Begun
  <2>5. r.entry \in excused \/ r \in listed
    BY <1>1, <2>3, <2>4 DEF ListInv, NothingIsMissed
  <2> QED BY <2>1, <2>5
<1>2. ListInv =>
        [MarkAll /\ done /\ pressed.maxId = maxId /\ reading = "page" =>
          \A e \in Entries : readAt[e] = 0 /\ readAt'[e] # 0 =>
            e \in excused \/ \E r \in listed : r.entry = e]_listVars
  BY <1>1
<1> QED BY <1>2, TextsKeepToLists, ListInvariance, PTL DEF SparesNew

\* Undo finds what "mark all as read" marked (undo_mark_scope_read goes by the time that
\* set_read and mark_scope_read stamped), whoever reads it again.
THEOREM UndoFindsTheBatch == FullSpec => []MarkAllCanBeUndone
<1>1. ListInv => MarkAllCanBeUndone
  <2> SUFFICES ASSUME ListInv PROVE MarkAllCanBeUndone
    OBVIOUS
  <2>1. Present \subseteq Entries
    BY DEF ListInv, ListTypeOK
  <2> QED BY <2>1 DEF ListInv, BatchesAgree, MarkAllCanBeUndone
<1> QED BY <1>1, TextsKeepToLists, ListInvariance, PTL

\* An app that asks since its last since_id (GET /api/articles/ids) has every article
\* up to it, whichever answers are lost, but for what it can't know of.
THEOREM CopiesMissNothing == FullSpec => []AppMissesNothing
<1>1. ListInv => AppMissesNothing
  BY DEF ListInv
<1> QED BY <1>1, TextsKeepToLists, ListInvariance, PTL

-----------------------------------------------------------------------------
(* The full text of articles                                               *)

FullInv == ListInv /\ FullTypeOK /\ WorkIsKnown

\* A server that was down has left nothing working but articles.
LEMMA TextsInitially ==
    ASSUME FullInit
    PROVE  FullInv
<1>1. ListInv
  BY ListsInitially DEF FullInit
<1>2. FullTypeOK
  <2>1. text \in [Ids -> Texts]
    BY DEF FullInit, Texts, Untried, Statuses
  <2> QED BY <1>1, <2>1, FullTextParameters DEF FullInit, FullTypeOK, ListInv
<1>3. WorkIsKnown
  <2>1. worker = "down"
    BY DEF FullInit
  <2>2. \A i \in Ids \ Used : text[i] = Untried
    BY DEF FullInit
  <2> QED BY <2>1, <2>2 DEF WorkIsKnown, Untried
<1> QED BY <1>1, <1>2, <1>3 DEF FullInv

\* A claim takes up articles that are there, and the text of an article goes with it.
LEMMA FullStep ==
    ASSUME FullInv, [FullNext]_allVars
    PROVE  FullInv'
<1>1. ListInv'
  BY TextsStep, ListsStep DEF FullInv
<1>0. /\ TableType /\ ListTypeOK' /\ TableType'
      /\ text \in [Ids -> Texts] /\ fetches \subseteq Jobs /\ left \subseteq Ids
      /\ worker \in {"down", "starting", "running", "ended"}
      /\ asks \in 0..MaxAsks /\ faults \in 0..MaxFaults /\ MaxAsks \in Nat /\ MaxFaults \in Nat
      /\ \A i \in Ids \ Used : text[i].status # "working"
      /\ \A i \in Used : i \in Ids /\ article[i] \in Entries
  BY <1>1, TypeInParts, TopOfTable, FullTextParameters, TableTypeStep, TextsStep DEF FullInv, FullTypeOK, WorkIsKnown, ListInv
<1> DEFINE Working(i) == i \in left \/ \E j \in fetches : j.id = i /\ ~j.byHand
<1>2. worker = "running" => \A i \in Ids : text[i].status = "working" => Working(i)
  BY DEF FullInv, WorkIsKnown
<1>3. Untried \in Texts /\ Untried.status # "working"
  BY DEF Untried, Texts, Statuses
<1> DEFINE Job(i, e, hand) == [id |-> i, entry |-> e, byHand |-> hand]
<1>j. \A i \in Ids, e \in Entries, hand \in BOOLEAN : Job(i, e, hand) \in Jobs
  BY DEF Jobs
<1>4. CASE UNCHANGED allVars
  BY <1>1, <1>4 DEF allVars, fullVars, listVars, FullInv, FullTypeOK, WorkIsKnown, ListInv, Used
<1>5. CASE Elsewhere
  <2>1. text' = [i \in Ids |-> Kept(i)] /\ left' = {i \in left : article'[i] = article[i]}
        /\ UNCHANGED <<fetches, worker, asks, faults>>
    BY <1>5 DEF Elsewhere
  <2>2. \A i \in Ids : \/ article'[i] = article[i] /\ text'[i] = text[i]
                       \/ text'[i] = Untried
    BY <2>1 DEF Kept
  <2>3. text' \in [Ids -> Texts]
    BY <1>0, <1>3, <2>1, <2>2
  <2>4. FullTypeOK'
    BY <1>0, <2>1, <2>3 DEF FullTypeOK
  <2>5. \A i \in Ids \ Used' : text'[i].status # "working"
    BY <1>0, <1>3, <2>2 DEF Used
  <2>6. \A i \in Ids : text'[i].status = "working" =>
            text[i].status = "working" /\ article'[i] = article[i]
    BY <1>3, <2>2
  <2>7. worker' = "running" =>
          \A i \in Ids : text'[i].status = "working" => i \in left' \/ \E j \in fetches' : j.id = i /\ ~j.byHand
    BY <1>2, <2>1, <2>6
  <2> QED BY <1>1, <2>4, <2>5, <2>7 DEF FullInv, WorkIsKnown
<1>6. ASSUME NEW e \in Entries, Import(e)
      PROVE  FullInv'
  <2> PICK n : n = Top + 1
    OBVIOUS
  <2>1. PICK t \in {Untried, [status |-> "working", content |-> NoContent], [status |-> "ready", content |-> e]} :
            text' = [text EXCEPT ![n] = t]
    BY <1>6 DEF Import
  <2>2. /\ left' = left \cup {n} /\ n \in Ids /\ article' = [article EXCEPT ![n] = e]
        /\ faults < MaxFaults /\ faults' = faults + 1 /\ UNCHANGED <<fetches, worker, asks>>
    BY <1>6 DEF Import, Store
  <2>3. t \in Texts
    BY <1>3, <2>1 DEF Texts, Statuses
  <2>4. FullTypeOK'
    <3>1. text' \in [Ids -> Texts]
      BY <1>0, <2>1, <2>3
    <3>2. faults' \in 0..MaxFaults
      <4>1. faults \in 0..MaxFaults /\ MaxFaults \in Nat /\ faults < MaxFaults /\ faults' = faults + 1
        BY <1>0, <2>2
      <4> QED BY <4>1
    <3>3. left' \subseteq Ids
      BY <1>0, <2>2
    <3> QED BY <1>0, <2>2, <3>1, <3>2, <3>3 DEF FullTypeOK
  <2>5. \A i \in Ids : i # n => text'[i] = text[i] /\ article'[i] = article[i]
    BY <1>0, <2>1, <2>2 DEF TableType
  <2>6. n \in Used'
    BY <1>0, <2>2, ListDistinct DEF TableType, Used
  <2>7. \A i \in Ids \ Used' : text'[i].status # "working"
    BY <1>0, <2>5, <2>6 DEF Used
  <2>8. worker' = "running" =>
          \A i \in Ids : text'[i].status = "working" => i \in left' \/ \E j \in fetches' : j.id = i /\ ~j.byHand
    BY <1>2, <2>2, <2>5
  <2> QED BY <1>1, <2>4, <2>7, <2>8 DEF FullInv, WorkIsKnown
<1>7. CASE Claim
  <2> PICK S : S = {i \in Due : Cardinality({k \in Due : k > i}) < BatchSize}
    OBVIOUS
  <2>1. /\ text' = [i \in Ids |-> IF i \in S THEN [text[i] EXCEPT !.status = "working"] ELSE text[i]]
        /\ fetches' = fetches \cup {[id |-> i, entry |-> article[i], byHand |-> FALSE] : i \in S}
        /\ left' = left \ S /\ UNCHANGED <<worker, asks, faults, article>>
    BY <1>7 DEF Claim, Here, listVars
  <2>2. \A i \in S : i \in Used /\ i \in Ids /\ article[i] \in Entries
    BY <1>0 DEF Due
  <2>3. text' \in [Ids -> Texts]
    BY <1>0, <2>1 DEF Texts, Statuses
  <2>4. fetches' \subseteq Jobs
    <3>1. \A i \in S : Job(i, article[i], FALSE) \in Jobs
      BY <1>j, <2>2
    <3> QED BY <1>0, <2>1, <3>1
  <2>5. FullTypeOK'
    BY <1>0, <2>1, <2>3, <2>4 DEF FullTypeOK
  <2>6. Used' = Used
    BY <2>1 DEF Used
  <2>7. \A i \in Ids \ S : text'[i] = text[i]
    BY <2>1
  <2>8. \A i \in Ids \ Used' : text'[i].status # "working"
    BY <1>0, <2>2, <2>6, <2>7
  <2>9. \A i \in S : \E j \in fetches' : j.id = i /\ ~j.byHand
    <3> TAKE i \in S
    <3>1. [id |-> i, entry |-> article[i], byHand |-> FALSE] \in fetches'
      BY <2>1
    <3> QED BY <3>1
  <2>10. worker' = "running" =>
          \A i \in Ids : text'[i].status = "working" => i \in left' \/ \E j \in fetches' : j.id = i /\ ~j.byHand
    BY <1>2, <2>1, <2>7, <2>9
  <2> QED BY <1>1, <2>5, <2>8, <2>10 DEF FullInv, WorkIsKnown
<1>8. ASSUME NEW i \in Ids, NEW refresh \in BOOLEAN, Ask(i, refresh)
      PROVE  FullInv'
  <2>1. /\ fetches' = fetches \cup {[id |-> i, entry |-> article[i], byHand |-> TRUE]} /\ i \in Used
        /\ asks < MaxAsks /\ asks' = asks + 1 /\ UNCHANGED <<text, worker, left, faults, article>>
    BY <1>8 DEF Ask, Here, listVars
  <2>2. fetches' \subseteq Jobs
    <3>1. Job(i, article[i], TRUE) \in Jobs
      BY <1>0, <1>j, <2>1
    <3> QED BY <1>0, <2>1, <3>1
  <2>3. FullTypeOK'
    BY <1>0, <2>1, <2>2 DEF FullTypeOK
  <2>4. Used' = Used
    BY <2>1 DEF Used
  <2> QED BY <1>0, <1>1, <1>2, <2>1, <2>3, <2>4 DEF FullInv, WorkIsKnown
<1>9. ASSUME NEW j \in fetches, Finish(j)
      PROVE  FullInv'
  <2>0. j \in Jobs /\ j.id \in Ids /\ j.entry \in Entries
    BY <1>0 DEF Jobs
  <2>1. PICK t \in {Fetched(j), Failure(j)} : text' = IF j.id \in Used THEN [text EXCEPT ![j.id] = t] ELSE text
    BY <1>9 DEF Finish
  <2>2. fetches' = fetches \ {j} /\ left' = left \ {j.id} /\ UNCHANGED <<worker, asks, faults, article>>
    BY <1>9 DEF Finish, Here, listVars
  <2>3. t \in Texts /\ t.status # "working"
    BY <1>0, <2>0, <2>1 DEF Fetched, Failure, Texts, Statuses
  <2>4. text' \in [Ids -> Texts]
    BY <1>0, <2>0, <2>1, <2>3
  <2>5. FullTypeOK'
    BY <1>0, <2>2, <2>4 DEF FullTypeOK
  <2>6. text'[j.id].status # "working" /\ \A i \in Ids : i # j.id => text'[i] = text[i]
    BY <1>0, <2>0, <2>1, <2>3
  <2>7. Used' = Used
    BY <2>2 DEF Used
  <2>8. \A i \in Ids \ Used' : text'[i].status # "working"
    BY <1>0, <2>6, <2>7
  <2>9. worker' = "running" =>
          \A i \in Ids : text'[i].status = "working" => i \in left' \/ \E k \in fetches' : k.id = i /\ ~k.byHand
    BY <1>2, <2>2, <2>6
  <2> QED BY <1>1, <2>5, <2>8, <2>9 DEF FullInv, WorkIsKnown
<1>10. ASSUME NEW j \in fetches, LoseResult(j)
       PROVE  FullInv'
  <2>0. j \in Jobs /\ j.id \in Ids /\ j.byHand \in BOOLEAN
    BY <1>0 DEF Jobs
  <2>1. /\ faults < MaxFaults /\ faults' = faults + 1 /\ fetches' = fetches \ {j}
        /\ UNCHANGED <<text, worker, asks, article>>
        /\ left' = IF j.byHand THEN left ELSE left \cup {j.id}
    BY <1>10 DEF LoseResult, Here, listVars
  <2>2. FullTypeOK'
    BY <1>0, <2>0, <2>1 DEF FullTypeOK
  <2>3. Used' = Used
    BY <2>1 DEF Used
  <2>4. \A i \in Ids : Working(i) => i \in left' \/ \E k \in fetches' : k.id = i /\ ~k.byHand
    BY <2>1
  <2> QED BY <1>0, <1>1, <1>2, <2>1, <2>2, <2>3, <2>4 DEF FullInv, WorkIsKnown
<1>11. CASE Stop \/ Start \/ ResetFails
  <2>1. /\ worker' \in {"down", "starting", "ended"} /\ fetches' \subseteq fetches /\ faults' \in 0..MaxFaults
        /\ UNCHANGED <<text, left, asks, article>>
    BY <1>0, <1>11 DEF Stop, Start, ResetFails, Here, listVars
  <2>2. FullTypeOK'
    BY <1>0, <2>1 DEF FullTypeOK
  <2>3. Used' = Used
    BY <2>1 DEF Used
  <2> QED BY <1>0, <1>1, <2>1, <2>2, <2>3 DEF FullInv, WorkIsKnown
<1>12. CASE ResetInterrupted
  <2>1. /\ text' = [i \in Ids |-> Reset(text[i])] /\ left' = {} /\ worker' = "running"
        /\ UNCHANGED <<fetches, asks, faults, article>>
    BY <1>12 DEF ResetInterrupted, Here, listVars
  <2>2. \A i \in Ids : Reset(text[i]) \in Texts /\ Reset(text[i]).status # "working"
    BY <1>0 DEF Reset, Texts, Statuses
  <2>3. FullTypeOK'
    BY <1>0, <2>1, <2>2 DEF FullTypeOK
  <2> QED BY <1>1, <2>1, <2>2, <2>3 DEF FullInv, WorkIsKnown
<1> QED BY <1>4, <1>5, <1>6, <1>7, <1>8, <1>9, <1>10, <1>11, <1>12 DEF FullNext, Texting

\* The inductive invariant of lists and texts.
THEOREM FullInvariance == FullSpec => []FullInv
BY TextsInitially, FullStep, PTL DEF FullSpec

\* The types of articles, lists, marks and texts.
THEOREM TextsTypeCorrect == FullSpec => []FullTypeOK
<1>1. FullInv => FullTypeOK
  BY DEF FullInv
<1> QED BY <1>1, FullInvariance, PTL

\* Once _reset_interrupted has run, an article that claim_full_text marked as being worked
\* on has a job, of the worker, or was left behind by a failed write or a backup.
THEOREM TextsAreUnderWay == FullSpec => []WorkIsUnderWay
<1>1. FullInv => WorkIsUnderWay
  BY DEF FullInv, WorkIsKnown, WorkIsUnderWay
<1> QED BY <1>1, FullInvariance, PTL
=============================================================================
