----------------------------- MODULE ReadMarks -----------------------------
(***************************************************************************)
(* How the read and unread marks a reader makes in the browser get to the  *)
(* server: applied on the page at once, gathered in two sets, and sent in  *)
(* batches by flushMarks (app/static/js/articles.js, autorefresh.js).      *)
(*                                                                         *)
(* flushMarks waits for each answer, and nothing keeps other calls of it   *)
(* out meanwhile: the timer, the poll of every minute and the page being   *)
(* hidden each make one.  The server handles requests as they reach it, in *)
(* any order.                                                              *)
(***************************************************************************)
EXTENDS Integers

CONSTANTS Articles,     \* the articles of the list on the page
          Calls,        \* calls of flushMarks that may be under way at once
          MaxPresses,   \* bound: marks the reader makes
          MaxFailures,  \* bound: requests that fail
          NoCall, NoAnswer

ASSUME Parameters ==
    /\ MaxPresses \in Nat /\ MaxFailures \in Nat

\* Why flushMarks was called; only "leave" is with keepalive
Causes == {"timer", "poll", "leave"}

\* A call that waits for an answer; `handled` once the server did what it asks
CallStates == [cause : Causes, read : BOOLEAN, ids : SUBSET Articles, handled : BOOLEAN]

ASSUME Distinct == NoCall \notin CallStates /\ NoAnswer \notin [Articles -> BOOLEAN]

VARIABLES
    shown,    \* a.read of each article on the page
    pending,  \* pending[TRUE] is pendingRead, pending[FALSE] is pendingUnread
    timer,    \* flushTimer is set
    call,
    late,     \* requests the page gave up on that the server has yet to handle
    server,   \* articles.read_at IS NOT NULL
    loaded,   \* resetList: what the server read for a list on its way to the page, or NoAnswer
    chosen,   \* history: what the reader last chose, at first what the server said
    crossed,  \* history: articles that were in two requests at once, one each way
    presses, failures

page == <<shown, loaded>>
bounds == <<presses, failures>>
vars == <<shown, pending, timer, call, late, server, loaded, chosen, crossed, presses, failures>>

Waiting == {c \in Calls : call[c] # NoCall}

\* The articles a request about `ids` crosses, given the requests that are
\* neither answered nor lost
Crossing(read, ids, requests) == {a \in ids : \E q \in requests : q.read # read /\ a \in q.ids}

-----------------------------------------------------------------------------
(* The reader                                                              *)

Gathered(a, read) == [pending EXCEPT ![read] = @ \cup {a}, ![~read] = @ \ {a}]

\* setRead: by a click, by opening the article or by scrolling past it
Press(a) ==
    /\ loaded = NoAnswer
    /\ presses < MaxPresses
    /\ presses' = presses + 1
    /\ shown' = [shown EXCEPT ![a] = ~@]
    /\ chosen' = [chosen EXCEPT ![a] = ~shown[a]]
    /\ pending' = Gathered(a, ~shown[a])
    /\ timer' = TRUE
    /\ UNCHANGED <<call, late, server, loaded, crossed, failures>>

\* resetList, for another view or what a poll found: the page is empty until
\* the list is there.  A list still on its way is cancelled
Reload ==
    /\ loaded' = server
    /\ UNCHANGED <<shown, pending, timer, call, late, server, chosen, crossed, bounds>>

Render ==
    /\ loaded # NoAnswer
    /\ shown' = loaded
    /\ loaded' = NoAnswer
    /\ UNCHANGED <<pending, timer, call, late, server, chosen, crossed, bounds>>

-----------------------------------------------------------------------------
(* flushMarks                                                              *)

\* Takes what is gathered for one half and sends it
Send(c, cause, read) ==
    /\ call' = [call EXCEPT ![c] = [cause |-> cause, read |-> read, ids |-> pending[read], handled |-> FALSE]]
    /\ pending' = [pending EXCEPT ![read] = {}]
    /\ crossed' = crossed \cup Crossing(read, pending[read], {call[d] : d \in Waiting} \cup late)

\* The half a call begins with: read marks go first
IsFirst(read) == pending[read] # {} /\ (read \/ pending[TRUE] = {})

Flush(c, cause) ==
    /\ call[c] = NoCall
    /\ timer' = FALSE
    /\ \E read \in BOOLEAN : IsFirst(read) /\ Send(c, cause, read)
    /\ UNCHANGED <<page, late, server, chosen, bounds>>

OnTimer(c) == timer /\ Flush(c, "timer")

\* Slip: the poll leaves the marks to the timer
OnPollIfTimer(c) ==
    /\ timer
    /\ \A d \in Waiting : call[d].cause # "poll"
    /\ Flush(c, "poll")

\* pollForNew, every minute: one at a time
OnPoll(c) ==
    /\ \A d \in Waiting : call[d].cause # "poll"
    /\ Flush(c, "poll")

\* pagehide, visibilitychange
OnLeave(c) == Flush(c, "leave")

\* The timer fires, or a poll comes, and another call took everything
TimerFinds ==
    /\ timer
    /\ \A read \in BOOLEAN : pending[read] = {}
    /\ timer' = FALSE
    /\ UNCHANGED <<page, pending, call, late, server, chosen, crossed, bounds>>

\* After the answer to its first half a call sends the other, from what is
\* gathered by then
GoOn(c, gathered) ==
    IF call[c].read /\ gathered[FALSE] # {}
    THEN /\ call' = [call EXCEPT ![c].read = FALSE, ![c].ids = gathered[FALSE], ![c].handled = FALSE]
         /\ pending' = [gathered EXCEPT ![FALSE] = {}]
         /\ crossed' = crossed \cup Crossing(FALSE, gathered[FALSE], {call[d] : d \in Waiting \ {c}} \cup late')
    ELSE /\ call' = [call EXCEPT ![c] = NoCall]
         /\ pending' = gathered
         /\ UNCHANGED crossed

Answered(c) ==
    /\ call[c] # NoCall /\ call[c].handled
    /\ UNCHANGED late
    /\ GoOn(c, pending)
    /\ UNCHANGED <<page, timer, server, chosen, bounds>>

\* Slip: gives back marks the reader has taken back since
GivenBackAll(q) == [pending EXCEPT ![q.read] = @ \cup q.ids]

GivenBack(q) == [pending EXCEPT ![q.read] = @ \cup (q.ids \ pending[~q.read])]

\* The answer is lost, the request is, or it is only late; without keepalive the
\* page tries again after five seconds
Fail(c) ==
    /\ call[c] # NoCall
    /\ failures < MaxFailures
    /\ failures' = failures + 1
    /\ late' \in (IF call[c].handled THEN {late}
                  ELSE {late, late \cup {[read |-> call[c].read, ids |-> call[c].ids, no |-> failures]}})
    /\ timer' = (timer \/ call[c].cause # "leave")
    /\ GoOn(c, GivenBack(call[c]))
    /\ UNCHANGED <<page, server, chosen, presses>>

-----------------------------------------------------------------------------
(* POST /api/articles/mark                                                 *)

Marked(q) == [a \in Articles |-> IF a \in q.ids THEN q.read ELSE server[a]]

Handle(c) ==
    /\ call[c] # NoCall /\ ~call[c].handled
    /\ server' = Marked(call[c])
    /\ call' = [call EXCEPT ![c].handled = TRUE]
    /\ UNCHANGED <<page, pending, timer, late, chosen, crossed, bounds>>

HandleLate(q) ==
    /\ server' = Marked(q)
    /\ late' = late \ {q}
    /\ UNCHANGED <<page, pending, timer, call, chosen, crossed, bounds>>

-----------------------------------------------------------------------------
\* The page was just loaded, with what is unread (unreadOnly)
Init ==
    /\ server = [a \in Articles |-> FALSE]
    /\ shown = server /\ chosen = server
    /\ pending = [read \in BOOLEAN |-> {}]
    /\ timer = FALSE
    /\ call = [c \in Calls |-> NoCall]
    /\ late = {} /\ crossed = {}
    /\ loaded = NoAnswer
    /\ presses = 0 /\ failures = 0

Next ==
    \/ \E a \in Articles : Press(a)
    \/ Reload \/ Render \/ TimerFinds
    \/ \E c \in Calls : OnTimer(c) \/ OnPoll(c) \/ OnLeave(c) \/ Answered(c) \/ Fail(c) \/ Handle(c)
    \/ \E q \in late : HandleLate(q)

\* The page stays open and is looked at again and again, and requests are
\* answered; nobody has to press anything.
Fairness ==
    /\ WF_vars(TimerFinds) /\ WF_vars(\E c \in Calls : OnTimer(c))
    /\ SF_vars(\E c \in Calls : OnPoll(c))
    /\ \A c \in Calls : WF_vars(Handle(c)) /\ WF_vars(Answered(c))
    /\ WF_vars(\E q \in late : HandleLate(q))

Spec == Init /\ [][Next]_vars /\ Fairness

-----------------------------------------------------------------------------
LateRequests == [read : BOOLEAN, ids : SUBSET Articles, no : 0..MaxFailures]

\* No mark is gathered both ways
TypeOK ==
    /\ shown \in [Articles -> BOOLEAN]
    /\ pending \in [BOOLEAN -> SUBSET Articles]
    /\ pending[TRUE] \cap pending[FALSE] = {}
    /\ timer \in BOOLEAN
    /\ call \in [Calls -> CallStates \cup {NoCall}]
    /\ late \subseteq LateRequests
    /\ server \in [Articles -> BOOLEAN]
    /\ loaded \in [Articles -> BOOLEAN] \cup {NoAnswer}
    /\ chosen \in [Articles -> BOOLEAN]
    /\ crossed \subseteq Articles
    /\ presses \in 0..MaxPresses /\ failures \in 0..MaxFailures

OnItsWay(a) ==
    \/ a \in pending[chosen[a]]
    \/ \E c \in Waiting : ~call[c].handled /\ call[c].read = chosen[a] /\ a \in call[c].ids

\* What the reader last chose for an article is on the server or on its way
\* there, whatever requests failed or came late and however calls of flushMarks
\* overlap: unless two requests about it, one each way, were under way at once.
MarksAreKept ==
    \A a \in Articles \ crossed : server[a] = chosen[a] \/ OnItsWay(a)

\* Every mark is sent in the end, also one given back by a request made while
\* the page was being left, for which no timer is set.
EveryMarkIsSent ==
    \A a \in Articles, read \in BOOLEAN : a \in pending[read] ~> a \notin pending[read]
=============================================================================
