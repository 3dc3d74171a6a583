------------------------------ MODULE FullText ------------------------------
(***************************************************************************)
(* The full text of articles, fetched from their pages: by the page worker *)
(* for the feeds that ask for it, and by hand (app/services/full_text.py,  *)
(* app/services/pages.py, claim_full_text and what follows it in           *)
(* app/db/repositories/articles.py).  It is part of the articles of        *)
(* ArticleList, which go, and give their ids away, while it is fetched.    *)
(*                                                                         *)
(* A text is the entry whose page it was made from.  That the worker takes *)
(* up recent articles only is left out.                                    *)
(***************************************************************************)
EXTENDS ArticleList

CONSTANTS Wanted,      \* entries of feeds that ask for full text
          BatchSize,   \* BATCH_SIZE: the articles one claim takes
          MaxAsks,     \* bound: requests for one article's text
          MaxFaults,   \* bound: restarts, and writes that fail
          NoContent

ASSUME FullTextParameters ==
    /\ Wanted \subseteq Entries /\ NoContent \notin Entries
    /\ BatchSize \in Nat \ {0} /\ MaxAsks \in Nat /\ MaxFaults \in Nat

VARIABLES
    text,    \* full_status and full_content of the row of each id
    fetches, \* the jobs under way, of the worker and of requests
    worker,  \* "down", "starting" until it has reset what was interrupted, "running", "ended"
    left,    \* history: ids left as "working", see WorkIsUnderWay
    asks, faults

fullVars == <<text, fetches, worker, left, asks, faults>>
allVars == <<listVars, fullVars>>

Statuses == {"none", "working", "ready", "failed"}
Texts == [status : Statuses, content : Entries \cup {NoContent}]
Untried == [status |-> "none", content |-> NoContent]

\* FullTextJob, with the article its address was read from
Jobs == [id : Ids, entry : Entries, byHand : BOOLEAN]

-----------------------------------------------------------------------------
(* What happens to articles happens to their texts                         *)

Kept(i) == IF article'[i] = article[i] THEN text[i] ELSE Untried

Elsewhere ==
    /\ ListNext
    /\ text' = [i \in Ids |-> Kept(i)]
    /\ left' = {i \in left : article'[i] = article[i]}
    /\ UNCHANGED <<fetches, worker, asks, faults>>

\* The import of an account's backup brings texts, and what was being fetched
\* when the backup was made
Import(e) ==
    /\ faults < MaxFaults /\ faults' = faults + 1
    /\ Store(e)
    /\ \E t \in {Untried, [status |-> "working", content |-> NoContent], [status |-> "ready", content |-> e]} :
        text' = [text EXCEPT ![Top + 1] = t]
    /\ left' = left \cup {Top + 1}
    /\ UNCHANGED <<fetches, worker, asks>>

-----------------------------------------------------------------------------
(* Fetching                                                                *)

Here == UNCHANGED listVars

\* Articles that haven't been tried, while they are unread
Due == {i \in Used : article[i] \in Wanted /\ text[i].status = "none" /\ readAt[article[i]] = 0}

\* claim_full_text: the newest ids first.  The worker waits for its last batch,
\* unless the result of a page in it could not be stored (PageCapture), so that it
\* may be here at any time.
Claim ==
    LET S == {i \in Due : Cardinality({k \in Due : k > i}) < BatchSize} IN
    /\ worker = "running"
    /\ S # {}
    /\ text' = [i \in Ids |-> IF i \in S THEN [text[i] EXCEPT !.status = "working"] ELSE text[i]]
    /\ fetches' = fetches \cup {[id |-> i, entry |-> article[i], byHand |-> FALSE] : i \in S}
    /\ left' = left \ S
    /\ Here /\ UNCHANGED <<worker, asks, faults>>

\* POST full-text: full_text_job, full_text_state; what is there is given as it is
Ask(i, refresh) ==
    /\ worker # "down"
    /\ asks < MaxAsks /\ asks' = asks + 1
    /\ i \in Used
    /\ refresh \/ text[i].status # "ready" \/ text[i].content = NoContent
    /\ fetches' = fetches \cup {[id |-> i, entry |-> article[i], byHand |-> TRUE]}
    /\ Here /\ UNCHANGED <<text, worker, left, faults>>

\* save_full_text, save_full_text_failure: a failure leaves the content
Fetched(j) == [status |-> "ready", content |-> j.entry]
Failure(j) == [text[j.id] EXCEPT !.status = "failed"]

\* _store: by the id alone
Finish(j) ==
    /\ \E t \in {Fetched(j), Failure(j)} : text' = IF j.id \in Used THEN [text EXCEPT ![j.id] = t] ELSE text
    /\ fetches' = fetches \ {j}
    /\ left' = left \ {j.id}
    /\ Here /\ UNCHANGED <<worker, asks, faults>>

\* The result can't be written: the worker logs it and goes on
LoseResult(j) ==
    /\ faults < MaxFaults /\ faults' = faults + 1
    /\ fetches' = fetches \ {j}
    /\ left' = IF j.byHand THEN left ELSE left \cup {j.id}
    /\ Here /\ UNCHANGED <<text, worker, asks>>

-----------------------------------------------------------------------------
(* The server going down and up                                            *)

Stop ==
    /\ worker # "down"
    /\ faults < MaxFaults /\ faults' = faults + 1
    /\ worker' = "down" /\ fetches' = {}
    /\ Here /\ UNCHANGED <<text, left, asks>>

Start ==
    /\ worker = "down"
    /\ worker' = "starting"
    /\ Here /\ UNCHANGED <<text, fetches, left, asks, faults>>

\* Slip: only what failed is tried again
ResetFailed(t) == IF t.status = "failed" THEN [t EXCEPT !.status = "none"] ELSE t

Reset(t) == IF t.status = "working" THEN [t EXCEPT !.status = "none"] ELSE t

\* _reset_interrupted, a second after the start
ResetInterrupted ==
    /\ worker = "starting"
    /\ worker' = "running"
    /\ text' = [i \in Ids |-> Reset(text[i])]
    /\ left' = {}
    /\ Here /\ UNCHANGED <<fetches, asks, faults>>

\* It isn't in the loop's try: the worker is over, until the next start
ResetFails ==
    /\ worker = "starting"
    /\ faults < MaxFaults /\ faults' = faults + 1
    /\ worker' = "ended"
    /\ Here /\ UNCHANGED <<text, fetches, left, asks>>

-----------------------------------------------------------------------------
\* A server that was stopped, also while it was fetching; what the page and the
\* apps do to the lists is ArticleList's, and changes no text
FullInit ==
    /\ ListInit
    /\ text \in {t \in [Ids -> {Untried, [Untried EXCEPT !.status = "working"]}] :
                    \A i \in Ids : t[i] # Untried => reading = "nothing" /\ i \in Used /\ article[i] \in Wanted}
    /\ fetches = {} /\ worker = "down"
    /\ left = {}
    /\ asks = 0 /\ faults = 0

Texting ==
    \/ Claim
    \/ \E i \in Ids, refresh \in BOOLEAN : Ask(i, refresh)
    \/ \E j \in fetches : Finish(j) \/ LoseResult(j)
    \/ \E e \in Entries : Import(e)
    \/ Stop \/ Start \/ ResetInterrupted \/ ResetFails

FullNext ==
    \/ Elsewhere
    \/ reading = "nothing" /\ Texting

FullSpec == FullInit /\ [][FullNext]_allVars

-----------------------------------------------------------------------------
FullTypeOK ==
    /\ ListTypeOK
    /\ text \in [Ids -> Texts]
    /\ fetches \subseteq Jobs
    /\ worker \in {"down", "starting", "running", "ended"}
    /\ left \subseteq Ids
    /\ asks \in 0..MaxAsks /\ faults \in 0..MaxFaults

\* Once the worker runs, an article is marked as being worked on only while it is:
\* what a restart cut off is taken up again, whatever became of the article.
\* Excepted is what a failed write left behind or a backup brought, until the next
\* start.
WorkIsUnderWay ==
    worker = "running" =>
        \A i \in Ids : text[i].status = "working" =>
            i \in left \/ \E j \in fetches : j.id = i
=============================================================================
