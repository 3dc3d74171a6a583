----------------------------- MODULE PageQueue -----------------------------
(***************************************************************************)
(* What the queue of web pages promises those who save and read a stash,   *)
(* without attempts, leases, batches or restarts: each item has at most    *)
(* one page, for one address; a page waits or is settled, and keeps the    *)
(* copy it has until a newer one replaces it or it goes.                   *)
(***************************************************************************)
CONSTANTS Ids, Urls, NoPage, NoCopy

VARIABLE page  \* of each item: NoPage, or its address, its state and its copy

New(u) == [url |-> u, state |-> "waiting", copy |-> NoCopy]
Sent(u, of) == [url |-> u, state |-> "settled", copy |-> [of |-> of, sent |-> TRUE]]
Fetched(u) == [of |-> u, sent |-> FALSE]

Copies == [of : Urls, sent : BOOLEAN]
Pages == [url : Urls, state : {"waiting", "settled"}, copy : Copies \cup {NoCopy}]

\* Items that had no page get one; a client may send along a page it has open
Appear ==
    /\ page' \in [Ids -> Pages \cup {NoPage}]
    /\ \A i \in Ids : \/ page'[i] = page[i]
                      \/ page[i] = NoPage /\ \E u, of \in Urls : page'[i] \in {New(u), Sent(u, of)}

\* An item's address changes to another, or to none, or the item is deleted
Replace(i) ==
    /\ page[i] # NoPage
    /\ \E p \in {NoPage} \cup {New(u) : u \in Urls \ {page[i].url}} : page' = [page EXCEPT ![i] = p]

\* It waits (again): it is asked for, or shall be tried once more
Again(i) ==
    /\ page[i] # NoPage
    /\ page' = [page EXCEPT ![i] = [@ EXCEPT !.state = "waiting"]]

\* A fetch ended for good: it brought a copy, or the copy there is stays
Settle(i) ==
    /\ page[i] # NoPage
    /\ \E c \in {page[i].copy, Fetched(page[i].url)} :
          page' = [page EXCEPT ![i] = [@ EXCEPT !.state = "settled", !.copy = c]]

Next == Appear \/ \E i \in Ids : Replace(i) \/ Again(i) \/ Settle(i)

\* A server from before there was a queue
Init == page = [i \in Ids |-> NoPage]

Spec == Init /\ [][Next]_page

Waits(i) == page[i] # NoPage /\ page[i].state = "waiting"
=============================================================================
