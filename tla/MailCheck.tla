------------------------------ MODULE MailCheck -----------------------------
(***************************************************************************)
(* Saving what arrives in a connected mailbox (app/services/mail.py,       *)
(* app/db/repositories/mail.py, app/mail/imap.py, app/web/api/mail.py).    *)
(*                                                                         *)
(* One account's mailbox is checked by the worker, on a timer, and by hand,*)
(* also at once.  A check lists what is unread, then takes each message    *)
(* through steps that no transaction covers: was it saved, save it,        *)
(* remember it, mark it read.  The worker stops when no mailbox is         *)
(* connected; connecting one starts it.                                    *)
(*                                                                         *)
(* Messages are numbered by age.  What becomes of a saved one is Saving's. *)
(***************************************************************************)
EXTENDS Integers, FiniteSets, FiniteSetsExt

CONSTANTS Last,      \* messages are 1..Last
          Unwanted,  \* not from an allowed sender, or InvalidInput
          Nameless,  \* without a Message-ID
          Failing,   \* that can't be fetched, or whose saving always fails some other way
          Sticky,    \* whose \Seen can't be set
          PerCheck,  \* MAX_PER_CHECK
          MaxEvents, \* bound: what people, mailboxes and stops do
          MaxErrors, \* bound: failures of the database under the worker's loop
          NoCheck

Messages == 1..Last

ASSUME MailParameters ==
    /\ Last \in Nat /\ Unwanted \subseteq Messages /\ Nameless \subseteq Messages /\ Failing \subseteq Messages
    /\ Sticky \subseteq Messages
    /\ PerCheck \in Nat \ {0} /\ MaxEvents \in Nat /\ MaxErrors \in Nat

Checkers == {"worker", "hand"}
Many == 2
BoxIds == 0..2   \* 0: none is connected; a new one may get the last one's row id, or not

\* A check of the mailbox `box`: the messages it has left, and where it is with the oldest
Checks == [box : BoxIds, left : SUBSET Messages, step : {"asking", "saving", "remembering", "marking"}]

ASSUME MailDistinct == NoCheck \notin Checks

VARIABLES box, on,       \* the row of mail_accounts: its id, enabled
          remembered,    \* the rows of mail_messages, which go with the account's
          old,           \* those seen REMEMBER_MESSAGES_DAYS ago or longer
          items,         \* how many items each message became, up to Many
          arrived, read, \* in the mailbox: its messages, their \Seen flags
          starting,      \* a mailbox was saved; the request hasn't called start() yet
          task, found,   \* MailWorker._task, and the account its loop has read of: 0 is none
          check,         \* the checks under way
          unsure,        \* messages that may be saved again: see OnceOnly
          unwatched,     \* the loop ended though a mailbox was connected: see EveryMessageIsSaved
          events, errors

mailbox == <<arrived, read>>
account == <<box, on>>
memory == <<remembered, old>>
worker == <<task, found, starting, unwatched>>
mailVars == <<box, on, remembered, old, items, arrived, read, starting, task, found, check, unsure, unwatched, events, errors>>

Event == events < MaxEvents /\ events' = events + 1
Connected == box # 0 /\ on

-----------------------------------------------------------------------------
(* A check                                                                 *)

Unread == arrived \ read
\* The oldest unread, so a full mailbox doesn't arrive all at once
Oldest(s, n) == {m \in s : Cardinality({k \in s : k <= m}) <= n}
OneFewer == Oldest(Unread, PerCheck - 1)
Listed == Oldest(Unread, PerCheck)

\* Never read, whatever the checks do
Stuck == Sticky \cup (Failing \ Unwanted)

Checking(c) == check[c] # NoCheck
Held == UNION {check[c].left : c \in {k \in Checkers : Checking(k)}}
At(c, m, step) == Checking(c) /\ check[c].left # {} /\ m = Min(check[c].left) /\ check[c].step = step
To(c, step) == [check EXCEPT ![c].step = step]
Done(c, m) == [check EXCEPT ![c].left = @ \ {m}, ![c].step = "asking"]

Opened(c, b) == [check EXCEPT ![c] = [box |-> b, left |-> Listed, step |-> "asking"]]

\* already_saved, for the account as the check read it; an unwanted one is done with
AlreadySaved(c, m) == m \in remembered /\ box = check[c].box

OthersSave(c, m) == \E o \in Checkers \ {c} : At(o, m, "saving") \/ At(o, m, "remembering")

Look(c, m) ==
    /\ At(c, m, "asking")
    /\ LET done == m \in Unwanted \/ (m \notin Nameless /\ AlreadySaved(c, m))
       IN /\ check' = To(c, IF done THEN "marking" ELSE "saving")
          /\ unsure' = unsure \cup (IF ~done /\ (OthersSave(c, m) \/ box # check[c].box) THEN {m} ELSE {})
    /\ UNCHANGED <<account, memory, items, mailbox, worker, events, errors>>

StraightAway(m) == "marking"
AfterSaving(m) == IF m \in Nameless THEN "marking" ELSE "remembering"

\* stash.capture
Save(c, m) ==
    /\ At(c, m, "saving") /\ m \notin Failing
    /\ items' = [items EXCEPT ![m] = Min({@ + 1, Many})]
    /\ check' = To(c, AfterSaving(m))
    /\ unsure' = unsure \cup (Nameless \cap {m})
    /\ UNCHANGED <<account, memory, mailbox, worker, events, errors>>

\* "Left unread, so the next check tries it again"
ReadAnyway(c, m) == To(c, "marking")
LeftUnread(c, m) == Done(c, m)

SavingFails(c, m) ==
    /\ At(c, m, "saving")
    /\ check' = LeftUnread(c, m)
    /\ UNCHANGED <<account, memory, items, mailbox, worker, unsure, events, errors>>

Remember(c, m) ==
    /\ At(c, m, "remembering") /\ box = check[c].box
    /\ remembered' = remembered \cup {m}
    /\ check' = To(c, "marking")
    /\ UNCHANGED <<account, old, items, mailbox, worker, unsure, events, errors>>

\* The account is gone, or the database busy: saved, but tried again
RememberingFails(c, m) ==
    /\ At(c, m, "remembering")
    /\ box # check[c].box \/ errors < MaxErrors
    /\ errors' = IF box # check[c].box THEN errors ELSE errors + 1
    /\ check' = LeftUnread(c, m) /\ unsure' = unsure \cup {m}
    /\ UNCHANGED <<account, memory, items, mailbox, worker, events>>

Mark(c, m) ==
    /\ At(c, m, "marking") /\ m \notin Sticky
    /\ read' = read \cup {m} /\ check' = Done(c, m)
    /\ UNCHANGED <<account, memory, items, arrived, worker, unsure, events, errors>>

\* The mail server refuses, which nobody notices, or is gone, which ends the check
NotMarked(c, m) ==
    /\ At(c, m, "marking")
    /\ check' \in {Done(c, m), [check EXCEPT ![c].left = {}]}
    /\ UNCHANGED <<account, memory, items, mailbox, worker, unsure, events, errors>>

-----------------------------------------------------------------------------
(* By hand: POST /api/mail/check                                           *)

CheckByHand ==
    /\ Event /\ box # 0 /\ ~Checking("hand")
    /\ check' = Opened("hand", box)
    /\ UNCHANGED <<account, memory, items, mailbox, worker, unsure, errors>>

HandDone ==
    /\ Checking("hand") /\ check["hand"].left = {}
    /\ check' = [check EXCEPT !["hand"] = NoCheck]
    /\ UNCHANGED <<account, memory, items, mailbox, worker, unsure, events, errors>>

-----------------------------------------------------------------------------
(* The worker's loop                                                       *)

\* The accounts are read in a thread; what it found is acted on later
ReadAccounts ==
    /\ task = "asleep"
    /\ task' = "looking" /\ found' = IF Connected THEN box ELSE 0
    /\ UNCHANGED <<account, memory, items, mailbox, starting, unwatched, check, unsure, events, errors>>

\* Nobody has a mailbox: the loop ends
Stops == task = "looking" /\ found = 0

End ==
    /\ Stops
    /\ task' = "none"
    /\ UNCHANGED <<account, memory, items, mailbox, found, starting, unwatched, check, unsure, events, errors>>

Open ==
    /\ task = "looking" /\ found # 0
    /\ check' = Opened("worker", found) /\ task' = "checking"
    /\ UNCHANGED <<account, memory, items, mailbox, found, starting, unwatched, unsure, events, errors>>

\* What is to be taken up again, should the mailbox hand it over once it is forgotten
Again(forgotten) == forgotten \ (read \ Held)

\* forget_seen goes by the time alone, whether the mailbox has it read or not
ForgetOld ==
    /\ remembered' = remembered \ old /\ old' = {}
    /\ unsure' = unsure \cup Again(old)

\* At the storage limit nothing is checked, and a mailbox may be out of reach
SkipRound ==
    /\ task = "looking" /\ ~Stops
    /\ task' = "asleep" /\ ForgetOld
    /\ UNCHANGED <<account, items, mailbox, found, starting, unwatched, check, events, errors>>

\* The round ends with record_check and with forgetting
RoundDone ==
    /\ task = "checking" /\ check["worker"].left = {}
    /\ ForgetOld
    /\ check' = [check EXCEPT !["worker"] = NoCheck] /\ task' = "asleep"
    /\ UNCHANGED <<account, items, mailbox, found, starting, unwatched, events, errors>>

\* "Checking mailboxes failed": an error that no mailbox's check raised ends the loop
LoopFails ==
    /\ task \in {"asleep", "looking"} /\ errors < MaxErrors
    /\ errors' = errors + 1
    /\ task' = "none" /\ unwatched' = TRUE
    /\ UNCHANGED <<account, memory, items, mailbox, found, starting, check, unsure, events>>

-----------------------------------------------------------------------------
(* Connecting, changing and removing the mailbox                           *)

\* ON CONFLICT DO UPDATE: one that is connected keeps its id
Connect(id, enabled) ==
    /\ Event /\ ~starting
    /\ id # 0 /\ box \in {0, id}
    /\ box' = id /\ on' = enabled /\ starting' = TRUE
    /\ UNCHANGED <<memory, items, mailbox, task, found, unwatched, check, unsure, errors>>

\* start(), on the event loop; a loop about to end counts as one
Start ==
    /\ starting /\ starting' = FALSE
    /\ task' = IF task = "none" THEN "asleep" ELSE task
    /\ unwatched' = IF task = "none" THEN FALSE ELSE unwatched \/ Stops
    /\ UNCHANGED <<account, memory, items, mailbox, found, check, unsure, events, errors>>

\* The messages remembered go with the account
Disconnect ==
    /\ Event /\ box # 0
    /\ box' = 0 /\ on' = FALSE /\ remembered' = {} /\ old' = {}
    /\ unsure' = unsure \cup Again(remembered)
    /\ UNCHANGED <<items, mailbox, worker, check, errors>>

-----------------------------------------------------------------------------
(* The mailbox, and the server stopping                                     *)

Arrive ==
    /\ arrived # Messages
    /\ arrived' = arrived \cup {Cardinality(arrived) + 1}
    /\ UNCHANGED <<account, memory, items, read, worker, check, unsure, events, errors>>

\* "If a mailbox loses its read flag"
LoseFlag(m) ==
    /\ Event /\ m \in read
    /\ read' = read \ {m}
    /\ unsure' = unsure \cup ({m} \ remembered)
    /\ UNCHANGED <<account, memory, items, arrived, worker, check, errors>>

\* It has been remembered for 180 days
Ages(m) ==
    /\ Event /\ m \in remembered \ old
    /\ old' = old \cup {m}
    /\ UNCHANGED <<account, remembered, items, mailbox, worker, check, unsure, errors>>

Restart ==
    /\ Event
    /\ unsure' = unsure \cup {m \in Messages : \E c \in Checkers : At(c, m, "remembering")}
    /\ check' = [c \in Checkers |-> NoCheck]
    /\ task' = IF Connected THEN "asleep" ELSE "none"
    /\ starting' = FALSE /\ unwatched' = FALSE
    /\ UNCHANGED <<account, memory, items, mailbox, found, errors>>

MailInit ==
    /\ box = 0 /\ on = FALSE /\ remembered = {} /\ old = {}
    /\ items = [m \in Messages |-> 0]
    /\ arrived = {} /\ read = {}
    /\ starting = FALSE /\ task = "none" /\ found = 0
    /\ check = [c \in Checkers |-> NoCheck]
    /\ unsure = {} /\ unwatched = FALSE /\ events = 0 /\ errors = 0

Loop == ReadAccounts \/ End \/ RoundDone
Step(c, m) == Look(c, m) \/ Remember(c, m) \/ RememberingFails(c, m)

MailNext ==
    \/ \E c \in Checkers, m \in Messages :
           Step(c, m) \/ Save(c, m) \/ SavingFails(c, m) \/ Mark(c, m) \/ NotMarked(c, m)
    \/ CheckByHand \/ HandDone
    \/ Loop \/ Open \/ SkipRound \/ LoopFails
    \/ \E id \in BoxIds, enabled \in BOOLEAN : Connect(id, enabled)
    \/ Start \/ Disconnect
    \/ Arrive \/ Restart \/ \E m \in Messages : LoseFlag(m) \/ Ages(m)

\* The event loop and the threads go on; a mailbox is reached, a message saved and
\* marked, if it is tried again and again
MailFairness ==
    /\ WF_mailVars(Loop) /\ WF_mailVars(Start) /\ SF_mailVars(Open)
    /\ WF_mailVars(\E m \in Messages : Step("worker", m) \/ SavingFails("worker", m))
    /\ \A m \in Messages \ Failing : SF_mailVars(Save("worker", m))
    /\ \A m \in Messages \ Stuck : SF_mailVars(Mark("worker", m))

MailSpec == MailInit /\ [][MailNext]_mailVars /\ MailFairness

-----------------------------------------------------------------------------
MailTypeOK ==
    /\ box \in BoxIds /\ on \in BOOLEAN /\ remembered \subseteq Messages /\ old \subseteq remembered
    /\ items \in [Messages -> 0..Many] /\ arrived \subseteq Messages /\ read \subseteq arrived
    /\ starting \in BOOLEAN /\ task \in {"none", "asleep", "looking", "checking"} /\ found \in BoxIds
    /\ check \in [Checkers -> Checks \cup {NoCheck}] /\ Held \subseteq arrived
    /\ unsure \subseteq Messages /\ unwatched \in BOOLEAN
    /\ events \in 0..MaxEvents /\ errors \in 0..MaxErrors

\* A message becomes one item, also when its read flag is lost or can't be set
\* (mail.py:90), but for one that was saved and not remembered, or no longer: the
\* server stopped in between, its mailbox was removed, two checks saved it at once, it
\* has no Message-ID, or it was still unread, or unread again, once 180 days had passed.
OnceOnly == \A m \in Messages : items[m] > 1 => m \in unsure

\* What is marked read was saved, or never could be: no failure, stop or second check
\* makes a message pass for done ("left unread, so the next check tries it again").
NothingIsLost == \A m \in read : items[m] > 0 \/ m \in Unwanted

Crowded(m) == Cardinality({k \in Stuck : k < m}) >= PerCheck

\* While a mailbox is connected, everything in it is saved in the end, also behind
\* messages that stay unread for ever, as long as these don't fill a check, which is
\* of the oldest; and unless the loop ended: on an error, or while the mailbox was
\* being connected.
EveryMessageIsSaved ==
    \A m \in Messages \ (Unwanted \cup Failing) :
        m \in arrived /\ ~Crowded(m) ~> items[m] > 0 \/ ~Connected \/ unwatched

-----------------------------------------------------------------------------
(* What the code's steps do not keep, though one may expect it or a comment says it *)

\* As EveryMessageIsSaved, also where the messages that stay unread fill a check
NoneIsKeptBack ==
    \A m \in Messages \ (Unwanted \cup Failing) : m \in arrived ~> items[m] > 0 \/ ~Connected \/ unwatched

\* "Connecting one starts it again" (mail.py:154)
ConnectingStarts == Connected ~> task # "none" \/ ~Connected
=============================================================================
