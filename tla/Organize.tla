------------------------------ MODULE Organize ------------------------------
(***************************************************************************)
(* How a stash is kept in order: tags, folders, smart lists, and the rules *)
(* that sort what is saved, on each new item and on everything             *)
(* (app/db/repositories/stash_rules.py, stash_folders.py, smart_lists.py,  *)
(* the tags of items.py, app/feeds/to_stash.py, app/services/stash.py).    *)
(*                                                                         *)
(* A request reads without a lock until its first write, and is alone from *)
(* then on.  That matters where it is long, or remembers what it read: the *)
(* rules over everything, saving an article, editing a smart list.  Other  *)
(* requests are one step.  What a rule looks for is abstracted to the link *)
(* of an item; "reviewed" is treated the way "archived" is, and left out.  *)
(***************************************************************************)
EXTENDS Integers, FiniteSets, FiniteSetsExt

CONSTANTS Links,       \* addresses of items
          Tags,
          MaxId,       \* item ids are 1..MaxId
          MaxFolder,   \* folder ids are 1..MaxFolder
          MaxRule,     \* rule ids are 1..MaxRule
          RulesBatch,  \* RULES_BATCH
          Requests,    \* requests that save an article and are under way
          RuleInputs,  \* the rules that the user may make
          ListInputs,  \* and the smart lists
          MaxEdits,    \* bound: what the user does besides saving articles
          MaxRuns,     \* bound: times the rules are run on everything
          None

ASSUME OrganizeParameters ==
    /\ MaxId \in Nat \ {0} /\ MaxFolder \in Nat /\ MaxRule \in Nat /\ RulesBatch \in Nat \ {0}
    /\ MaxEdits \in Nat /\ MaxRuns \in Nat

Ids == 1..MaxId
Folders == 1..MaxFolder
Items == [link : Links, tags : SUBSET Tags, folder : Folders \cup {None}, archived : BOOLEAN]
Rules == [link : Links, tag : Tags \cup {None}, folder : Folders \cup {None}, archive : BOOLEAN]
Lists == [words : BOOLEAN, tag : Tags \cup {None}, folder : Folders \cup {None}]

ASSUME Inputs == RuleInputs \subseteq Rules /\ ListInputs \subseteq Lists

ASSUME Distinct == None \notin Links \cup Tags \cup Folders \cup Items \cup Rules \cup Lists

VARIABLES
    item,     \* the stash, None where there is no item
    folders,  \* the stash_folders there are
    rules,    \* the stash_rules; they run in the order of their ids
    list,     \* a smart list, or None
    change,   \* what a request is about to write to it, or None
    run,      \* the rules over everything: where it is, ids to go, the batch, its rules, an item as read
    saves,    \* articles being saved that find_link did not find: request and link
    crossed,  \* history: the item read was changed before it is written
    touched,  \* history: items changed by others since the run began
    begun,    \* history: items the run began with
    reruled,  \* history: the rules changed since
    twice,    \* history: links that may be saved twice, see SavedOnce
    hollowed, \* history: rules that a deleted folder left with nothing to do
    kind,     \* the kind of request that may be under way: "run", "save", "list"
    edits, runs

stash == <<item, folders, rules, list>>
history == <<crossed, touched, begun, reruled, twice, hollowed>>
bounds == <<kind, edits, runs>>
organizeVars == <<item, folders, rules, list, change, run, saves, crossed, touched, begun, reruled, twice,
          hollowed, kind, edits, runs>>

Present == {i \in Ids : item[i] # None}
RuleIds == {k \in 1..MaxRule : rules[k] # None}
Idle == [at |-> "no", todo |-> {}, batch |-> {}, rules |-> [k \in 1..MaxRule |-> None], read |-> None]
UsedTags == UNION {item[i].tags : i \in Present}

\* A new row gets the largest id and one
NextOf(S) == 1 + Max(S \cup {0})

DoesSomething(r) == r.tag # None \/ r.folder # None \/ r.archive
LooksForSomething(l) == l.words \/ l.tag # None \/ l.folder # None

-----------------------------------------------------------------------------
(* Rules                                                                   *)

Matching(rs, x) == {k \in DOMAIN rs : rs[k] # None /\ rs[k].link = x.link}

\* The folder of the first rule that has one
FolderOfRule(rs, x) ==
    LET K == {k \in Matching(rs, x) : rs[k].folder # None}
    IN IF K = {} THEN x.folder ELSE rs[Min(K)].folder

\* The first rule to choose a folder wins, for an item in none
FolderFor(rs, x) == IF x.folder # None THEN x.folder ELSE FolderOfRule(rs, x)

\* What `apply` makes of an item
Applied(rs, x) ==
    LET K == Matching(rs, x) IN
    [x EXCEPT !.tags = @ \cup ({rs[k].tag : k \in K} \ {None}),
              !.folder = FolderFor(rs, x),
              !.archived = @ \/ \E k \in K : rs[k].archive]

\* update: only what changed since the item was read, the tags as a whole
Updated(x, was, now) ==
    [x EXCEPT !.tags = IF now.tags # was.tags THEN now.tags ELSE @,
              !.folder = IF now.folder # was.folder THEN now.folder ELSE @,
              !.archived = IF now.archived # was.archived THEN now.archived ELSE @]

\* _check_folder, when the folder is among the changes
FolderIsThere(was, now) == now.folder \in folders \cup {None, was.folder}

-----------------------------------------------------------------------------
(* apply_rules_to_everything                                               *)

Unarchived == {i \in Present : ~item[i].archived}

RunBegins ==
    /\ run.at = "no"
    /\ runs < MaxRuns /\ runs' = runs + 1
    /\ run' = [Idle EXCEPT !.at = "batch", !.todo = Unarchived]
    /\ begun' = Unarchived /\ touched' = {} /\ reruled' = FALSE
    /\ UNCHANGED <<stash, change, saves, crossed, twice, hollowed, kind, edits>>

\* Ids are gone through in their order
Rank(i, ids) == Cardinality({k \in ids : k < i})

\* Slip: the last of each batch is left out
ShortBatch(ids) == {i \in ids : Rank(i, ids) < RulesBatch - 1}

BatchOf(ids) == {i \in ids : Rank(i, ids) < RulesBatch}
Later(ids) == {i \in ids : ~(Rank(i, ids) < RulesBatch)}

RunReadsRules ==
    /\ run.at = "batch" /\ run.todo # {}
    /\ run' = [run EXCEPT !.at = "item", !.rules = rules, !.batch = BatchOf(run.todo),
                          !.todo = Later(run.todo)]
    /\ UNCHANGED <<stash, change, saves, history, bounds>>

NextItem == Min(run.batch)

\* An item that needs no change, or was deleted, is passed over without a lock
RunReadsItem ==
    /\ run.at = "item" /\ run.batch # {}
    /\ LET x == item[NextItem] IN
       run' = IF x = None \/ Applied(run.rules, x) = x THEN [run EXCEPT !.batch = @ \ {NextItem}]
              ELSE [run EXCEPT !.at = "write", !.read = x]
    /\ crossed' = FALSE
    /\ UNCHANGED <<stash, change, saves, touched, begun, reruled, twice, hollowed, bounds>>

Sorted(i) ==
    LET x == item[i] IN
    IF x # None /\ FolderIsThere(x, Applied(run.rules, x)) THEN Applied(run.rules, x) ELSE x

\* The first item of a batch to change; the rest is read and written under its lock.
\* NotFound, of the item or of its new folder, is passed over.
RunWrites ==
    LET i == NextItem
        now == Applied(run.rules, run.read)
        rest == run.batch \ {NextItem}
    IN
    /\ run.at = "write"
    /\ IF item[i] # None /\ FolderIsThere(run.read, now)
       THEN /\ item' = [k \in Ids |-> IF k = i THEN Updated(item[i], run.read, now)
                                      ELSE IF k \in rest THEN Sorted(k) ELSE item[k]]
            /\ run' = [run EXCEPT !.at = "item", !.batch = {}, !.read = None]
       ELSE /\ run' = [run EXCEPT !.at = "item", !.batch = rest, !.read = None]
            /\ UNCHANGED item
    /\ UNCHANGED <<folders, rules, list, change, saves, history, bounds>>

RunGoesOn ==
    /\ run.at = "item" /\ run.batch = {}
    /\ run' = [run EXCEPT !.at = "batch"]
    /\ UNCHANGED <<stash, change, saves, history, bounds>>

RunEnds ==
    /\ run.at = "batch" /\ run.todo = {}
    /\ run' = Idle /\ begun' = {} /\ touched' = {} /\ reruled' = FALSE
    /\ UNCHANGED <<stash, change, saves, crossed, twice, hollowed, bounds>>

-----------------------------------------------------------------------------
(* What others do is noted while the rules run                             *)

Noted ==
    LET C == {i \in Ids : item'[i] # item[i]} IN
    /\ touched' = IF run.at = "no" THEN touched ELSE touched \cup C
    /\ crossed' = (crossed \/ (run.at = "write" /\ NextItem \in C))
    /\ reruled' = IF run.at = "no" THEN reruled ELSE reruled \/ rules' # rules
    /\ UNCHANGED <<begun, kind, runs>>

\* items_repo.create, and the rules on what it created
Create(x) ==
    /\ NextOf(Present) \in Ids
    /\ item' = [item EXCEPT ![NextOf(Present)] = Applied(rules, x)]
    /\ UNCHANGED <<folders, rules, list>>

\* Slip: archived items are looked through, others are not
FoundArchived(l) == \E i \in Present : item[i].link = l /\ item[i].archived

\* find_link
Found(l) == \E i \in Present : item[i].link = l /\ ~item[i].archived

Plain(l) == [link |-> l, tags |-> {}, folder |-> None, archived |-> FALSE]

\* stash_article from the list or an app: what is there already is given back
SaveLooks(q, l) ==
    /\ \A s \in saves : s.by # q
    /\ saves' = IF Found(l) THEN saves ELSE saves \cup {[by |-> q, link |-> l]}
    /\ twice' = IF \E s \in saves : s.link = l THEN twice \cup {l} ELSE twice
    /\ UNCHANGED <<stash, change, run, crossed, touched, begun, reruled, hollowed, bounds>>

SaveCreates(s) ==
    /\ s \in saves
    /\ Create(Plain(s.link))
    /\ saves' = saves \ {s}
    /\ Noted /\ UNCHANGED <<change, run, twice, hollowed, edits>>

\* _auto_stash: a feed's new article, which is stored under a lock
AutoStash(l) ==
    /\ ~Found(l)
    /\ Create(Plain(l))
    /\ twice' = IF \E s \in saves : s.link = l THEN twice \cup {l} ELSE twice
    /\ Noted /\ UNCHANGED <<change, run, saves, hollowed, edits>>

-----------------------------------------------------------------------------
(* The user                                                                *)

Edit == edits < MaxEdits /\ edits' = edits + 1 /\ Noted /\ UNCHANGED <<run, saves>>

\* POST /api/items: saved whether the link is there or not
Capture(l) ==
    /\ Create(Plain(l))
    /\ twice' = twice \cup {l}
    /\ UNCHANGED <<change, hollowed>> /\ Edit

\* PATCH /api/items/{id}, of one thing at a time
Versions(i) ==
    {[item[i] EXCEPT !.tags = T] : T \in SUBSET Tags} \cup {[item[i] EXCEPT !.folder = f] : f \in folders \cup {None}}
        \cup {[item[i] EXCEPT !.archived = ~@]}

Update(i, x) ==
    /\ x # item[i]
    /\ item' = [item EXCEPT ![i] = x]
    /\ twice' = IF item[i].archived /\ ~x.archived THEN twice \cup {x.link} ELSE twice
    /\ UNCHANGED <<folders, rules, list, change, hollowed>> /\ Edit

Delete(i) ==
    /\ i \in Present
    /\ item' = [item EXCEPT ![i] = None]
    /\ UNCHANGED <<folders, rules, list, change, twice, hollowed>> /\ Edit

NewFolder ==
    /\ NextOf(folders) \in Folders
    /\ folders' = folders \cup {NextOf(folders)}
    /\ UNCHANGED <<item, rules, list, change, twice, hollowed>> /\ Edit

\* ON DELETE SET NULL for items and rules, CASCADE for smart lists
DeleteFolder(f) ==
    /\ f \in folders
    /\ folders' = folders \ {f}
    /\ item' = [i \in Ids |-> IF i \in Present /\ item[i].folder = f THEN [item[i] EXCEPT !.folder = None] ELSE item[i]]
    /\ rules' = [k \in DOMAIN rules |-> IF k \in RuleIds /\ rules[k].folder = f THEN [rules[k] EXCEPT !.folder = None] ELSE rules[k]]
    /\ list' = IF list # None /\ list.folder = f THEN None ELSE list
    /\ hollowed' = hollowed \cup {k \in RuleIds : rules[k].folder = f /\ ~DoesSomething([rules[k] EXCEPT !.folder = None])}
    /\ UNCHANGED <<change, twice>> /\ Edit

\* stash_rules.create, after the others
NewRule(r) ==
    /\ DoesSomething(r) /\ r.folder \in folders \cup {None}
    /\ NextOf(RuleIds) <= MaxRule
    /\ rules' = [rules EXCEPT ![NextOf(RuleIds)] = r]
    /\ hollowed' = hollowed \ {NextOf(RuleIds)}
    /\ UNCHANGED <<item, folders, list, change, twice>> /\ Edit

DeleteRule(k) ==
    /\ k \in RuleIds
    /\ rules' = [rules EXCEPT ![k] = None]
    /\ UNCHANGED <<item, folders, list, change, twice, hollowed>> /\ Edit

Instead(t, old, new) == IF t = old THEN new ELSE t

\* rename_tag; merge_tags is one after the other in one transaction
RenameTag(old, new) ==
    /\ old \in UsedTags /\ new # old
    /\ item' = [i \in Ids |-> IF i \in Present THEN [item[i] EXCEPT !.tags = {Instead(t, old, new) : t \in @}] ELSE None]
    /\ list' = IF list = None THEN None ELSE [list EXCEPT !.tag = Instead(@, old, new)]
    /\ rules' = [k \in DOMAIN rules |-> IF k \in RuleIds THEN [rules[k] EXCEPT !.tag = Instead(@, old, new)] ELSE None]
    /\ UNCHANGED <<folders, change, twice, hollowed>> /\ Edit

\* Slip: the rule just stops using the tag
StopsUsing(k, t) == IF k \in RuleIds THEN [rules[k] EXCEPT !.tag = Instead(@, t, None)] ELSE None

\* A rule, or a list, that has nothing but the tag goes with it
RuleWithout(k, t) ==
    LET r == [rules[k] EXCEPT !.tag = Instead(@, t, None)]
    IN IF k \in RuleIds /\ DoesSomething(r) THEN r
       ELSE IF k \in hollowed THEN rules[k] ELSE None

ListWithout(t) ==
    LET l == [list EXCEPT !.tag = Instead(@, t, None)]
    IN IF list # None /\ LooksForSomething(l) THEN l ELSE None

\* delete_tags
DeleteTag(t) ==
    /\ t \in UsedTags
    /\ item' = [i \in Ids |-> IF i \in Present THEN [item[i] EXCEPT !.tags = @ \ {t}] ELSE None]
    /\ list' = ListWithout(t)
    /\ rules' = [k \in DOMAIN rules |-> RuleWithout(k, t)]
    /\ UNCHANGED <<folders, change, twice, hollowed>> /\ Edit

NewList(l) ==
    /\ list = None
    /\ LooksForSomething(l) /\ l.folder \in folders \cup {None}
    /\ list' = l
    /\ UNCHANGED <<item, folders, rules, change, twice, hollowed>> /\ Edit

DeleteList ==
    /\ list # None
    /\ list' = None
    /\ UNCHANGED <<item, folders, rules, change, twice, hollowed>> /\ Edit

\* smart_lists.update: all filters are written as they were read, with what is passed
ListChange(l) ==
    /\ list # None /\ change = None
    /\ LooksForSomething(l) /\ l.folder \in folders \cup {None}
    /\ change' = l
    /\ UNCHANGED <<stash, twice, hollowed>> /\ Edit

\* Of a list that is gone nothing is written; a folder that is gone is refused
ListWritten ==
    /\ change # None
    /\ list' = IF list = None \/ change.folder \notin folders \cup {None} THEN list ELSE change
    /\ change' = None
    /\ UNCHANGED <<item, folders, rules, run, saves, history, bounds>>

\* The server stops: what was under way is gone, and batches that are done stay
Restart ==
    /\ run.at # "no" \/ saves # {} \/ change # None
    /\ edits < MaxEdits /\ edits' = edits + 1
    /\ run' = Idle /\ begun' = {} /\ touched' = {} /\ reruled' = FALSE
    /\ saves' = {} /\ change' = None
    /\ UNCHANGED <<stash, crossed, twice, hollowed, kind, runs>>

-----------------------------------------------------------------------------
\* Any stash of items saved once each, in no folder yet, with one rule and a smart list
OrganizeInit ==
    /\ item \in {t \in [Ids -> {Plain(l) : l \in Links} \cup {None}] : \A i, j \in Ids : i # j /\ t[i] # None => t[i] # t[j]}
    /\ folders = Folders \ {MaxFolder}
    /\ \E r \in {r \in RuleInputs : DoesSomething(r) /\ r.folder \in folders \cup {None}} :
        rules = [k \in 1..MaxRule |-> IF k = 1 THEN r ELSE None]
    /\ kind \in {"run", "save", "list"}
    /\ list \in (IF kind = "list" THEN {l \in ListInputs : LooksForSomething(l) /\ l.folder \in folders \cup {None}} ELSE {None})
    /\ change = None /\ run = Idle /\ saves = {}
    /\ crossed = FALSE /\ touched = {} /\ begun = {} /\ reruled = FALSE
    /\ twice = {} /\ hollowed = {}
    /\ edits = 0 /\ runs = 0

Run == RunBegins \/ RunReadsRules \/ RunReadsItem \/ RunWrites \/ RunGoesOn \/ RunEnds

Saves ==
    \/ \E l \in Links : AutoStash(l)
    \/ kind = "save" /\ \E q \in Requests, l \in Links : SaveLooks(q, l)
    \/ \E s \in saves : SaveCreates(s)

User ==
    \/ \E l \in Links : Capture(l)
    \/ \E i \in Present : Delete(i) \/ \E x \in Versions(i) : Update(i, x)
    \/ NewFolder \/ \E f \in Folders : DeleteFolder(f)
    \/ \E r \in RuleInputs : NewRule(r)
    \/ \E k \in 1..MaxRule : DeleteRule(k)
    \/ \E t \in Tags : DeleteTag(t) \/ \E old \in Tags : RenameTag(old, t)
    \/ kind = "list" /\ (DeleteList \/ \E l \in ListInputs : NewList(l) \/ ListChange(l))

\* The lists change nothing else, and for a run it is the same how an item came to be, so
\* that one kind at a time is enough
OrganizeNext ==
    \/ kind = "run" /\ Run
    \/ Saves \/ User \/ ListWritten \/ Restart

OrganizeSpec == OrganizeInit /\ [][OrganizeNext]_organizeVars

-----------------------------------------------------------------------------
OrganizeTypeOK ==
    /\ item \in [Ids -> Items \cup {None}]
    /\ folders \subseteq Folders
    /\ rules \in [1..MaxRule -> Rules \cup {None}]
    /\ list \in Lists \cup {None} /\ change \in Lists \cup {None}
    /\ run.at \in {"no", "batch", "item", "write"}
    /\ saves \subseteq [by : Requests, link : Links]
    /\ \A i \in Present : item[i].folder \in folders \cup {None}
    /\ crossed \in BOOLEAN /\ reruled \in BOOLEAN /\ touched \subseteq Ids /\ begun \subseteq Ids
    /\ twice \subseteq Links /\ hollowed \subseteq 1..MaxRule
    /\ kind \in {"run", "save", "list"} /\ edits \in 0..MaxEdits /\ runs \in 0..MaxRuns

\* Rules take nothing away: no tag, no folder, and nothing out of the archive ("Only
\* adds", stash_rules.py:121), whatever the user does to the items of a batch meanwhile,
\* but for an item that changes between being read and the batch's first write.
RulesOnlyAdd ==
    [][RunWrites =>
         \A i \in Present :
            \/ crossed /\ i = NextItem
            \/ /\ item[i].tags \subseteq item'[i].tags
               /\ item[i].folder \in {None, item'[i].folder}
               /\ item[i].archived => item'[i].archived]_organizeVars

\* When the rules have been run on everything, they have nothing left to do: on every
\* item there was when the run began and that nobody else changed, if the rules are the
\* same, whatever batches and deleted items came in between.
RunReachesAll ==
    [][RunEnds => reruled \/ \A i \in begun \ touched : i \in Present /\ Applied(rules, item[i]) = item[i]]_organizeVars

\* "An article whose link is already saved isn't saved twice" (to_stash.py:14), by
\* hand or from its feed: but when two requests are saving it at once, or
\* when the user saved the link by other means or took it out of the archive.
SavedOnce ==
    \A i, j \in Present :
        i # j /\ item[i].link = item[j].link /\ ~item[i].archived /\ ~item[j].archived => item[i].link \in twice

\* No rule is left doing nothing and no smart list looking for nothing, which "would
\* show everything" (items.py:299), whatever tags and folders go while one is edited,
\* but for rules whose folder was deleted.
NothingIsHollow ==
    /\ \A k \in RuleIds \ hollowed : DoesSomething(rules[k])
    /\ list # None => LooksForSomething(list)

-----------------------------------------------------------------------------
(* What the documentation says and the code does not keep                  *)

\* stash_rules.py:121, "Only adds: tags are added, a folder is chosen only for an item in
\* none".
RulesOnlyEverAdd ==
    [][RunWrites => \A i \in Present : item[i].tags \subseteq item'[i].tags]_organizeVars
=============================================================================
