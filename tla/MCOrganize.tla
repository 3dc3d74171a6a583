----------------------------- MODULE MCOrganize -----------------------------
(* Model values for Organize: rules that tag, file, do both and archive,   *)
(* and smart lists of a tag, a folder, both, or of words as well.          *)
EXTENDS Organize

Rule(l, t, f, a) == [link |-> l, tag |-> t, folder |-> f, archive |-> a]
ALink == CHOOSE l \in Links : TRUE
ATag == CHOOSE t \in Tags : TRUE

SomeRules == {Rule(ALink, ATag, None, FALSE), Rule(ALink, None, 1, FALSE), Rule(ALink, ATag, 2, TRUE)}
             \cup {Rule(l, ATag, 1, FALSE) : l \in Links}

List(w, t, f) == [words |-> w, tag |-> t, folder |-> f]
SomeLists == {List(FALSE, ATag, None), List(FALSE, None, 1), List(FALSE, ATag, 1), List(TRUE, ATag, None)}
=============================================================================
