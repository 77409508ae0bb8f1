----------------------------- MODULE Collection -----------------------------
(***************************************************************************)
(* core/collection.h: a vector of data and a map of tags to positions in   *)
(* it.  Positions count from 0, as in the code.                            *)
(***************************************************************************)
EXTENDS Integers, Sequences, SequencesExt, FiniteSets

\* What a read past the end of the vector yields: no datum that was put there.
Undefined == -1

EmptyCollection == [tag_map |-> <<>>, data_types |-> <<>>]

Tags(c)        == DOMAIN c.tag_map
HasTag(c, tag) == tag \in Tags(c)

\* Mutant: the position is the size after the addition.
AfterAddTagPastEnd(c, tag, d) ==
    [tag_map    |-> [t \in Tags(c) \union {tag} |->
                        IF t = tag THEN Len(c.data_types) + 1 ELSE c.tag_map[t]],
     data_types |-> Append(c.data_types, d)]

\* AddTag for a tag that is not there; the position is the id AddData hands out.
AfterAddTag(c, tag, d) ==
    [tag_map    |-> [t \in Tags(c) \union {tag} |->
                        IF t = tag THEN Len(c.data_types) ELSE c.tag_map[t]],
     data_types |-> Append(c.data_types, d)]

\* vector::erase needs an element at the position.
RemovesInside(c, tag) == c.tag_map[tag] < Len(c.data_types)

\* RemoveTag: the element goes, the positions of the other tags stay.
AfterRemoveTag(c, tag) ==
    [tag_map    |-> [t \in Tags(c) \ {tag} |-> c.tag_map[t]],
     data_types |-> RemoveAt(c.data_types, c.tag_map[tag] + 1)]

GetAt(c, index) ==
    IF index < Len(c.data_types) THEN c.data_types[index + 1] ELSE Undefined

Get(c, tag) == GetAt(c, c.tag_map[tag])

\* What SIMPLE_ASSERT in GetNumEntries demands.
CountsAgree(c) == Len(c.data_types) = Cardinality(Tags(c))
=============================================================================
