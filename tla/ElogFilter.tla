----------------------------- MODULE ElogFilter -----------------------------
(***************************************************************************)
(* elog.c: the table of filter levels per tag.                             *)
(*                                                                         *)
(* A slot is in use when its tag_use_flag is set; a free slot has an empty *)
(* tag.  Tags stand for what strncmp compares, the first                   *)
(* ELOG_FILTER_TAG_MAX_LEN characters.  A log passes when its level is at  *)
(* most the tag's: 0 is ASSERT, Lowest is VERBOSE, the level of a tag that *)
(* is not in the table.                                                    *)
(***************************************************************************)
EXTENDS Naturals, FiniteSets

CONSTANTS
    Tags,
    NoTag,      \* the tag of a free slot
    Slots,      \* ELOG_FILTER_TAG_LVL_MAX_NUM
    Lowest      \* ELOG_LVL_VERBOSE, ELOG_FILTER_LVL_ALL

ASSUME FilterAssumption == NoTag \notin Tags /\ Slots \in Nat /\ Lowest \in Nat

VARIABLE table      \* elog.filter.tag_lvl

Levels == 0 .. Lowest
FreeSlot == [tag |-> NoTag, level |-> 0]
Slot == [tag : Tags \cup {NoTag}, level : Levels]
EmptyTable == [i \in 1 .. Slots |-> FreeSlot]

TableInit == table = EmptyTable

\* The first slot with this tag; the loops of the code run upwards.
FirstWith(i, t) == table[i].tag = t /\ \A j \in 1 .. i - 1 : table[j].tag # t
InTable(t) == \E i \in 1 .. Slots : table[i].tag = t

\* Mutant: the search ends at the first free slot.
TagLevelToHole(t) ==
    LET found == {i \in 1 .. Slots : FirstWith(i, t) /\ \A j \in 1 .. i : table[j].tag # NoTag}
    IN IF found = {} THEN Lowest ELSE table[CHOOSE i \in found : TRUE].level

\* elog_get_filter_tag_lvl
TagLevel(t) ==
    IF InTable(t) THEN table[CHOOSE i \in 1 .. Slots : FirstWith(i, t)].level ELSE Lowest

\* A tag that is in the table has its level changed, or its slot freed.
ChangeLevel(t, l) ==
    \E i \in 1 .. Slots :
        /\ FirstWith(i, t)
        /\ table' = [table EXCEPT ![i] =
                        IF l = Lowest THEN FreeSlot ELSE [tag |-> t, level |-> l]]

\* A new tag takes the first free slot, if there is one.
AddLevel(t, l) ==
    /\ l # Lowest
    /\ \E i \in 1 .. Slots :
        /\ FirstWith(i, NoTag)
        /\ table' = [table EXCEPT ![i] = [tag |-> t, level |-> l]]

\* Nothing to remove, or no room: the caller is not told.
LevelIgnored(t, l) ==
    /\ ~InTable(t) /\ (l = Lowest \/ ~InTable(NoTag))
    /\ UNCHANGED table

\* elog_set_filter_tag_lvl, under the output lock
SetFilterTagLvl(t, l) ==
    \/ ChangeLevel(t, l)
    \/ ~InTable(t) /\ AddLevel(t, l)
    \/ LevelIgnored(t, l)

\* No tag is in two slots, and every slot in use restricts its tag: a slot is free
\* whenever fewer tags are restricted than there are slots.
TableOK ==
    /\ table \in [1 .. Slots -> Slot]
    /\ \A i, j \in 1 .. Slots :
         table[i].tag = table[j].tag /\ table[i].tag # NoTag => i = j
    /\ \A i \in 1 .. Slots : table[i].tag # NoTag => table[i].level # Lowest

\* The table read as what it promises.
answers == [t \in Tags |-> TagLevel(t)]
Promised == INSTANCE TagLevels WITH Capacity <- Slots, level <- answers

\* However tags come and go in whatever slots, setting one tag's level changes
\* what the table answers for that tag alone, to the level set, and no tag beyond
\* the capacity is let in.
ImplementsTagLevels == Promised!Spec
=============================================================================
