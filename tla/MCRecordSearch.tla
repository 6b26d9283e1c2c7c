--------------------------- MODULE MCRecordSearch ---------------------------
(***************************************************************************)
(* Small data files for the binary search: up to MCLines lines of up to    *)
(* MCWidth bytes, records with even OIDs, looked up by every OID around.   *)
(***************************************************************************)
EXTENDS RecordSearch, Sequences, FiniteSetsExt, SequencesExt

CONSTANTS MCLines, MCWidth

\* A text: the length of each line, and whether it is a record.
Texts == SeqOf([len : 1..MCWidth, rec : BOOLEAN], MCLines)

\* The file a text makes.
At(t, i) == FoldLeft(LAMBDA acc, l : acc + l.len, 0, SubSeq(t, 1, i - 1))

FileOf(t) ==
    LET size == At(t, Len(t) + 1)
        starts == {At(t, i) : i \in 1..Len(t)} \cup {0, size}
        recs == {At(t, i) : i \in {j \in 1..Len(t) : t[j].rec}}
        above(x, S) == {y \in S : y > x}
    IN  [size  |-> size,
         start |-> [x \in 0..size |-> Max({s \in starts : s <= x})],
         first |-> [x \in 0..size |-> Min({r \in recs : r >= x} \cup {size})],
         oid   |-> [r \in recs |-> 2 * Cardinality({s \in recs : s <= r})],
         end   |-> [r \in recs |-> Min(above(r, starts))]]

AllFiles == {FileOf(t) : t \in Texts}

MCOids == 1..(2 * MCLines + 1)
=============================================================================
