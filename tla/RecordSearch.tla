---------------------------- MODULE RecordSearch ----------------------------
(***************************************************************************)
(* The in-place binary search over a data file                             *)
(* (snmpsim/record/search/file.py).  A data file is a text file: lines of  *)
(* any length, each a record with an OID or a comment or blank line, the   *)
(* records in ascending OID order.  search_record_by_oid bisects the file  *)
(* by byte offsets, steps back to the beginning of the line it landed in   *)
(* (find_eol, which reads backwards block by block) and skips the comments *)
(* that precede a record (get_record).                                     *)
(***************************************************************************)
EXTENDS Integers

CONSTANTS
    Files,      \* the data files searched, each a value of the form below
    Oids,       \* the OIDs looked for, numbered in lexicographic order
    BlockSize   \* block_size of find_eol

(***************************************************************************)
(* A file f is                                                             *)
(*   f.size      its length in bytes,                                      *)
(*   f.start[x]  the offset of the line that contains byte x,              *)
(*   f.first[x]  the offset of the first record line that starts at x or   *)
(*               later, f.size when there is none,                         *)
(*   f.oid[r]    the OID of the record line at offset r, and               *)
(*   f.end[r]    the offset of the line that follows it.                   *)
(***************************************************************************)
Records(f) == DOMAIN f.oid

LineStarts(f) == {x \in 0..f.size : f.start[x] = x} \cup {f.size}

\* The shape of a file: the functions above agree with each other ...
WellShaped(f) ==
    /\ f.size \in Nat
    /\ f.start \in [0..f.size -> 0..f.size]
    /\ f.first \in [0..f.size -> 0..f.size]
    /\ Records(f) \subseteq 0..f.size
    /\ f.oid \in [Records(f) -> Int]
    /\ f.end \in [Records(f) -> 0..f.size]

\* ... `start' finds the beginning of a line ...
LinesTile(f) ==
    /\ f.start[0] = 0
    /\ \A x \in 0..f.size : f.start[x] <= x /\ f.start[f.start[x]] = f.start[x]
    /\ \A x, y \in 0..f.size : x <= y => f.start[x] <= f.start[y]

\* ... `first' and `end' lead from record to record ...
RecordsChain(f) ==
    /\ \A x \in 0..f.size :
          /\ x <= f.first[x]
          /\ f.first[x] \in Records(f) \/ f.first[x] = f.size
          /\ \A r \in Records(f) : x <= r => f.first[x] <= r
    /\ \A r \in Records(f) :
          /\ r < f.end[r]
          /\ f.start[r] = r
          /\ f.end[r] \in LineStarts(f)
          /\ \A y \in LineStarts(f) : r < y => f.end[r] <= y

\* ... and the records are sorted by OID, as data files have to be.
Sorted(f) == \A r, s \in Records(f) : r < s => f.oid[r] < f.oid[s]

IsFile(f) == WellShaped(f) /\ LinesTile(f) /\ RecordsChain(f) /\ Sorted(f)

ASSUME SearchAssumption ==
    /\ \A f \in Files : IsFile(f)
    /\ Oids \subseteq Int
    /\ BlockSize \in Nat \ {0}

VARIABLES
    file,    \* the file being searched
    oid,     \* the OID searched for
    stage,   \* where the search is: "loop", "find_eol", "compare", "done"
    lo, hi, mid, prev_mid,   \* the local variables of search_record_by_oid
    offset, block_size,      \* the local variables of find_eol
    result   \* the offset returned

searchVars == <<file, oid, stage, lo, hi, mid, prev_mid, offset, block_size, result>>

SearchInit ==
    /\ file \in Files /\ oid \in Oids
    /\ stage = "loop"
    /\ lo = 0 /\ mid = 0 /\ prev_mid = -1 /\ hi = file.size
    /\ offset = 0 /\ block_size = BlockSize
    /\ result = -1

Return(r) == /\ result' = r
             /\ stage' = "done"
             /\ UNCHANGED <<file, oid, offset, block_size, lo, hi, mid, prev_mid>>

\* while lo < hi: take the byte in the middle and look for its line
Probe ==
    /\ stage = "loop" /\ lo < hi
    /\ offset' = (lo + hi) \div 2
    /\ mid' = offset'
    /\ block_size' = BlockSize
    /\ stage' = "find_eol"
    /\ UNCHANGED <<file, oid, lo, hi, prev_mid, result>>

\* where the search ends once the loop is left: at lo or at hi
Rest == IF lo = mid THEN lo ELSE hi

Exhausted == stage = "loop" /\ ~(lo < hi) /\ Return(Rest)

(***************************************************************************)
(* One round of find_eol.  The chunk read is the bytes from..offset-1; it   *)
(* holds an end of line exactly when the line at its end starts behind its  *)
(* first byte.                                                             *)
(***************************************************************************)
From == IF offset < block_size THEN 0 ELSE offset - block_size

\* Mutants of FindEol: a block too far back, and no step back at all.
FindEolSkipsByte ==
    /\ stage = "find_eol"
    /\ IF file.start[offset] > From \/ From = 0
       THEN /\ mid' = IF file.start[offset] > From THEN file.start[offset] ELSE 0
            /\ stage' = "compare"
            /\ UNCHANGED offset
       ELSE offset' = From - 1 /\ UNCHANGED <<mid, stage>>
    /\ UNCHANGED <<file, oid, lo, hi, prev_mid, block_size, result>>

FindEolStays ==
    /\ stage = "find_eol"
    /\ file.start[offset] > From \/ From = 0
    /\ mid' = IF file.start[offset] > From THEN file.start[offset] ELSE 0
    /\ stage' = "compare"
    /\ UNCHANGED <<file, oid, lo, hi, prev_mid, offset, block_size, result>>

FindEol ==
    /\ stage = "find_eol"
    /\ \/ /\ file.start[offset] > From
          /\ mid' = file.start[offset] /\ stage' = "compare"
          /\ UNCHANGED <<offset, block_size>>
       \/ /\ file.start[offset] <= From /\ From = 0
          /\ mid' = 0 /\ stage' = "compare"
          /\ UNCHANGED <<offset, block_size>>
       \/ /\ file.start[offset] <= From /\ From > 0
          /\ offset' = From
          /\ block_size' = IF offset < block_size THEN offset ELSE block_size
          /\ UNCHANGED <<mid, stage>>
    /\ UNCHANGED <<file, oid, lo, hi, prev_mid, result>>

\* get_record at the line found: the record there or behind the comments there
Found == file.first[mid]

AtRecord == stage = "compare" /\ mid # prev_mid /\ mid < file.size /\ Found # file.size

\* A mutant of Stop: the other end of the interval.
StopAtLo ==
    /\ stage = "compare" /\ ~AtRecord
    /\ Return(IF mid = prev_mid THEN Rest ELSE IF mid >= file.size THEN file.size ELSE lo)

\* The three ways out without a comparison: the pivot stepped back to the line
\* just compared, the pivot is at the end of the file, or only comments follow.
Stop ==
    /\ stage = "compare" /\ ~AtRecord
    /\ Return(IF mid = prev_mid THEN Rest ELSE IF mid >= file.size THEN file.size ELSE hi)

Below ==
    /\ AtRecord /\ file.oid[Found] < oid
    /\ lo' = file.end[Found]
    /\ prev_mid' = mid /\ stage' = "loop"
    /\ UNCHANGED <<file, oid, hi, mid, offset, block_size, result>>

\* A mutant of Above: it takes the record looked for as well.
AboveOrHit ==
    /\ AtRecord /\ file.oid[Found] >= oid
    /\ hi' = mid
    /\ prev_mid' = mid /\ stage' = "loop"
    /\ UNCHANGED <<file, oid, lo, mid, offset, block_size, result>>

Above ==
    /\ AtRecord /\ file.oid[Found] > oid
    /\ hi' = mid
    /\ prev_mid' = mid /\ stage' = "loop"
    /\ UNCHANGED <<file, oid, lo, mid, offset, block_size, result>>

Hit == AtRecord /\ file.oid[Found] = oid /\ Return(mid)

SearchNext == \/ Probe \/ Exhausted \/ FindEol
              \/ Stop \/ Below \/ Above \/ Hit

\* The search is a plain loop of a single thread: it takes its next step.
SearchSpec == SearchInit /\ [][SearchNext]_searchVars /\ WF_searchVars(SearchNext)

-----------------------------------------------------------------------------
\* The ranges of the variables.
SearchTypes ==
    /\ IsFile(file) /\ oid \in Oids
    /\ stage \in {"loop", "find_eol", "compare", "done"}
    /\ lo \in 0..file.size /\ hi \in 0..file.size /\ mid \in 0..file.size
    /\ prev_mid \in -1..file.size
    /\ offset \in 0..file.size /\ block_size \in Nat \ {0}
    /\ result \in -1..file.size

\* The interval under search never loses the record looked for: everything
\* before lo is smaller than the OID, everything from hi on is greater.
Bracket ==
    \A r \in Records(file) : /\ r < lo => file.oid[r] < oid
                             /\ hi <= r => file.oid[r] > oid

\* find_eol, however the line and the blocks lie, ends at the beginning of the
\* line that holds the byte probed, and the line lies in the interval.
AtLineStart ==
    stage = "compare" => /\ mid = file.start[(lo + hi) \div 2]
                         /\ lo <= mid /\ mid < hi

\* Comments or blank lines follow the last record.
TrailingComments(f) == \E x \in 0..f.size - 1 : f.first[x] = f.size

\* The offset returned splits the records into those below the OID searched
\* for and those at or above it.
Splits(r) == \A s \in Records(file) : s < r <=> file.oid[s] < oid

\* "search function above always rounds up to the next OID" (datafile.py:161):
\* it does, except that in a file that ends in comments or blank lines, which
\* CHANGES.rst:372 allows, it may return the end of the file (file.py:74).
RoundsUpOrEof ==
    stage = "done" => \/ Splits(result)
                      \/ TrailingComments(file) /\ result = file.size

\* Every comparison narrows the interval, and never compares the same line
\* again: the escapes for a pivot that stepped back or ran off the file are
\* never what ends the search.
Narrows ==
    [][/\ hi' - lo' <= hi - lo
       /\ stage = "compare" /\ stage' = "loop" => hi' - lo' < hi - lo
       /\ stage = "compare" => mid # prev_mid /\ mid < file.size]_searchVars

\* The search ends.
Terminates == <>(stage = "done")
=============================================================================
