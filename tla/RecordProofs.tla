---------------------------- MODULE RecordProofs ----------------------------
(***************************************************************************)
(* The two ways to a record (snmpsim/record/search).                       *)
(*                                                                         *)
(* For every data file, every OID and every block size, the binary search  *)
(* returns the offset that splits the records at the OID, or the end of a  *)
(* file that ends in comments.                                             *)
(*                                                                         *)
(* Of the index, whatever edits there are: while no crash and no           *)
(* unreadable text cuts indexing short, it is stale only after an edit     *)
(* that the times do not tell of, until it is built again, and it keeps    *)
(* its promise; otherwise an index may lack entries, but none points into  *)
(* another text unless there was such an edit.  Both hold for any number   *)
(* of lines, versions, crashes and seconds.                                *)
(***************************************************************************)
EXTENDS RecordSearch, RecordIndex, TLAPS

\* The bounds are line starts, in order.
Bounds ==
    /\ lo \in LineStarts(file) /\ hi \in LineStarts(file)
    /\ lo <= hi

\* hi is the end of the file, or has a record behind it.
HiBeforeRecord == hi = file.size \/ file.first[hi] # file.size

\* The line compared last is outside of the interval, so it is not met again.
LeftBehind == prev_mid < lo \/ hi <= prev_mid

\* find_eol moves inside the line of the byte probed.
InLine ==
    stage = "find_eol" =>
        /\ lo < hi /\ offset <= (lo + hi) \div 2
        /\ file.start[offset] = file.start[(lo + hi) \div 2]

SearchInv == /\ SearchTypes /\ Bracket /\ Bounds /\ HiBeforeRecord
             /\ LeftBehind /\ InLine
             /\ stage = "compare" => lo < hi
             /\ AtLineStart /\ RoundsUpOrEof

-----------------------------------------------------------------------------
\* Facts about files that do not mention the search.

\* The line a byte of an interval of lines lies in starts in that interval.
LEMMA LineInside ==
    ASSUME NEW f, IsFile(f), NEW a \in LineStarts(f), NEW b \in LineStarts(f), a < b
    PROVE  LET m == (a + b) \div 2
           IN  /\ m \in 0..f.size /\ m < b
               /\ f.start[m] \in LineStarts(f) /\ f.start[m] \in 0..f.size
               /\ a <= f.start[m] /\ f.start[m] < b
<1> DEFINE m == (a + b) \div 2
<1> USE DEF IsFile, WellShaped, LinesTile, LineStarts
<1>1. f.size \in Nat /\ a \in 0..f.size /\ b \in 0..f.size OBVIOUS
<1>2. m \in Int /\ a <= m /\ m < b BY <1>1
<1>3. m \in 0..f.size BY <1>1, <1>2
<1>4. f.start[m] \in 0..f.size /\ f.start[m] <= m /\ f.start[f.start[m]] = f.start[m]
  BY <1>3
<1>5. f.start[a] = a BY <1>1, <1>2, a # f.size
<1>6. f.start[a] <= f.start[m] BY <1>1, <1>2, <1>3
<1> QED BY <1>1, <1>2, <1>3, <1>4, <1>5, <1>6

\* The record met at a line is the first of those from that line on.
LEMMA FirstRecord ==
    ASSUME NEW f, IsFile(f), NEW x \in 0..f.size, f.first[x] # f.size
    PROVE  /\ f.first[x] \in Records(f) /\ f.first[x] \in 0..f.size
           /\ x <= f.first[x]
           /\ f.oid[f.first[x]] \in Int
           /\ f.end[f.first[x]] \in 0..f.size
           /\ f.end[f.first[x]] \in LineStarts(f)
           /\ \A r \in Records(f) : x <= r => f.first[x] <= r
BY DEF IsFile, WellShaped, RecordsChain

-----------------------------------------------------------------------------
LEMMA SearchInitInv == SearchInit => SearchInv
<1> SUFFICES ASSUME SearchInit PROVE SearchInv OBVIOUS
<1>1. IsFile(file) /\ BlockSize \in Nat \ {0} BY SearchAssumption DEF SearchInit
<1>2. file.size \in Nat BY <1>1 DEF IsFile, WellShaped
<1>3. SearchTypes BY <1>1, <1>2 DEF SearchInit, SearchTypes
<1>4. Bracket
  <2> SUFFICES ASSUME NEW r \in Records(file)
               PROVE  ~(r < 0) /\ ~(file.size <= r)
      BY DEF SearchInit, Bracket
  <2> QED BY <1>1, <1>2 DEF IsFile, WellShaped, RecordsChain, LineStarts
<1>5. Bounds BY <1>1, <1>2 DEF SearchInit, Bounds, IsFile, LinesTile, LineStarts
<1> QED BY <1>3, <1>4, <1>5
        DEF SearchInit, SearchInv, HiBeforeRecord, LeftBehind, InLine, AtLineStart, RoundsUpOrEof

\* One comparison or one block at a time, the interval keeps the OID bracketed.
LEMMA SearchNextInv == SearchInv /\ [SearchNext]_searchVars => SearchInv'
<1> SUFFICES ASSUME SearchInv, [SearchNext]_searchVars PROVE SearchInv' OBVIOUS
<1> USE DEF SearchInv
<1>1. IsFile(file) /\ file.size \in Nat /\ BlockSize \in Nat \ {0}
  BY SearchAssumption DEF SearchTypes, IsFile, WellShaped
<1>2. CASE Probe
  <2> USE <1>2 DEF Probe
  <2>1. offset' \in 0..file.size BY <1>1, LineInside DEF Bounds
  <2>2. SearchTypes' BY <1>1, <2>1 DEF SearchTypes
  <2> QED BY <1>1, <2>1, <2>2
          DEF Bracket, Bounds, HiBeforeRecord, LeftBehind, InLine, AtLineStart,
              RoundsUpOrEof, SearchTypes
<1>3. CASE FindEol
  <2> USE <1>3 DEF FindEol, From
  <2> DEFINE m == (lo + hi) \div 2
             s == file.start[offset]
  <2>1. offset \in 0..file.size /\ block_size \in Nat \ {0}
    BY DEF SearchTypes
  <2>2. s \in 0..file.size /\ s <= offset /\ file.start[s] = s /\ file.start[0] = 0
    BY <1>1, <2>1 DEF IsFile, WellShaped, LinesTile
  <2>3. /\ s = file.start[m] /\ lo <= s /\ s < hi /\ offset <= m /\ lo < hi
        /\ m \in 0..file.size
    BY <1>1, LineInside DEF InLine, Bounds
  <2>4. From \in Nat /\ From <= offset BY <2>1
  <2>5. CASE s > From
    <3>1. mid' = s /\ stage' = "compare" /\ UNCHANGED <<offset, block_size>>
      BY <2>2, <2>4, <2>5
    <3> QED BY <2>1, <2>2, <2>3, <3>1
            DEF Bracket, Bounds, HiBeforeRecord, LeftBehind, InLine, AtLineStart,
                RoundsUpOrEof, SearchTypes
  <2>6. CASE s <= From /\ From = 0
    <3>1. mid' = s /\ stage' = "compare" /\ UNCHANGED <<offset, block_size>>
      BY <2>2, <2>4, <2>6
    <3> QED BY <2>1, <2>2, <2>3, <3>1
            DEF Bracket, Bounds, HiBeforeRecord, LeftBehind, InLine, AtLineStart,
                RoundsUpOrEof, SearchTypes
  <2>7. CASE s <= From /\ From > 0
    <3>1. /\ offset' = From /\ UNCHANGED <<mid, stage>>
          /\ block_size' \in Nat \ {0}
      BY <2>1, <2>2, <2>4, <2>7
    <3>2. From \in 0..file.size /\ From <= offset
      BY <1>1, <2>1
    <3>3. file.start[From] = s
      BY <1>1, <2>1, <2>2, <2>7, <3>2 DEF IsFile, WellShaped, LinesTile
    <3> QED BY <2>1, <2>2, <2>3, <3>1, <3>2, <3>3
            DEF Bracket, Bounds, HiBeforeRecord, LeftBehind, InLine, AtLineStart,
                RoundsUpOrEof, SearchTypes
  <2> QED BY <1>1, <2>1, <2>2, <2>4, <2>5, <2>6, <2>7
<1>4. CASE Exhausted
  <2> USE <1>4 DEF Exhausted, Return, Rest
  <2>1. lo = hi /\ result' = hi
    BY <1>1 DEF Bounds, LineStarts
  <2>2. Splits(hi) /\ hi \in 0..file.size
    <3>1. hi \in 0..file.size /\ oid \in Int BY SearchAssumption DEF SearchTypes
    <3>2. \A q \in Records(file) : q \in 0..file.size /\ file.oid[q] \in Int
      BY <1>1 DEF IsFile, WellShaped
    <3> QED BY <1>1, <2>1, <3>1, <3>2 DEF Bracket, Splits
  <2>3. RoundsUpOrEof' BY <2>1, <2>2 DEF RoundsUpOrEof, Splits
  <2> QED BY <2>1, <2>2, <2>3
          DEF Bracket, Bounds, HiBeforeRecord, LeftBehind, InLine, AtLineStart, SearchTypes
<1>5. CASE Stop
  <2> USE <1>5 DEF Stop, AtRecord, Found, Return
  <2>1. mid # prev_mid /\ mid < file.size /\ mid \in 0..file.size /\ lo < hi
    BY <1>1 DEF LeftBehind, AtLineStart, Bounds, LineStarts, SearchTypes
  <2>2. file.first[mid] = file.size /\ result' = hi BY <1>1, <2>1
  <2>3. hi = file.size
    <3>1. SUFFICES ASSUME hi < file.size PROVE FALSE
      BY <1>1 DEF SearchTypes
    <3>2. file.first[hi] # file.size /\ hi \in 0..file.size
      BY <1>1, <3>1 DEF HiBeforeRecord, SearchTypes
    <3>3. /\ file.first[hi] \in Records(file) /\ hi <= file.first[hi]
          /\ file.first[hi] \in 0..file.size
      BY <1>1, <3>2, FirstRecord
    <3>4. mid <= file.first[hi] BY <1>1, <2>1, <3>2, <3>3 DEF AtLineStart
    <3>5. file.first[mid] <= file.first[hi]
      BY <1>1, <2>1, <3>3, <3>4 DEF IsFile, RecordsChain
    <3> QED BY <1>1, <2>2, <3>2, <3>3, <3>5
  <2>4. TrailingComments(file) BY <1>1, <2>1, <2>2 DEF TrailingComments
  <2>5. RoundsUpOrEof' BY <2>2, <2>3, <2>4 DEF RoundsUpOrEof, TrailingComments
  <2> QED BY <1>1, <2>1, <2>2, <2>3, <2>5
          DEF Bracket, Bounds, HiBeforeRecord, LeftBehind, InLine, AtLineStart, SearchTypes
<1>6. CASE Below
  <2> USE <1>6 DEF Below, AtRecord, Found
  <2> DEFINE r == file.first[mid]
  <2>1. mid \in 0..file.size /\ lo <= mid /\ mid < hi /\ hi \in 0..file.size
    BY <1>1 DEF AtLineStart, SearchTypes
  <2>2. /\ r \in Records(file) /\ mid <= r /\ r \in 0..file.size
        /\ file.end[r] \in LineStarts(file) /\ file.end[r] \in 0..file.size
    BY <1>1, <2>1, FirstRecord
  <2>3. file.oid[r] \in Int /\ oid \in Int
    BY <1>1, <2>1, FirstRecord, SearchAssumption DEF SearchTypes
  <2>4. r < hi BY <1>1, <2>1, <2>2, <2>3 DEF Bracket
  <2>5. r < file.end[r] /\ file.end[r] <= hi
    BY <1>1, <2>1, <2>2, <2>4 DEF Bounds, IsFile, RecordsChain
  <2>6. Bracket'
    <3> SUFFICES ASSUME NEW q \in Records(file), q < file.end[r]
                 PROVE  file.oid[q] < oid
      BY DEF Bracket
    <3>1. q \in 0..file.size /\ file.oid[q] \in Int /\ file.start[q] = q
      BY <1>1 DEF IsFile, WellShaped, RecordsChain
    <3>2. q <= r
      BY <1>1, <2>2, <3>1 DEF IsFile, RecordsChain, LineStarts
    <3>3. q = r \/ file.oid[q] < file.oid[r]
      BY <1>1, <2>2, <3>1, <3>2 DEF IsFile, Sorted
    <3> QED BY <2>3, <3>1, <3>3
  <2> QED BY <1>1, <2>1, <2>2, <2>4, <2>5, <2>6
          DEF Bounds, HiBeforeRecord, LeftBehind, InLine, AtLineStart,
              RoundsUpOrEof, SearchTypes
<1>7. CASE Above
  <2> USE <1>7 DEF Above, AtRecord, Found
  <2> DEFINE r == file.first[mid]
  <2>1. mid \in 0..file.size /\ lo <= mid /\ mid < hi /\ lo \in 0..file.size
    BY <1>1 DEF AtLineStart, SearchTypes
  <2>2. /\ r \in Records(file) /\ \A q \in Records(file) : mid <= q => r <= q
        /\ r # file.size /\ r \in 0..file.size
    BY <1>1, <2>1, FirstRecord
  <2>3. file.oid[r] \in Int /\ oid \in Int
    BY <1>1, <2>1, FirstRecord, SearchAssumption DEF SearchTypes
  <2>4. mid \in LineStarts(file)
    BY <1>1, LineInside DEF AtLineStart, Bounds
  <2>5. Bracket'
    <3> SUFFICES ASSUME NEW q \in Records(file), mid <= q
                 PROVE  file.oid[q] > oid
      BY DEF Bracket
    <3>1. q \in 0..file.size /\ file.oid[q] \in Int
      BY <1>1 DEF IsFile, WellShaped
    <3>2. r = q \/ file.oid[r] < file.oid[q]
      BY <1>1, <2>2, <3>1 DEF IsFile, Sorted
    <3> QED BY <2>3, <3>1, <3>2
  <2> QED BY <1>1, <2>1, <2>2, <2>4, <2>5
          DEF Bounds, HiBeforeRecord, LeftBehind, InLine, AtLineStart,
              RoundsUpOrEof, SearchTypes
<1>8. CASE Hit
  <2> USE <1>8 DEF Hit, AtRecord, Found, Return
  <2> DEFINE r == file.first[mid]
  <2>1. mid \in 0..file.size BY DEF SearchTypes
  <2>2. /\ r \in Records(file) /\ r \in 0..file.size /\ mid <= r
        /\ \A q \in Records(file) : mid <= q => r <= q
    BY <1>1, <2>1, FirstRecord
  <2>3. Splits(mid)
    <3> SUFFICES ASSUME NEW q \in Records(file)
                 PROVE  q < mid <=> file.oid[q] < oid
      BY DEF Splits
    <3>1. q \in 0..file.size /\ file.oid[q] \in Int /\ oid \in Int
      BY <1>1, SearchAssumption DEF IsFile, WellShaped, SearchTypes
    <3>2. (q < r => file.oid[q] < file.oid[r]) /\ (r < q => file.oid[r] < file.oid[q])
      BY <1>1, <2>2 DEF IsFile, Sorted
    <3> QED BY <2>1, <2>2, <3>1, <3>2
  <2>4. RoundsUpOrEof' BY <2>3 DEF RoundsUpOrEof, Splits
  <2> QED BY <1>1, <2>1, <2>4
          DEF Bracket, Bounds, HiBeforeRecord, LeftBehind, InLine, AtLineStart, SearchTypes
<1>9. CASE UNCHANGED searchVars
  BY <1>9 DEF searchVars, SearchTypes, Bracket, Bounds, HiBeforeRecord, LeftBehind, InLine,
              AtLineStart, RoundsUpOrEof, Splits, TrailingComments
<1> QED BY <1>2, <1>3, <1>4, <1>5, <1>6, <1>7, <1>8, <1>9 DEF SearchNext

-----------------------------------------------------------------------------
\* The ranges of the variables hold in every state of every search.
THEOREM SearchTypeOK == SearchSpec => []SearchTypes
<1>1. SearchInv => SearchTypes BY DEF SearchInv
<1> QED BY SearchInitInv, SearchNextInv, <1>1, PTL DEF SearchSpec

\* The search never loses the record looked for (search_record_by_oid, lo and
\* hi): what is cut off below is smaller than the OID, above it is greater.
THEOREM SearchBrackets == SearchSpec => []Bracket
<1>1. SearchInv => Bracket BY DEF SearchInv
<1> QED BY SearchInitInv, SearchNextInv, <1>1, PTL DEF SearchSpec

\* find_eol stops at the beginning of the line probed, for any block size.
THEOREM FindEolExact == SearchSpec => []AtLineStart
<1>1. SearchInv => AtLineStart BY DEF SearchInv
<1> QED BY SearchInitInv, SearchNextInv, <1>1, PTL DEF SearchSpec

\* Every offset search_record_by_oid returns rounds up to the next OID, save
\* for the end of the file in a file that ends in comments.
THEOREM SearchRoundsUp == SearchSpec => []RoundsUpOrEof
<1>1. SearchInv => RoundsUpOrEof BY DEF SearchInv
<1> QED BY SearchInitInv, SearchNextInv, <1>1, PTL DEF SearchSpec

\* Every comparison narrows the interval, and the escapes of the loop for a
\* pivot that stepped back or ran off the file are never taken.
THEOREM SearchNarrows == SearchSpec => Narrows
<1>1. SearchInv /\ [SearchNext]_searchVars =>
        [/\ hi' - lo' <= hi - lo
         /\ stage = "compare" /\ stage' = "loop" => hi' - lo' < hi - lo
         /\ stage = "compare" => mid # prev_mid /\ mid < file.size]_searchVars
  <2> SUFFICES ASSUME SearchInv, SearchNext
               PROVE  /\ hi' - lo' <= hi - lo
                      /\ stage = "compare" /\ stage' = "loop" => hi' - lo' < hi - lo
                      /\ stage = "compare" => mid # prev_mid /\ mid < file.size
    BY DEF searchVars
  <2> USE DEF SearchInv
  <2>1. /\ IsFile(file) /\ file.size \in Nat
        /\ lo \in 0..file.size /\ hi \in 0..file.size /\ mid \in 0..file.size
    BY DEF SearchTypes, IsFile, WellShaped
  <2>2. stage = "compare" => /\ lo <= mid /\ mid < hi
                             /\ mid # prev_mid /\ mid < file.size
    BY <2>1 DEF AtLineStart, LeftBehind, SearchTypes
  <2>3. CASE Below
    <3>1. /\ lo' = file.end[file.first[mid]] /\ UNCHANGED hi /\ stage = "compare"
          /\ file.first[mid] # file.size
      BY <2>3 DEF Below, AtRecord, Found
    <3>2. /\ file.end[file.first[mid]] \in 0..file.size
          /\ mid <= file.first[mid] /\ file.first[mid] \in 0..file.size
          /\ file.first[mid] \in Records(file)
      BY <2>1, <3>1, FirstRecord
    <3>3. file.first[mid] < file.end[file.first[mid]]
      BY <2>1, <3>2 DEF IsFile, RecordsChain
    <3> QED BY <2>1, <2>2, <3>1, <3>2, <3>3
  <2>4. CASE Above
    BY <2>1, <2>2, <2>4 DEF Above, AtRecord
  <2>5. CASE Probe \/ Exhausted \/ FindEol \/ Stop \/ Hit
    <3>1. UNCHANGED <<lo, hi>> /\ ~(stage = "compare" /\ stage' = "loop")
      BY <2>5 DEF Probe, Exhausted, FindEol, Stop, Hit, Return, AtRecord
    <3> QED BY <2>1, <2>2, <3>1
  <2> QED BY <2>3, <2>4, <2>5 DEF SearchNext
<1> QED BY SearchInitInv, SearchNextInv, <1>1, PTL DEF SearchSpec, Narrows

-----------------------------------------------------------------------------
\* The responder does not die while it builds the index, and the text can be read.
Uninterrupted == Hazards \cap {"crash_indexing", "unreadable"} = {}

\* No file is younger than now.
Times == text_mtime <= clock /\ db_mtime <= clock

\* The index is open only between requests and while one is served.
OpenWhen == is_open => pc \in {"idle", "serve"}

\* The time create compares with is that of the text.
Checked == pc = "check" => text_file_time = text_mtime \/ unnoticed

\* The build has indexed the present text as far as it got.
Building ==
    pc = "build" => db_exists /\ (unnoticed \/ \A i \in 1..Lines : i < line => entries[i] = version)

\* What create has settled on, and what is served, is an index of the text.
Settled == pc \in {"restat", "serve"} => Current \/ unnoticed

\* The time an open index was made for is none to come, and the index file is no
\* older: an edit the text gets now has another one.
Stamped ==
    /\ is_open \/ pc \in {"build", "restat", "serve"} => db_exists
    /\ pc = "restat" => text_mtime <= db_mtime \/ unnoticed
    /\ is_open => (stamp <= db_mtime /\ stamp <= text_mtime) \/ unnoticed

\* Only an index of a format that is recognised is opened.
OpenedKnown == is_open \/ pc = "serve" => recognised

\* A version with a broken last line never gets that line indexed.
Parsed == entries[Lines] \notin Broken

IInv == /\ TypeOK /\ Times /\ OpenWhen /\ Checked /\ Building /\ Settled /\ Stamped /\ OpenedKnown
        /\ Parsed /\ TrustedIsCurrent /\ UnmodifiedIsCurrent

-----------------------------------------------------------------------------
LEMMA InitInv == Init => IInv
<1> SUFFICES ASSUME Init PROVE IInv OBVIOUS
<1>1. Lines \in 1..Lines /\ 1 \in 1..(Lines + 1) /\ Broken \subseteq Nat
  BY IndexAssumption
<1>2. entries \in [1..Lines -> Versions \cup {None}] BY DEF Init, NoEntries
<1>3. TypeOK
  <2>1. /\ db_exists \in BOOLEAN /\ is_open \in BOOLEAN /\ recognised \in BOOLEAN
        /\ unnoticed \in BOOLEAN
    BY DEF Init
  <2>2. /\ clock \in Nat /\ version \in Versions /\ text_mtime \in Nat
        /\ db_mtime \in Nat /\ line \in 1..(Lines + 1)
        /\ text_file_time \in Nat /\ stamp \in Nat /\ crashes \in Nat
    BY <1>1, IndexAssumption DEF Init
  <2>3. /\ pc \in {"down", "idle", "create", "check", "build", "restat", "serve"}
        /\ goal \in {"boot", "force", "serve"}
        /\ answered \in Versions \cup {None, Error, Mixed, Unhandled}
    BY DEF Init
  <2> QED BY <1>2, <2>1, <2>2, <2>3, Zenon DEF TypeOK
<1>4. Parsed BY <1>1 DEF Init, Parsed, NoEntries, None
<1> QED BY <1>3, <1>4
        DEF Init, IInv, Times, OpenWhen, Checked, Building, Settled, Stamped, OpenedKnown,
            TrustedIsCurrent, UnmodifiedIsCurrent

LEMMA NextInv == ASSUME Uninterrupted PROVE IInv /\ [Next]_vars => IInv'
<1> SUFFICES ASSUME IInv, [Next]_vars PROVE IInv' OBVIOUS
<1> USE IndexAssumption
    DEF IInv, Uninterrupted, TypeOK, Times, OpenWhen, Checked, Building, Settled, Stamped, OpenedKnown,
        Parsed, TrustedIsCurrent, UnmodifiedIsCurrent, Current,
        textVars, dbVars, ownVars, envVars
<1>1. CASE Boot BY <1>1 DEF Boot
<1>2. CASE GetCurrent BY <1>2 DEF GetCurrent
<1>3. CASE GetClosed BY <1>3 DEF GetClosed
<1>4. CASE StatText BY <1>4 DEF StatText
<1>5. CASE TrustIndex BY <1>5 DEF TrustIndex, IndexNeeded
<1>6. CASE StartBuild
  <2>1. /\ pc = "check" /\ pc' = "build" /\ line' = 1 /\ entries' = NoEntries
        /\ db_exists' = TRUE /\ db_mtime' = clock /\ unnoticed' = FALSE
        /\ UNCHANGED <<clock, recognised, crashes, version, text_mtime, goal, text_file_time,
                       stamp, is_open, answered>>
    BY <1>6 DEF StartBuild
  <2>2. entries' \in [1..Lines -> Versions \cup {None}] /\ \A i \in 1..Lines : entries'[i] = None
    BY <2>1 DEF NoEntries
  <2>3. ~is_open /\ None \notin Broken BY <2>1 DEF None
  <2>4. TypeOK'
    <3>1. unnoticed' \in BOOLEAN /\ db_exists' \in BOOLEAN BY <2>1
    <3> QED BY <2>1, <2>2, <3>1
  <2> QED BY <2>1, <2>2, <2>3, <2>4
<1>7. CASE CannotReadText BY <1>7 DEF CannotReadText
<1>8. CASE IndexLine BY <1>8 DEF IndexLine, Unparsable
<1>9. CASE DataError
  <2>1. /\ pc' \in {"down", "idle"} /\ answered' \in {answered, Error}
        /\ db_exists' = FALSE /\ entries' = NoEntries /\ ~is_open
        /\ UNCHANGED <<clock, recognised, crashes, version, text_mtime, unnoticed, db_mtime, goal,
                       line, text_file_time, stamp, is_open>>
    BY <1>9 DEF DataError, Raise
  <2>2. entries' \in [1..Lines -> Versions \cup {None}] BY <2>1 DEF NoEntries
  <2>3. TypeOK'
    <3>1. /\ is_open' \in BOOLEAN /\ db_exists' \in BOOLEAN /\ recognised' \in BOOLEAN
          /\ unnoticed' \in BOOLEAN
      BY <2>1
    <3>2. answered' \in Versions \cup {None, Error, Mixed, Unhandled}
          /\ pc' \in {"down", "idle", "create", "check", "build", "restat", "serve"}
      BY <2>1
    <3> QED BY <2>1, <2>2, <3>1, <3>2
  <2>4. entries'[Lines] = None /\ None \notin Broken BY <2>1 DEF NoEntries, None
  <2> QED BY <2>1, <2>3, <2>4
<1>10. CASE FinishBuild
  <2>1. /\ pc = "build" /\ line > Lines /\ db_mtime' = clock /\ pc' = "restat"
        /\ UNCHANGED <<clock, recognised, crashes, version, text_mtime, unnoticed, entries,
                       db_exists, goal, line, text_file_time, stamp, is_open, answered>>
    BY <1>10 DEF FinishBuild
  <2>2. \A i \in 1..Lines : i < line BY <2>1
  <2>3. TypeOK' BY <2>1
  <2> QED BY <2>1, <2>2, <2>3
<1>11. CASE Restat
  <2>1. /\ pc = "restat" /\ stamp' = text_mtime /\ is_open' = (goal = "serve")
        /\ pc' = (IF goal = "serve" THEN "serve" ELSE "idle")
        /\ goal = "serve" => recognised
        /\ UNCHANGED <<clock, recognised, crashes, version, text_mtime, unnoticed, entries,
                       db_exists, db_mtime, goal, line, text_file_time, answered>>
    BY <1>11 DEF Restat, Openable
  <2> QED BY <2>1
<1>12. CASE CannotOpen BY <1>12 DEF CannotOpen
<1>13. CASE Serve BY <1>13 DEF Serve, IndexedVersion
<1>14. CASE Close BY <1>14 DEF Close
<1>15. CASE Crash
  <2>1. pc # "build" /\ UNCHANGED entries BY <1>15 DEF Crash
  <2>2. /\ pc' = "down" /\ is_open' = FALSE /\ crashes' \in Nat
        /\ UNCHANGED <<clock, recognised, version, text_mtime, unnoticed, entries, db_exists,
                       db_mtime, goal, line, text_file_time, stamp, answered>>
    BY <1>15, <2>1 DEF Crash
  <2>3. TypeOK' BY <2>2
  <2> QED BY <2>1, <2>2, <2>3
<1>16. CASE Edit
  <2>1. PICK v \in Versions, t \in EditTimes :
           version' = v /\ text_mtime' = t /\ unnoticed' = (unnoticed \/ Unnoticed(t))
    BY <1>16 DEF Edit
  <2>2. UNCHANGED <<clock, recognised, crashes, entries, db_exists, db_mtime, pc, goal, line,
                    text_file_time, stamp, is_open, answered>>
    BY <1>16 DEF Edit
  <2>3. t \in Nat /\ t <= clock BY DEF EditTimes
  <2>4. unnoticed' \in BOOLEAN BY <2>1
  <2>5. TypeOK' BY <2>1, <2>2, <2>3, <2>4
  <2>6. CASE unnoticed' BY <2>1, <2>2, <2>3, <2>5, <2>6
  <2>7. CASE ~unnoticed'
    <3>0. ~unnoticed /\ ~Unnoticed(t) BY <2>1, <2>7
    <3>1. /\ ~unnoticed /\ pc \in {"down", "idle", "create"}
          /\ is_open => t # text_mtime
          /\ t < clock => (is_open => t # stamp) /\ (db_exists => ~(t < db_mtime))
      BY <3>0 DEF Unnoticed
    <3>2. is_open => t # stamp /\ stamp <= t BY <2>3, <3>1
    <3>3. db_exists => t >= db_mtime BY <2>3, <3>1
    <3>4. Stamped' BY <2>1, <2>2, <2>3, <3>1, <3>2, <3>3
    <3> QED BY <2>1, <2>2, <2>3, <2>5, <3>1, <3>2, <3>3, <3>4
  <2> QED BY <2>6, <2>7
<1>17. CASE Tick BY <1>17 DEF Tick
<1>18. CASE UNCHANGED vars BY <1>18 DEF vars
<1> QED BY <1>1, <1>2, <1>3, <1>4, <1>5, <1>6, <1>7, <1>8, <1>9, <1>10, <1>11,
           <1>12, <1>13, <1>14, <1>15, <1>16, <1>17, <1>18
        DEF Next, Request, Create

-----------------------------------------------------------------------------
\* RecordIndex.get_handles never hands out an index of another text.
THEOREM IndexCurrent == ASSUME Uninterrupted PROVE Spec => []ServedIsCurrent
<1>1. IInv => ServedIsCurrent BY DEF IInv, Settled, ServedIsCurrent
<1> QED BY Uninterrupted, InitInv, NextInv, <1>1, PTL DEF Spec

\* No restart trusts a stale index file (RecordIndex.create).
THEOREM IndexTrust == ASSUME Uninterrupted PROVE Spec => []TrustedIsCurrent
<1>1. IInv => TrustedIsCurrent BY DEF IInv
<1> QED BY Uninterrupted, InitInv, NextInv, <1>1, PTL DEF Spec

\* An unchanged modification time means an unchanged text.
THEOREM IndexUnmodified == ASSUME Uninterrupted PROVE Spec => []UnmodifiedIsCurrent
<1>1. IInv => UnmodifiedIsCurrent BY DEF IInv
<1> QED BY Uninterrupted, InitInv, NextInv, <1>1, PTL DEF Spec

\* The index with its cache file, its builds and its crashes implements the promise of
\* IndexedFile: a request is answered from the text on disk, with an error if that is
\* broken, and otherwise only where an edit was not noticed or the format of the
\* index is not recognised.
THEOREM IndexKeepsPromise == ASSUME Uninterrupted PROVE Spec => KeepsPromise
<1>1. Init => Promise!Init
  BY DEF Init, Promise!Init, None, Promise!None
<1>2. IInv /\ [Next]_vars => [Promise!Next]_Promise!vars
  <2> SUFFICES ASSUME IInv, [Next]_vars
               PROVE  Promise!Next \/ UNCHANGED <<version, answered, unnoticed, recognised>>
    BY DEF Promise!vars
  <2> USE DEF textVars, dbVars, ownVars, envVars
  <2>1. CASE Serve
    <3>1. Lines \in 1..Lines /\ entries[Lines] \notin Broken /\ (Current \/ unnoticed)
      BY <2>1, IndexAssumption DEF IInv, Settled, Parsed, Serve
    <3>2. answered' = IndexedVersion /\ UNCHANGED <<version, unnoticed, recognised>> /\ recognised
      BY <2>1 DEF Serve, IInv, OpenedKnown
    <3>3. CASE \A i \in 1..Lines : entries[i] = version
      <4>1. version \notin Broken /\ answered' = version BY <3>1, <3>2, <3>3 DEF IndexedVersion
      <4> QED BY <3>2, <4>1 DEF Promise!Next, Promise!Answer
    <3>4. CASE ~ \A i \in 1..Lines : entries[i] = version
      <4>1. unnoticed /\ answered' = Mixed BY <3>1, <3>2, <3>4 DEF IndexedVersion, Current
      <4> QED BY <3>2, <4>1 DEF Promise!Next, Promise!Answer, Mixed, Promise!Mixed
    <3> QED BY <3>3, <3>4
  <2>2. CASE DataError
    <3>1. UNCHANGED <<version, unnoticed, recognised>> BY <2>2 DEF DataError
    <3>2. \/ version \in Broken /\ answered' = Error
          \/ UNCHANGED answered
      BY <2>2 DEF DataError, Raise, Unparsable
    <3> QED BY <3>1, <3>2 DEF Promise!Next, Promise!Answer, Error, Promise!Error
  <2>3. CASE Edit
    <3>1. /\ \E v \in Versions : v > version /\ version' = v
          /\ UNCHANGED <<answered, recognised>> /\ (unnoticed' = unnoticed \/ unnoticed' = TRUE)
      <4>1. PICK t : unnoticed' = (unnoticed \/ Unnoticed(t)) BY <2>3 DEF Edit
      <4>2. unnoticed' \in {unnoticed, TRUE} BY <4>1 DEF IInv, TypeOK
      <4> QED BY <2>3, <4>2 DEF Edit
    <3> QED BY <3>1 DEF Promise!Next, Promise!Edit
  <2>4. CASE StartBuild
    BY <2>4 DEF StartBuild, Promise!Next, Promise!Build
  <2>5. CASE CannotOpen
    <3>1. ~recognised BY <2>5 DEF CannotOpen, Openable, Uninterrupted
    <3>2. answered' = Unhandled /\ UNCHANGED <<version, unnoticed, recognised>>
      BY <2>5 DEF CannotOpen
    <3> QED BY <3>1, <3>2 DEF Promise!Next, Promise!Answer, Unhandled, Promise!Unhandled
  <2>6. CASE CannotReadText BY <2>6 DEF CannotReadText, Uninterrupted
  <2>7. CASE \/ Boot \/ GetCurrent \/ GetClosed \/ StatText \/ TrustIndex
             \/ IndexLine \/ FinishBuild \/ Restat \/ Close \/ Crash \/ Tick
    BY <2>7 DEF Boot, GetCurrent, GetClosed, StatText, TrustIndex, IndexLine,
                FinishBuild, Restat, Close, Crash, Tick
  <2>8. CASE UNCHANGED vars BY <2>8 DEF vars
  <2> QED BY <2>1, <2>2, <2>3, <2>4, <2>5, <2>6, <2>7, <2>8 DEF Next, Request, Create
<1> QED BY Uninterrupted, InitInv, NextInv, <1>1, <1>2, PTL DEF Spec, KeepsPromise, Promise!Spec

-----------------------------------------------------------------------------
(* With crashes and unreadable texts: what is left is never stale.         *)

\* Each entry there is was made from the present text, unless the times do not tell.
NotStale == unnoticed \/ \A i \in 1..Lines : entries[i] \in {version, None}

\* The index lacks nothing worse than entries: while it is built, while it is
\* served, and wherever create or get_handles would trust it as it is.
NeverStale ==
    /\ pc \in {"build", "restat", "serve"} => NotStale
    /\ pc \in {"down", "idle", "create", "check"} /\ db_exists /\ text_mtime < db_mtime
          => NotStale
    /\ pc = "idle" /\ is_open /\ stamp = text_mtime => NotStale

LeftInv == TypeOK /\ Times /\ OpenWhen /\ Checked /\ Stamped /\ NeverStale

LEMMA LeftInitInv == Init => LeftInv
BY InitInv DEF IInv, LeftInv, NotStale, NeverStale, Init

LEMMA LeftNextInv == LeftInv /\ [Next]_vars => LeftInv'
<1> SUFFICES ASSUME LeftInv, [Next]_vars PROVE LeftInv' OBVIOUS
<1> USE IndexAssumption
    DEF LeftInv, TypeOK, Times, OpenWhen, Checked, Stamped, NeverStale, NotStale,
        textVars, dbVars, ownVars, envVars
<1>0. \A i \in 1..Lines : NoEntries[i] = None
  BY DEF NoEntries
<1>n. NoEntries \in [1..Lines -> Versions \cup {None}] BY DEF NoEntries
<1>1. CASE Boot BY <1>1 DEF Boot
<1>2. CASE GetCurrent BY <1>2 DEF GetCurrent
<1>3. CASE GetClosed BY <1>3 DEF GetClosed
<1>4. CASE StatText BY <1>4 DEF StatText
<1>5. CASE TrustIndex BY <1>5 DEF TrustIndex, IndexNeeded
<1>6. CASE StartBuild
  <2>1. /\ pc = "check" /\ pc' = "build" /\ line' = 1 /\ entries' = NoEntries
        /\ db_exists' = TRUE /\ db_mtime' = clock /\ unnoticed' = FALSE
        /\ UNCHANGED <<clock, recognised, crashes, version, text_mtime, goal, text_file_time,
                       stamp, is_open, answered>>
    BY <1>6 DEF StartBuild
  <2>2. entries' \in [1..Lines -> Versions \cup {None}] /\ \A i \in 1..Lines : entries'[i] = None
    BY <2>1 DEF NoEntries
  <2>3. ~is_open /\ None \notin Broken BY <2>1 DEF None
  <2>4. TypeOK'
    <3>1. unnoticed' \in BOOLEAN /\ db_exists' \in BOOLEAN BY <2>1
    <3> QED BY <2>1, <2>2, <3>1
  <2> QED BY <2>1, <2>2, <2>3, <2>4
<1>7. ASSUME pc \in {"check", "build"}, entries' = NoEntries, db_exists' \in BOOLEAN,
             db_mtime' \in {db_mtime, clock}, Raise, unnoticed' \in {unnoticed, FALSE},
             UNCHANGED <<envVars, version, text_mtime, goal, line, text_file_time, stamp, is_open>>
      PROVE  LeftInv'
  <2>1. pc' \in {"down", "idle"} /\ answered' \in {answered, Error} /\ ~is_open
    BY <1>7 DEF Raise
  <2>2. UNCHANGED <<clock, recognised, crashes, version, text_mtime, goal, line,
                    text_file_time, stamp, is_open>>
    BY <1>7
  <2>3. TypeOK'
    <3>1. /\ is_open' \in BOOLEAN /\ db_exists' \in BOOLEAN /\ recognised' \in BOOLEAN
          /\ unnoticed' \in BOOLEAN
      BY <1>7, <2>2
    <3>2. answered' \in Versions \cup {None, Error, Mixed, Unhandled}
          /\ pc' \in {"down", "idle", "create", "check", "build", "restat", "serve"}
      BY <2>1
    <3> QED BY <1>7, <1>n, <2>2, <3>1, <3>2
  <2>4. NotStale' BY <1>0, <1>7
  <2> QED BY <1>7, <2>1, <2>2, <2>3, <2>4
<1>8. CASE CannotReadText
  <2>1. db_exists' = TRUE BY <1>8 DEF CannotReadText
  <2> QED BY <1>7, <1>8, <2>1, Zenon DEF CannotReadText
<1>9. CASE DataError
  <2>1. db_exists' = FALSE BY <1>9 DEF DataError
  <2> QED BY <1>7, <1>9, <2>1, Zenon DEF DataError
<1>10. CASE IndexLine BY <1>10 DEF IndexLine
<1>11. CASE FinishBuild
  <2>1. /\ pc = "build" /\ line > Lines /\ db_mtime' = clock /\ pc' = "restat"
        /\ UNCHANGED <<clock, recognised, crashes, version, text_mtime, unnoticed, entries,
                       db_exists, goal, line, text_file_time, stamp, is_open, answered>>
    BY <1>11 DEF FinishBuild
  <2>2. \A i \in 1..Lines : i < line BY <2>1
  <2>3. TypeOK' BY <2>1
  <2> QED BY <2>1, <2>2, <2>3
<1>12. CASE Restat
  <2>1. /\ pc = "restat" /\ stamp' = text_mtime /\ is_open' = (goal = "serve")
        /\ pc' = (IF goal = "serve" THEN "serve" ELSE "idle")
        /\ goal = "serve" => recognised
        /\ UNCHANGED <<clock, recognised, crashes, version, text_mtime, unnoticed, entries,
                       db_exists, db_mtime, goal, line, text_file_time, answered>>
    BY <1>12 DEF Restat, Openable
  <2> QED BY <2>1
<1>13. CASE CannotOpen BY <1>13 DEF CannotOpen
<1>14. CASE Serve BY <1>14 DEF Serve, IndexedVersion
<1>15. CASE Close BY <1>15 DEF Close
<1>16. CASE Crash
  <2>1. /\ pc' = "down" /\ is_open' = FALSE /\ crashes' \in Nat
        /\ UNCHANGED <<clock, recognised, version, text_mtime, unnoticed, db_exists, db_mtime, goal,
                       line, text_file_time, stamp, answered>>
    BY <1>16 DEF Crash
  <2>2. /\ entries' \in [1..Lines -> Versions \cup {None}]
        /\ \A i \in 1..Lines : entries'[i] \in {entries[i], None}
    <3>1. CASE pc = "build" BY <1>16, <3>1 DEF Crash
    <3>2. CASE pc # "build" BY <1>16, <3>2 DEF Crash
    <3> QED BY <3>1, <3>2
  <2>3. TypeOK' BY <2>1, <2>2
  <2>4. NeverStale' BY <2>1, <2>2
  <2> QED BY <2>1, <2>3, <2>4
<1>17. CASE Edit
  <2>1. PICK v \in Versions, t \in EditTimes :
           version' = v /\ text_mtime' = t /\ unnoticed' = (unnoticed \/ Unnoticed(t))
    BY <1>17 DEF Edit
  <2>2. UNCHANGED <<clock, recognised, crashes, entries, db_exists, db_mtime, pc, goal, line,
                    text_file_time, stamp, is_open, answered>>
    BY <1>17 DEF Edit
  <2>3. t \in Nat /\ t <= clock BY DEF EditTimes
  <2>4. unnoticed' \in BOOLEAN BY <2>1
  <2>5. TypeOK' BY <2>1, <2>2, <2>3, <2>4
  <2>6. CASE unnoticed' BY <2>1, <2>2, <2>3, <2>5, <2>6
  <2>7. CASE ~unnoticed'
    <3>0. ~unnoticed /\ ~Unnoticed(t) BY <2>1, <2>7
    <3>1. /\ ~unnoticed /\ pc \in {"down", "idle", "create"}
          /\ is_open => t # text_mtime
          /\ t < clock => (is_open => t # stamp) /\ (db_exists => ~(t < db_mtime))
      BY <3>0 DEF Unnoticed
    <3>2. is_open => t # stamp /\ stamp <= t BY <2>3, <3>1
    <3>3. db_exists => t >= db_mtime BY <2>3, <3>1
    <3>4. Stamped' BY <2>1, <2>2, <2>3, <3>1, <3>2, <3>3
    <3> QED BY <2>1, <2>2, <2>3, <2>5, <3>1, <3>2, <3>3, <3>4
  <2> QED BY <2>6, <2>7
<1>18. CASE Tick BY <1>18 DEF Tick
<1>19. CASE UNCHANGED vars BY <1>19 DEF vars
<1> QED BY <1>1, <1>2, <1>3, <1>4, <1>5, <1>6, <1>8, <1>9, <1>10, <1>11, <1>12,
           <1>13, <1>14, <1>15, <1>16, <1>17, <1>18, <1>19
        DEF Next, Request, Create

\* The types of the responder's and the index file's state.
THEOREM IndexTypeOK == Spec => []TypeOK
<1>1. LeftInv => TypeOK BY DEF LeftInv
<1> QED BY LeftInitInv, LeftNextInv, <1>1, PTL DEF Spec

\* Whatever a crash or an unreadable text leaves of a build, RecordIndex never serves
\* an entry of another text: the offset of one line is not read from the next version.
THEOREM IndexNotStale == Spec => []ServedIsNotStale
<1>1. LeftInv => ServedIsNotStale BY DEF LeftInv, NeverStale, NotStale, ServedIsNotStale
<1> QED BY LeftInitInv, LeftNextInv, <1>1, PTL DEF Spec
=============================================================================
