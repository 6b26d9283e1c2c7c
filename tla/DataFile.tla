------------------------------ MODULE DataFile ------------------------------
(***************************************************************************)
(* One call of DataFile.process_var_binds (snmpsim/datafile.py): the       *)
(* var-binds of a GET, GETNEXT or SET request are answered one after the   *)
(* other from the records of a data file.  A record is found through the   *)
(* index, or by the binary search when its OID is not in it; a record may  *)
(* serve a whole subtree; records that cannot be evaluated and records     *)
(* whose variation module has nothing to say are stepped over by GETNEXT.  *)
(*                                                                         *)
(* The search and the index appear by what modules RecordSearch and        *)
(* RecordIndex establish: the search returns the first record at or behind *)
(* an OID - or the end of a file that ends in comments or blank lines -    *)
(* and an index that a crash cut short lacks entries.  A line with an OID  *)
(* that does not evaluate ends the request with an exception when it is    *)
(* met, be it as a pivot of the search or in a walk.                       *)
(***************************************************************************)
EXTENDS Integers, Sequences, FiniteSets, SequencesExt

CONSTANTS
    DataFiles,        \* the data files, each a sequence of records
    Requests,         \* the requests: [flag, var_binds]
    Losses,           \* the entries an index may lack: sets of line numbers
    MaxBrokenRecords  \* max_broken_records

(***************************************************************************)
(* An OID is a sequence of numbers.  A record is its OID, what happens     *)
(* when it is evaluated (kind), and for a subtree the OIDs its variation   *)
(* module has values for:                                                  *)
(*   value    a plain value,                                               *)
(*   broken   a plain value that raises when it is evaluated,              *)
(*   empty    a variation module without a value (writecache unset),       *)
(*   silent   a module that drops the request (NoDataNotification) or      *)
(*            fails it as a whole (MibOperationError),                     *)
(*   subtree  a module serving every OID below (tag ":module"),            *)
(*   bad      an OID that does not evaluate, as --validate-data would find *)
(*            (its oid here only says where it stands in the file).        *)
(***************************************************************************)
Kinds == {"value", "broken", "empty", "silent", "subtree", "bad"}

OIDs == Seq(Nat)
Records == [oid : OIDs, kind : Kinds, inner : SUBSET OIDs]

\* Lexicographic order of OIDs, as pyasn1 compares them.
a \prec b ==
    \/ IsStrictPrefix(a, b)
    \/ \E i \in DOMAIN a \cap DOMAIN b :
          /\ a[i] < b[i]
          /\ \A j \in 1..(i - 1) : a[j] = b[j]

\* A data file: sorted, subtrees disjoint from the records behind them.
IsDataFile(f) ==
    /\ f \in Seq(Records)
    /\ \A i, j \in DOMAIN f : i < j => f[i].oid \prec f[j].oid
    /\ \A i \in DOMAIN f :
          /\ IsFiniteSet(f[i].inner)
          /\ f[i].kind # "subtree" => f[i].inner = {}
          /\ \A x \in f[i].inner :
                /\ IsStrictPrefix(f[i].oid, x)
                /\ i < Len(f) => x \prec f[i + 1].oid

ASSUME DataFileAssumption ==
    /\ \A f \in DataFiles : IsDataFile(f)
    /\ \A r \in Requests : r.flag \in {"GET", "NEXT", "SET"} /\ r.var_binds \in Seq(OIDs)
    /\ MaxBrokenRecords \in Nat

VARIABLES
    recs,            \* the records of the file
    lost,            \* the lines without an index entry; Eof stands for "last"
    trailing,        \* comments or blank lines follow the last record
    request,         \* the call: [flag, var_binds]
    rsp_var_binds,   \* the answers so far, pairs of an OID and a value
    pc,              \* "lookup", "choose", "evaluate", "done", "aborted", "raised"
    line,            \* the number of the line at hand; Eof or 0 when there is none
    pos,             \* the number of the line a read of the text returns next
    exact_match, subtree_flag, broken_records   \* the local variables

vars == <<recs, lost, trailing, request, rsp_var_binds, pc, line, pos,
          exact_match, subtree_flag, broken_records>>

Eof == Len(recs) + 1
Broken == 0           \* `line = ""' after a KeyError: the index is broken
IsLine(l) == l \in DOMAIN recs

nextFlag == request.flag = "NEXT"
setFlag == request.flag = "SET"
error_status == IF nextFlag THEN "endOfMib" ELSE "noSuchInstance"

oid == request.var_binds[Len(rsp_var_binds) + 1]

Behind(l) == IF l < Eof THEN l + 1 ELSE Eof
IsSubtree(l) == recs[l].kind = "subtree"
IsBad(l) == IsLine(l) /\ recs[l].kind = "bad"

Init ==
    /\ recs \in DataFiles /\ lost \in Losses /\ trailing \in BOOLEAN /\ request \in Requests
    /\ rsp_var_binds = <<>>
    /\ pc = IF request.var_binds = <<>> THEN "done" ELSE "lookup"
    /\ line = Eof /\ pos = 1
    /\ exact_match = FALSE /\ subtree_flag = FALSE
    /\ broken_records = 0

-----------------------------------------------------------------------------
\* The answer to the var-bind at hand; the loop goes on to the next one.
Answer(o, v) ==
    /\ rsp_var_binds' = Append(rsp_var_binds, <<o, v>>)
    /\ pc' = IF Len(rsp_var_binds') = Len(request.var_binds) THEN "done" ELSE "lookup"
    /\ UNCHANGED <<recs, lost, trailing, request, line, pos, exact_match, subtree_flag,
                   broken_records>>

\* The lines that the index finds; no request has the text of a bad OID.
Indexed == {l \in DOMAIN recs \ lost : ~IsBad(l)}
NotIndexed(o) == \A l \in Indexed : recs[l].oid # o

\* An exception of evaluate(oidOnly=True), which nobody catches.
Raise ==
    /\ pc' = "raised"
    /\ UNCHANGED <<recs, lost, trailing, request, rsp_var_binds, line, pos, exact_match,
                   subtree_flag, broken_records>>

\* The OID is in the index.
LookupIndex ==
    /\ pc = "lookup"
    /\ \E l \in Indexed :
          /\ recs[l].oid = oid
          /\ line' = l /\ pos' = l + 1
          /\ subtree_flag' = IsSubtree(l)
    /\ exact_match' = TRUE /\ broken_records' = 0
    /\ pc' = "choose"
    /\ UNCHANGED <<recs, lost, trailing, request, rsp_var_binds>>

\* It is not: search_record_by_oid, then get_record at the offset found. A bad
\* line right in front is always a pivot, unless the search hits the OID before.
RoundsUp(l) ==
    /\ l \in 1..Eof /\ ~IsBad(l)
    /\ \A k \in DOMAIN recs : ~IsBad(k) => (k < l <=> recs[k].oid \prec oid)
    /\ IsBad(l - 1) => IsLine(l) /\ recs[l].oid = oid

\* A pivot among the comments behind the last record ends the search with the end
\* of the file, whatever lies in front of it (RecordSearch.RoundsUpOrEof).
Finds(l) == RoundsUp(l) \/ (trailing /\ l = Eof)

Search ==
    /\ pc = "lookup"
    /\ NotIndexed(oid)
    /\ \E l \in 1..Eof : Finds(l) /\ line' = l /\ pos' = Behind(l)
    /\ subtree_flag' = FALSE /\ exact_match' = FALSE /\ broken_records' = 0
    /\ pc' = "choose"
    /\ UNCHANGED <<recs, lost, trailing, request, rsp_var_binds>>

SearchRaises ==
    /\ pc = "lookup"
    /\ NotIndexed(oid)
    /\ \E l \in DOMAIN recs : IsBad(l)
    /\ Raise

\* Mutants of ChooseNext: it leaves a subtree, and it reads the same line again.
ChooseNextOutOfSubtree ==
    /\ pc = "choose" /\ exact_match /\ nextFlag
    /\ ~IsBad(pos)
    /\ line' = IF pos \in lost \ {Eof} THEN Broken ELSE pos
    /\ subtree_flag' = IF IsLine(line') THEN IsSubtree(line') ELSE subtree_flag
    /\ pos' = Behind(pos)
    /\ pc' = "evaluate"
    /\ UNCHANGED <<recs, lost, trailing, request, rsp_var_binds, exact_match, broken_records>>

ChooseNextAgain ==
    /\ pc = "choose" /\ exact_match /\ nextFlag /\ ~subtree_flag
    /\ ~IsBad(pos)
    /\ line' = IF pos \in lost \ {Eof} THEN Broken ELSE pos
    /\ subtree_flag' = IF IsLine(line') THEN IsSubtree(line') ELSE subtree_flag
    /\ pc' = "evaluate"
    /\ UNCHANGED <<recs, lost, trailing, request, rsp_var_binds, pos, exact_match, broken_records>>

\* After an exact match GETNEXT takes the next line, except inside a subtree.
ChooseNext ==
    /\ pc = "choose" /\ exact_match /\ nextFlag /\ ~subtree_flag
    /\ ~IsBad(pos)
    /\ line' = IF pos \in lost \ {Eof} THEN Broken ELSE pos
    /\ subtree_flag' = IF IsLine(line') THEN IsSubtree(line') ELSE subtree_flag
    /\ pos' = Behind(pos)
    /\ pc' = "evaluate"
    /\ UNCHANGED <<recs, lost, trailing, request, rsp_var_binds, exact_match, broken_records>>

ChooseNextRaises ==
    /\ pc = "choose" /\ exact_match /\ nextFlag /\ ~subtree_flag
    /\ IsBad(pos)
    /\ Raise

ChooseMatched ==
    /\ pc = "choose" /\ exact_match /\ ~(nextFlag /\ ~subtree_flag)
    /\ pc' = "evaluate"
    /\ UNCHANGED <<recs, lost, trailing, request, rsp_var_binds, line, pos, exact_match,
                   subtree_flag, broken_records>>

(***************************************************************************)
(* Without an exact match the index tells whether the line in front of the *)
(* one found serves a subtree; that line is read then, and is used when    *)
(* its OID is a prefix of the one asked for.                               *)
(***************************************************************************)
PrevServesSubtree == line > 1 /\ IsSubtree(line - 1)

ChooseFound ==
    /\ pc = "choose" /\ ~exact_match
    /\ \/ /\ line \in lost
          /\ line' = Broken
          /\ UNCHANGED <<pos, subtree_flag>>
       \/ /\ line \notin lost /\ ~PrevServesSubtree
          /\ UNCHANGED <<line, pos, subtree_flag>>
       \/ /\ line \notin lost /\ PrevServesSubtree
          /\ pos' = line
          /\ IF IsPrefix(recs[line - 1].oid, oid)
             THEN line' = line - 1 /\ subtree_flag' = TRUE
             ELSE UNCHANGED <<line, subtree_flag>>
    /\ pc' = "evaluate"
    /\ UNCHANGED <<recs, lost, trailing, request, rsp_var_binds, exact_match, broken_records>>

-----------------------------------------------------------------------------
\* No record: an error status.
NoRecord ==
    /\ pc = "evaluate" /\ ~IsLine(line)
    /\ Answer(oid, error_status)

\* `continue': on to the line behind.
StepOver ==
    /\ exact_match' = TRUE /\ subtree_flag' = FALSE
    /\ pc' = "choose"
    /\ UNCHANGED <<recs, lost, trailing, request, rsp_var_binds, line, pos>>

\* A record that is not asked for, or not writable, is not evaluated any further.
Refused == (~nextFlag /\ ~exact_match) \/ setFlag

EvaluateValue ==
    /\ pc = "evaluate" /\ IsLine(line) /\ recs[line].kind = "value"
    /\ IF Refused THEN Answer(oid, error_status) ELSE Answer(recs[line].oid, "value")

\* A mutant of EvaluateBroken: a broken record ends the walk.
EvaluateBrokenStops ==
    /\ pc = "evaluate" /\ IsLine(line) /\ recs[line].kind = "broken"
    /\ Answer(oid, error_status)

EvaluateBroken ==
    /\ pc = "evaluate" /\ IsLine(line) /\ recs[line].kind = "broken"
    /\ IF ~Refused /\ nextFlag /\ broken_records < MaxBrokenRecords
       THEN StepOver /\ broken_records' = broken_records + 1
       ELSE Answer(oid, error_status)

\* A module answers with the error status; for GETNEXT that is endOfMib.
EvaluateEmpty ==
    /\ pc = "evaluate" /\ IsLine(line) /\ recs[line].kind = "empty"
    /\ IF nextFlag THEN StepOver /\ UNCHANGED broken_records
                   ELSE Answer(oid, error_status)

\* A mutant of EvaluateSilent: the module is called for an OID it does not serve.
EvaluateSilentAlways ==
    /\ pc = "evaluate" /\ IsLine(line) /\ recs[line].kind = "silent"
    /\ pc' = "aborted"
    /\ UNCHANGED <<recs, lost, trailing, request, rsp_var_binds, line, pos, exact_match,
                   subtree_flag, broken_records>>

\* A module raises; the exception leaves process_var_binds.
EvaluateSilent ==
    /\ pc = "evaluate" /\ IsLine(line) /\ recs[line].kind = "silent"
    /\ IF nextFlag \/ exact_match
       THEN /\ pc' = "aborted"
            /\ UNCHANGED <<recs, lost, trailing, request, rsp_var_binds, line, pos, exact_match,
                           subtree_flag, broken_records>>
       ELSE Answer(oid, error_status)

\* The least OID of a set of OIDs.
Least(S) == CHOOSE x \in S : \A y \in S \ {x} : x \prec y

\* A subtree's module looks the OID up, or the next one, among its own.
EvaluateSubtree ==
    /\ pc = "evaluate" /\ IsLine(line) /\ recs[line].kind = "subtree"
    /\ LET following == {x \in recs[line].inner : oid \prec x}
       IN  IF nextFlag
           THEN IF following = {} THEN StepOver /\ UNCHANGED broken_records
                                  ELSE Answer(Least(following), "value")
           ELSE IF oid \in recs[line].inner THEN Answer(oid, "value")
                                            ELSE Answer(oid, error_status)

Choose == ChooseNext \/ ChooseNextRaises \/ ChooseMatched \/ ChooseFound

Evaluate == \/ NoRecord \/ EvaluateValue \/ EvaluateBroken \/ EvaluateEmpty
            \/ EvaluateSilent \/ EvaluateSubtree

Next == LookupIndex \/ Search \/ SearchRaises \/ Choose \/ Evaluate

\* The call runs to its end: a single thread, no waiting.
Spec == Init /\ [][Next]_vars /\ WF_vars(Next)

-----------------------------------------------------------------------------
(***************************************************************************)
(* The MIB a data file stands for: the OIDs of its values and of the       *)
(* values of its subtrees, in order, whatever else is in between.          *)
(***************************************************************************)
Instances == {recs[l].oid : l \in {k \in DOMAIN recs : recs[k].kind = "value"}}
             \cup UNION {recs[l].inner : l \in DOMAIN recs}

Silent == {recs[l].oid : l \in {k \in DOMAIN recs : recs[k].kind = "silent"}}

After(o) == {x \in Instances : o \prec x}

\* The broken records a walk from o meets before the next instance.
BrokenAfter(o) ==
    {l \in DOMAIN recs : /\ recs[l].kind = "broken" /\ o \prec recs[l].oid
                         /\ \A x \in After(o) : recs[l].oid \prec x}

\* What a var-bind should be answered with.
Expected(o) ==
    IF nextFlag
    THEN IF After(o) = {} THEN <<o, "endOfMib">> ELSE <<Least(After(o)), "value">>
    ELSE IF o \in Instances /\ ~(setFlag /\ \E l \in DOMAIN recs : recs[l].oid = o)
         THEN <<o, "value">> ELSE <<o, "noSuchInstance">>

Answered == DOMAIN rsp_var_binds

\* Each answer is for the var-bind at its place, and it is either the right
\* one or an error status: a data file never answers with another record,
\* skips an instance or goes back in a walk, even with a damaged index or with
\* lines whose OIDs do not evaluate.
NeverWrong ==
    \A i \in Answered :
       LET o == request.var_binds[i]
       IN  rsp_var_binds[i] \in {Expected(o), <<o, error_status>>}

\* The search for an OID without a record may give up in such a file.
MayGiveUp(o) == trailing /\ NotIndexed(o)

\* With a whole index every answer is the right one, and a walk reaches what is
\* behind a run of fewer than max_broken_records broken records. Exactly that
\* many, which datafile.py:39 allows, may be too many: behind a subtree a broken
\* record is read, evaluated and counted twice (datafile.py:184). In a file that
\* ends in comments or blank lines the search may answer an OID that has no record
\* with an error status although the MIB goes on behind it (file.py:74); from one
\* record to the next a walk gets on there, too.
Complete ==
    \A i \in Answered :
       LET o == request.var_binds[i]
       IN  lost = {} /\ Cardinality(BrokenAfter(o)) < MaxBrokenRecords
           => \/ rsp_var_binds[i] = Expected(o)
              \/ MayGiveUp(o) /\ rsp_var_binds[i] = <<o, error_status>>

\* A request is only dropped for a record that was asked for or is next in a
\* walk, not for one the lookup just passes.
DroppedForCause ==
    pc = "aborted" =>
       /\ IsLine(line)
       /\ recs[line].oid \in Silent
       /\ IF nextFlag THEN \A x \in After(oid) : recs[line].oid \prec x
                      ELSE recs[line].oid = oid

\* Every call ends: with all var-binds answered, the request dropped, or an
\* exception that leaves process_var_binds. A run of broken or empty records, and
\* a subtree in front of them, never sends it round in circles (datafile.py:217).
Ends ==
    <>(\/ pc \in {"aborted", "raised"}
       \/ pc = "done" /\ Len(rsp_var_binds) = Len(request.var_binds))
=============================================================================
