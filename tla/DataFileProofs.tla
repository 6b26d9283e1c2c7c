--------------------------- MODULE DataFileProofs ---------------------------
(***************************************************************************)
(* About class DataFile (snmpsim/datafile.py), in two parts.  Of its       *)
(* process_var_binds, for every data file and every request: whatever is   *)
(* answered is right or an error, GETNEXT is a walk over the MIB that the  *)
(* file stands for, and only a record that was asked for drops a request.  *)
(* Of its get_handles, for any number of files and any limit: the pool     *)
(* never leaks an open file, stays within its bound, and only files that   *)
(* failed to open can linger in it closed.                                 *)
(***************************************************************************)
EXTENDS DataFile, HandlePool, FiniteSetTheorems, WellFoundedInduction, NaturalsInduction,
        SequenceTheorems, TLAPS

-----------------------------------------------------------------------------
(* The order of OIDs.                                                      *)

LEMMA LeastNat ==
    ASSUME NEW T \in SUBSET Nat, T # {}
    PROVE  \E m \in T : \A n \in T : m <= n
<1>1. PICK m \in T : \A n \in T : <<n, m>> \notin OpToRel(<, Nat)
  BY WFMin, NatLessThanWellFounded, Zenon
<1>2. \A n \in T : ~(n < m) BY <1>1 DEF OpToRel
<1> QED BY <1>2

LEMMA Elements ==
    ASSUME NEW a \in OIDs
    PROVE  Len(a) \in Nat /\ DOMAIN a = 1..Len(a) /\ \A i \in 1..Len(a) : a[i] \in Nat
BY DEF OIDs

\* A prefix, element by element.
LEMMA Prefix ==
    ASSUME NEW a \in OIDs, NEW b \in OIDs
    PROVE  IsPrefix(a, b) <=> Len(a) <= Len(b) /\ \A i \in 1..Len(a) : a[i] = b[i]
<1>1. SubSeq(a, 1, Len(a)) = a BY SubSeqFull DEF OIDs
<1>2. ASSUME Len(a) <= Len(b)
      PROVE  /\ SubSeq(b, 1, Len(a)) \in Seq(Nat) /\ Len(SubSeq(b, 1, Len(a))) = Len(a)
             /\ \A i \in 1..Len(a) : SubSeq(b, 1, Len(a))[i] = b[i]
  <2>1. Len(a) \in Int /\ \A i \in 1..Len(a) : b[i] \in Nat
    BY <1>2, Elements
  <2> QED BY <2>1, SubSeqProperties, Elements
<1>3. ASSUME Len(a) <= Len(b), \A i \in 1..Len(a) : a[i] = b[i]
      PROVE  a = SubSeq(b, 1, Len(a))
  BY <1>2, <1>3, SeqEqual DEF OIDs
<1> QED BY <1>1, <1>2, <1>3 DEF IsPrefix

\* One OID is in front of another if they differ, and it ends or is smaller at
\* the place where they do.
LEMMA Before ==
    ASSUME NEW a \in OIDs, NEW b \in OIDs
    PROVE  a \prec b <=>
             \/ Len(a) < Len(b) /\ \A i \in 1..Len(a) : a[i] = b[i]
             \/ \E i \in 1..Len(a) : /\ i <= Len(b) /\ a[i] < b[i]
                                     /\ \A j \in 1..(i - 1) : a[j] = b[j]
<1>1. a = b <=> Len(a) = Len(b) /\ \A i \in 1..Len(a) : a[i] = b[i]
  BY SeqEqual DEF OIDs
<1>2. IsStrictPrefix(a, b) <=> Len(a) < Len(b) /\ \A i \in 1..Len(a) : a[i] = b[i]
  BY <1>1, Prefix, Elements DEF IsStrictPrefix
<1>3. DOMAIN a \cap DOMAIN b = {i \in 1..Len(a) : i <= Len(b)} BY Elements
<1> QED BY <1>2, <1>3, Zenon DEF \prec

LEMMA Irreflexive == ASSUME NEW a \in OIDs PROVE ~(a \prec a)
BY Before, Elements

LEMMA Transitive ==
    ASSUME NEW a \in OIDs, NEW b \in OIDs, NEW c \in OIDs, a \prec b, b \prec c
    PROVE  a \prec c
<1>0. /\ Len(a) \in Nat /\ Len(b) \in Nat /\ Len(c) \in Nat
      /\ \A i \in 1..Len(a) : a[i] \in Nat
      /\ \A i \in 1..Len(b) : b[i] \in Nat
      /\ \A i \in 1..Len(c) : c[i] \in Nat
  BY Elements
<1>1. ASSUME Len(a) < Len(c), \A i \in 1..Len(a) : a[i] = c[i] PROVE a \prec c
  BY <1>1, Before
<1>2. ASSUME NEW i \in 1..Len(a), i <= Len(c), a[i] < c[i], \A j \in 1..(i - 1) : a[j] = c[j]
      PROVE  a \prec c
  BY <1>2, Before
<1>3. ASSUME Len(a) < Len(b), \A i \in 1..Len(a) : a[i] = b[i] PROVE a \prec c
  <2>1. ASSUME Len(b) < Len(c), \A i \in 1..Len(b) : b[i] = c[i] PROVE a \prec c
    BY <1>0, <1>1, <1>3, <2>1
  <2>2. ASSUME NEW i \in 1..Len(b), i <= Len(c), b[i] < c[i],
               \A j \in 1..(i - 1) : b[j] = c[j]
        PROVE  a \prec c
    <3>1. CASE i <= Len(a)
      <4>1. i \in 1..Len(a) /\ a[i] < c[i] /\ \A j \in 1..(i - 1) : a[j] = c[j]
        BY <1>0, <1>3, <2>2, <3>1
      <4> QED BY <1>2, <2>2, <4>1
    <3>2. CASE Len(a) < i
      <4>1. \A j \in 1..Len(a) : a[j] = c[j] BY <1>0, <1>3, <2>2, <3>2
      <4> QED BY <1>0, <1>1, <2>2, <3>2, <4>1
    <3> QED BY <1>0, <3>1, <3>2
  <2> QED BY <2>1, <2>2, Before
<1>4. ASSUME NEW i \in 1..Len(a), i <= Len(b), a[i] < b[i], \A j \in 1..(i - 1) : a[j] = b[j]
      PROVE  a \prec c
  <2>1. ASSUME Len(b) < Len(c), \A k \in 1..Len(b) : b[k] = c[k] PROVE a \prec c
    <3>1. i <= Len(c) /\ a[i] < c[i] /\ \A j \in 1..(i - 1) : a[j] = c[j]
      BY <1>0, <1>4, <2>1
    <3> QED BY <1>2, <3>1
  <2>2. ASSUME NEW k \in 1..Len(b), k <= Len(c), b[k] < c[k],
               \A j \in 1..(k - 1) : b[j] = c[j]
        PROVE  a \prec c
    <3>1. CASE i <= k
      <4>1. i <= Len(c) /\ a[i] < c[i] /\ \A j \in 1..(i - 1) : a[j] = c[j]
        BY <1>0, <1>4, <2>2, <3>1
      <4> QED BY <1>2, <4>1
    <3>2. CASE k < i
      <4>1. k \in 1..Len(a) /\ a[k] < c[k] /\ \A j \in 1..(k - 1) : a[j] = c[j]
        BY <1>0, <1>4, <2>2, <3>2
      <4> QED BY <1>2, <2>2, <4>1
    <3> QED BY <1>0, <3>1, <3>2
  <2> QED BY <2>1, <2>2, Before
<1> QED BY <1>3, <1>4, Before

LEMMA Total ==
    ASSUME NEW a \in OIDs, NEW b \in OIDs
    PROVE  a \prec b \/ a = b \/ b \prec a
<1> DEFINE D == {i \in 1..Len(a) : i <= Len(b) /\ a[i] # b[i]}
<1>0. /\ Len(a) \in Nat /\ Len(b) \in Nat
      /\ \A i \in 1..Len(a) : a[i] \in Nat
      /\ \A i \in 1..Len(b) : b[i] \in Nat
  BY Elements
<1>1. CASE D = {}
  <2>1. CASE Len(a) < Len(b) BY <1>0, <1>1, <2>1, Before
  <2>2. CASE Len(b) < Len(a) BY <1>0, <1>1, <2>2, Before
  <2>3. CASE Len(a) = Len(b)
    <3>1. \A i \in 1..Len(a) : a[i] = b[i] BY <1>0, <1>1, <2>3
    <3> QED BY <2>3, <3>1, SeqEqual DEF OIDs
  <2> QED BY <1>0, <2>1, <2>2, <2>3
<1>2. CASE D # {}
  <2>0. D \in SUBSET Nat BY <1>0
  <2>1. PICK i \in D : \A j \in D : i <= j
    <3> HIDE DEF D
    <3> QED BY <1>2, <2>0, LeastNat
  <2>2. i \in 1..Len(a) /\ i \in 1..Len(b) /\ \A j \in 1..(i - 1) : a[j] = b[j]
    BY <1>0, <2>1
  <2>3. a[i] < b[i] \/ b[i] < a[i] BY <1>0, <2>1, <2>2
  <2> QED BY <1>0, <2>2, <2>3, Before
<1> QED BY <1>1, <1>2

\* What lies behind an OID outside of its subtree lies behind all of the subtree.
LEMMA BehindSubtree ==
    ASSUME NEW p \in OIDs, NEW x \in OIDs, NEW o \in OIDs,
           IsStrictPrefix(p, x), p \prec o, ~IsPrefix(p, o)
    PROVE  x \prec o
<1>0. /\ Len(p) \in Nat /\ Len(x) \in Nat /\ Len(o) \in Nat
      /\ Len(p) <= Len(x) /\ \A i \in 1..Len(p) : p[i] = x[i]
  BY Prefix, Elements DEF IsStrictPrefix
<1>1. PICK i \in 1..Len(p) : /\ i <= Len(o) /\ p[i] < o[i]
                             /\ \A j \in 1..(i - 1) : p[j] = o[j]
  BY Before, Prefix
<1>2. i \in 1..Len(x) /\ x[i] < o[i] /\ \A j \in 1..(i - 1) : x[j] = o[j]
  BY <1>0, <1>1
<1> QED BY <1>1, <1>2, Before

\* Least is meant for finite sets, and is their least OID then.
LEMMA LeastOf ==
    ASSUME NEW S \in SUBSET OIDs, IsFiniteSet(S), S # {}
    PROVE  Least(S) \in S /\ \A y \in S \ {Least(S)} : Least(S) \prec y
<1> DEFINE Below(x) == {y \in S : y \prec x}
           Ranks == {Cardinality(Below(x)) : x \in S}
<1>1. \A x \in S : IsFiniteSet(Below(x)) /\ Cardinality(Below(x)) \in Nat
  BY FS_Subset, FS_CardinalityType
<1>2. Ranks \in SUBSET Nat /\ Ranks # {} BY <1>1
<1>3. PICK m \in Ranks : \A n \in Ranks : m <= n
  <2> HIDE DEF Ranks
  <2> QED BY <1>2, LeastNat
<1>4. PICK x \in S : m = Cardinality(Below(x)) OBVIOUS
<1>5. ASSUME NEW y \in S \ {x} PROVE x \prec y
  <2> SUFFICES ASSUME y \prec x PROVE FALSE BY <1>5, Total
  <2>1. \A z \in S : z \prec y => z \prec x BY <1>5, Transitive
  <2>2. Below(y) \subseteq Below(x) /\ y \in Below(x) /\ y \notin Below(y)
    BY <1>5, <2>1, Irreflexive
  <2>3. Cardinality(Below(y)) < Cardinality(Below(x))
    <3> HIDE DEF Below
    <3> QED BY <1>1, <1>5, <2>2, FS_Subset
  <2>4. Cardinality(Below(y)) \in Ranks OBVIOUS
  <2>5. m <= Cardinality(Below(y)) BY <1>3, <2>4
  <2>6. Cardinality(Below(y)) \in Nat /\ Cardinality(Below(x)) \in Nat BY <1>1
  <2> HIDE DEF Below, Ranks
  <2> QED BY <1>4, <2>3, <2>5, <2>6
<1>6. \E z \in S : \A y \in S \ {z} : z \prec y BY <1>5
<1> QED BY <1>6 DEF Least

\* There is one least OID.
LEMMA LeastIs ==
    ASSUME NEW S \in SUBSET OIDs, NEW x \in S, \A y \in S \ {x} : x \prec y
    PROVE  Least(S) = x
<1>1. \A z \in S : (\A y \in S \ {z} : z \prec y) => z = x
  <2> SUFFICES ASSUME NEW z \in S, \A y \in S \ {z} : z \prec y, z # x PROVE FALSE
    OBVIOUS
  <2>1. z \prec x /\ x \prec z OBVIOUS
  <2> QED BY <2>1, Transitive, Irreflexive
<1> QED BY <1>1 DEF Least

-----------------------------------------------------------------------------
(* Data files.                                                             *)

\* The instances that the record of line l stands for.
Own(l) == (IF recs[l].kind = "value" THEN {recs[l].oid} ELSE {}) \cup recs[l].inner

LEMMA FileFacts ==
    ASSUME recs \in DataFiles
    PROVE  /\ recs \in Seq(Records) /\ Len(recs) \in Nat /\ DOMAIN recs = 1..Len(recs)
           /\ \A l \in 1..Len(recs) :
                 /\ recs[l].oid \in OIDs /\ recs[l].kind \in Kinds
                 /\ recs[l].inner \in SUBSET OIDs /\ IsFiniteSet(recs[l].inner)
                 /\ recs[l].kind # "subtree" => recs[l].inner = {}
                 /\ \A x \in recs[l].inner :
                       /\ IsStrictPrefix(recs[l].oid, x)
                       /\ l < Len(recs) => x \prec recs[l + 1].oid
           /\ \A k, l \in 1..Len(recs) : k < l => recs[k].oid \prec recs[l].oid
<1>1. IsDataFile(recs) BY DataFileAssumption
<1>2. recs \in Seq(Records) /\ Len(recs) \in Nat /\ DOMAIN recs = 1..Len(recs)
  BY <1>1 DEF IsDataFile
<1>3. \A l \in 1..Len(recs) : recs[l] \in Records BY <1>2
<1> QED BY <1>1, <1>2, <1>3 DEF IsDataFile, Records

\* Instances lie at or behind their record and in front of the next one.
LEMMA OwnFacts ==
    ASSUME recs \in DataFiles
    PROVE  /\ Instances = UNION {Own(l) : l \in 1..Len(recs)}
           /\ Instances \in SUBSET OIDs
           /\ \A l \in 1..Len(recs) : \A y \in Own(l) :
                 /\ y \in OIDs /\ y \in Instances
                 /\ y = recs[l].oid \/ recs[l].oid \prec y
                 /\ y = recs[l].oid => recs[l].kind = "value"
           /\ \A k, l \in 1..Len(recs) : \A y \in Own(k) : k < l => y \prec recs[l].oid
<1> USE FileFacts
<1>1. Instances = UNION {Own(l) : l \in 1..Len(recs)} BY DEF Instances, Own
<1>2. ASSUME NEW l \in 1..Len(recs), NEW y \in Own(l)
      PROVE  /\ y \in OIDs /\ y \in Instances
             /\ y = recs[l].oid \/ recs[l].oid \prec y
             /\ y = recs[l].oid => recs[l].kind = "value"
  <2>1. CASE y \in recs[l].inner
    <3>1. IsStrictPrefix(recs[l].oid, y) BY <2>1
    <3> QED BY <1>1, <2>1, <3>1 DEF \prec, IsStrictPrefix
  <2>2. CASE recs[l].kind = "value" /\ y = recs[l].oid BY <1>1, <2>2
  <2> QED BY <2>1, <2>2 DEF Own
<1>3. ASSUME NEW k \in 1..Len(recs), NEW l \in 1..Len(recs), NEW y \in Own(k), k < l
      PROVE  y \prec recs[l].oid
  <2>1. CASE y \in recs[k].inner
    <3>1. k + 1 \in 1..Len(recs) /\ y \prec recs[k + 1].oid BY <1>3, <2>1
    <3>2. CASE k + 1 = l BY <3>1, <3>2
    <3>3. CASE k + 1 < l
      <4>1. recs[k + 1].oid \prec recs[l].oid BY <3>1, <3>3
      <4> QED BY <1>2, <3>1, <4>1, Transitive
    <3> QED BY <1>3, <3>1, <3>2, <3>3
  <2>2. CASE y = recs[k].oid BY <1>3, <2>2
  <2> QED BY <2>1, <2>2 DEF Own
<1>4. Instances \in SUBSET OIDs BY <1>1, <1>2
<1> QED BY <1>1, <1>2, <1>3, <1>4

-----------------------------------------------------------------------------
(* The inductive invariant.                                                *)

TypeInv ==
    /\ recs \in DataFiles /\ request \in Requests
    /\ rsp_var_binds \in Seq(OIDs \X {"value", "noSuchInstance", "endOfMib"})
    /\ Len(rsp_var_binds) <= Len(request.var_binds)
    /\ pc \in {"lookup", "choose", "evaluate", "done", "aborted", "raised"}
    /\ pc \in {"lookup", "choose", "evaluate", "aborted"} =>
          Len(rsp_var_binds) < Len(request.var_binds)
    /\ line \in 0..Eof /\ pos \in 1..Eof
    /\ exact_match \in BOOLEAN /\ subtree_flag \in BOOLEAN
    /\ broken_records \in Nat

\* No instance in front of line l is behind o, or is o.
NoneBehind(o, l) == \A k \in DOMAIN recs : k < l => \A y \in Own(k) : ~(o \prec y)
NoneAt(o, l) == \A k \in DOMAIN recs : k < l => o \notin Own(k)

\* Line l and those behind it are behind o.
AllBehind(o, l) == \A k \in DOMAIN recs : l <= k => o \prec recs[k].oid

\* The broken records in front of line l that a walk from o has met.
BrokenMet(o, l) == {k \in DOMAIN recs : /\ recs[k].kind = "broken" /\ k < l
                                        /\ o \prec recs[k].oid}

\* Before the next line is read, all that is behind the OID is there or further on;
\* a line that was found is the OID's or the first one behind it.
ChooseInv ==
    pc = "choose" =>
       /\ exact_match /\ nextFlag /\ ~subtree_flag =>
             /\ NoneBehind(oid, pos) /\ AllBehind(oid, pos)
             /\ broken_records <= Cardinality(BrokenMet(oid, pos)) + 1
       /\ exact_match /\ ~(nextFlag /\ ~subtree_flag) =>
             /\ IsLine(line) /\ recs[line].oid = oid /\ pos = line + 1 /\ ~IsBad(line)
             /\ subtree_flag = IsSubtree(line) /\ broken_records = 0
       /\ ~exact_match =>
             /\ Finds(line) /\ pos = Behind(line) /\ broken_records = 0
             /\ NotIndexed(oid)

\* The record to be evaluated is the OID's, serves it, or is the first one behind it;
\* it is read again only in front of the first evaluation. The end of the file need
\* not be where the OID belongs, if the search may give up.
EvaluateInv ==
    pc = "evaluate" =>
       /\ line = 0 => lost # {}
       /\ line # 0 /\ (line = Eof => ~MayGiveUp(oid)) =>
             /\ nextFlag => NoneBehind(oid, line)
             /\ ~nextFlag => NoneAt(oid, line)
             /\ AllBehind(oid, line + 1)
       /\ IsLine(line) =>
             /\ (nextFlag \/ ~exact_match) /\ ~IsSubtree(line) => oid \prec recs[line].oid
             /\ ~nextFlag /\ exact_match => recs[line].oid = oid
             /\ ~exact_match /\ ~IsSubtree(line) => recs[line].oid # oid
             /\ pos = line + 1 \/ (pos = line /\ oid \prec recs[line].oid /\ broken_records = 0)
             /\ broken_records <= Cardinality(BrokenMet(oid, line)) + 1

IInv == /\ TypeInv /\ ChooseInv /\ EvaluateInv
        /\ NeverWrong /\ Complete /\ DroppedForCause

LEMMA Requested ==
    ASSUME TypeInv
    PROVE  /\ Len(request.var_binds) \in Nat /\ Len(rsp_var_binds) \in Nat
           /\ Len(rsp_var_binds) < Len(request.var_binds) => oid \in OIDs
           /\ \A i \in 1..Len(request.var_binds) : request.var_binds[i] \in OIDs
           /\ request.flag \in {"GET", "NEXT", "SET"} /\ MaxBrokenRecords \in Nat
BY DataFileAssumption DEF TypeInv, oid

LEMMA MetCount ==
    ASSUME recs \in DataFiles, NEW o, NEW l
    PROVE  /\ IsFiniteSet(BrokenMet(o, l)) /\ Cardinality(BrokenMet(o, l)) \in Nat
<1>1. IsFiniteSet(DOMAIN recs) BY FileFacts, FS_Interval
<1> QED BY <1>1, FS_Subset, FS_CardinalityType DEF BrokenMet

LEMMA InitInv == Init => IInv
<1> SUFFICES ASSUME Init PROVE IInv
    OBVIOUS
<1> USE DEF Init
<1>1. recs \in DataFiles /\ Len(recs) \in Nat BY FileFacts
<1>2. request \in Requests /\ request.var_binds \in Seq(OIDs) BY DataFileAssumption
<1>3. rsp_var_binds \in Seq(OIDs \X {"value", "noSuchInstance", "endOfMib"}) /\ Len(rsp_var_binds) = 0
  OBVIOUS
<1>4. request.var_binds # <<>> => Len(request.var_binds) > 0
  BY <1>2, EmptySeq
<1>5. Len(request.var_binds) \in Nat BY <1>2
<1>6. TypeInv
  <2>1. /\ rsp_var_binds \in Seq(OIDs \X {"value", "noSuchInstance", "endOfMib"})
        /\ Len(rsp_var_binds) <= Len(request.var_binds)
    BY <1>3, <1>5
  <2>2. /\ pc \in {"lookup", "choose", "evaluate", "done", "aborted", "raised"}
        /\ pc \in {"lookup", "choose", "evaluate", "aborted"} =>
              Len(rsp_var_binds) < Len(request.var_binds)
    BY <1>3, <1>4
  <2>3. line \in 0..Eof /\ pos \in 1..Eof BY <1>1 DEF Eof
  <2>4. exact_match \in BOOLEAN /\ subtree_flag \in BOOLEAN BY Zenon
  <2> QED BY <1>1, <1>2, <2>1, <2>2, <2>3, <2>4 DEF TypeInv
<1>7. DOMAIN rsp_var_binds = {} BY <1>3
<1> QED BY <1>6, <1>7 DEF IInv, ChooseInv, EvaluateInv, NeverWrong, Complete, DroppedForCause, Answered

\* An answer that is right, or an error where one is allowed, keeps the promises.
LEMMA AnsweredInv ==
    ASSUME IInv, pc = "evaluate", NEW o, NEW v, Answer(o, v),
           <<o, v>> \in OIDs \X {"value", "noSuchInstance", "endOfMib"},
           <<o, v>> \in {Expected(oid), <<oid, error_status>>},
           lost = {} /\ Cardinality(BrokenAfter(oid)) < MaxBrokenRecords =>
              <<o, v>> = Expected(oid) \/ (MayGiveUp(oid) /\ <<o, v>> = <<oid, error_status>>)
    PROVE  IInv'
<1> DEFINE n == Len(rsp_var_binds)
           q == rsp_var_binds
<1>1. /\ q' = Append(q, <<o, v>>)
      /\ pc' = IF Len(q') = Len(request.var_binds) THEN "done" ELSE "lookup"
      /\ UNCHANGED <<recs, lost, trailing, request, line, pos, exact_match, subtree_flag, broken_records>>
  BY DEF Answer
<1>2. q \in Seq(OIDs \X {"value", "noSuchInstance", "endOfMib"}) /\ n < Len(request.var_binds)
      /\ n \in Nat /\ Len(request.var_binds) \in Nat
  BY Requested DEF IInv, TypeInv
<1>3. /\ q' \in Seq(OIDs \X {"value", "noSuchInstance", "endOfMib"}) /\ Len(q') = n + 1
      /\ DOMAIN q' = 1..(n + 1) /\ DOMAIN q = 1..n
      /\ q'[n + 1] = <<o, v>> /\ \A i \in 1..n : q'[i] = q[i]
  BY <1>1, <1>2, AppendProperties
<1>4. pc' \in {"done", "lookup"} BY <1>1
<1>5. TypeInv'
  BY <1>1, <1>2, <1>3 DEF IInv, TypeInv, Eof
<1>6. ChooseInv' /\ EvaluateInv' /\ DroppedForCause'
  BY <1>4 DEF ChooseInv, EvaluateInv, DroppedForCause
<1>7. /\ error_status' = error_status
      /\ \A x : Expected(x)' = Expected(x)
      /\ \A x : BrokenAfter(x)' = BrokenAfter(x)
      /\ \A x : MayGiveUp(x)' = MayGiveUp(x)
  BY <1>1 DEF error_status, nextFlag, setFlag, Expected, After, Instances, BrokenAfter,
              MayGiveUp, NotIndexed, Indexed, IsBad, IsLine
<1>8. oid = request.var_binds[n + 1] BY DEF oid
<1>9. NeverWrong'
  <2> SUFFICES ASSUME NEW i \in 1..(n + 1)
               PROVE  q'[i] \in {Expected(request.var_binds[i]),
                                 <<request.var_binds[i], error_status>>}
    BY <1>1, <1>3, <1>7 DEF NeverWrong, Answered
  <2>1. CASE i = n + 1 BY <1>3, <1>8, <2>1
  <2>2. CASE i # n + 1
    <3>1. i \in Answered BY <1>2, <1>3, <2>2 DEF Answered
    <3> QED BY <1>3, <3>1 DEF IInv, NeverWrong, Answered
  <2> QED BY <2>1, <2>2
<1>10. Complete'
  <2> SUFFICES ASSUME NEW i \in 1..(n + 1), lost = {},
                      Cardinality(BrokenAfter(request.var_binds[i])) < MaxBrokenRecords
               PROVE  \/ q'[i] = Expected(request.var_binds[i])
                      \/ /\ MayGiveUp(request.var_binds[i])
                         /\ q'[i] = <<request.var_binds[i], error_status>>
    BY <1>1, <1>3, <1>7 DEF Complete, Answered
  <2>1. CASE i = n + 1 BY <1>3, <1>8, <2>1
  <2>2. CASE i # n + 1
    <3>1. i \in Answered BY <1>2, <1>3, <2>2 DEF Answered
    <3> QED BY <1>3, <3>1 DEF IInv, Complete, Answered
  <2> QED BY <2>1, <2>2
<1> QED BY <1>5, <1>6, <1>9, <1>10 DEF IInv

\* The steps that do not answer: what they owe the invariant.
LEMMA Frame ==
    ASSUME IInv, UNCHANGED <<recs, lost, trailing, request, rsp_var_binds>>
    PROVE  /\ NeverWrong' /\ Complete' /\ oid' = oid /\ nextFlag' = nextFlag
           /\ After(oid)' = After(oid) /\ Silent' = Silent
           /\ Eof' = Eof /\ MayGiveUp(oid)' = MayGiveUp(oid)
           /\ NotIndexed(oid)' = NotIndexed(oid)
<1>1. /\ error_status' = error_status
      /\ \A x : Expected(x)' = Expected(x)
      /\ \A x : BrokenAfter(x)' = BrokenAfter(x)
      /\ \A x : MayGiveUp(x)' = MayGiveUp(x) /\ NotIndexed(x)' = NotIndexed(x)
  BY DEF error_status, nextFlag, setFlag, Expected, After, Instances, BrokenAfter,
         MayGiveUp, NotIndexed, Indexed, IsBad, IsLine
<1>2. NeverWrong'
  <2> SUFFICES ASSUME NEW i \in Answered
               PROVE  rsp_var_binds[i] \in {Expected(request.var_binds[i]),
                                            <<request.var_binds[i], error_status>>}
    BY <1>1 DEF NeverWrong, Answered
  <2> QED BY DEF IInv, NeverWrong
<1>3. Complete'
  <2> SUFFICES ASSUME NEW i \in Answered, lost = {},
                      Cardinality(BrokenAfter(request.var_binds[i])) < MaxBrokenRecords
               PROVE  \/ rsp_var_binds[i] = Expected(request.var_binds[i])
                      \/ /\ MayGiveUp(request.var_binds[i])
                         /\ rsp_var_binds[i] = <<request.var_binds[i], error_status>>
    BY <1>1 DEF Complete, Answered
  <2> QED BY DEF IInv, Complete
<1>4. oid' = oid BY DEF oid
<1> QED BY <1>1, <1>2, <1>3, <1>4 DEF oid, nextFlag, After, Instances, Silent, Eof

LEMMA ChosenInv ==
    ASSUME IInv, UNCHANGED <<recs, lost, trailing, request, rsp_var_binds>>, TypeInv', pc' = "choose",
           exact_match' /\ nextFlag /\ ~subtree_flag' =>
              /\ NoneBehind(oid, pos') /\ AllBehind(oid, pos')
              /\ broken_records' <= Cardinality(BrokenMet(oid, pos')) + 1,
           exact_match' /\ ~(nextFlag /\ ~subtree_flag') =>
              /\ IsLine(line') /\ recs[line'].oid = oid /\ pos' = line' + 1 /\ ~IsBad(line')
              /\ subtree_flag' = IsSubtree(line') /\ broken_records' = 0,
           ~exact_match' =>
              /\ Finds(line') /\ pos' = Behind(line') /\ broken_records' = 0
              /\ NotIndexed(oid)
    PROVE  IInv'
<1>1. /\ oid' = oid /\ nextFlag' = nextFlag /\ NeverWrong' /\ Complete' /\ Eof' = Eof
      /\ MayGiveUp(oid)' = MayGiveUp(oid) /\ NotIndexed(oid)' = NotIndexed(oid)
  BY Frame
<1>2. BrokenMet(oid, pos)' = BrokenMet(oid, pos') BY <1>1 DEF BrokenMet
<1>3. (exact_match /\ nextFlag /\ ~subtree_flag =>
         /\ NoneBehind(oid, pos) /\ AllBehind(oid, pos)
         /\ broken_records <= Cardinality(BrokenMet(oid, pos)) + 1)'
  BY <1>1, <1>2 DEF NoneBehind, AllBehind, Own
<1>4. (exact_match /\ ~(nextFlag /\ ~subtree_flag) =>
         /\ IsLine(line) /\ recs[line].oid = oid /\ pos = line + 1 /\ ~IsBad(line)
         /\ subtree_flag = IsSubtree(line) /\ broken_records = 0)'
  BY <1>1 DEF IsLine, IsBad, IsSubtree
<1>5. (~exact_match =>
         /\ Finds(line) /\ pos = Behind(line) /\ broken_records = 0
         /\ NotIndexed(oid))'
  BY <1>1 DEF Finds, RoundsUp, Behind, IsLine, IsBad, Eof
<1>6. ChooseInv' BY <1>3, <1>4, <1>5 DEF ChooseInv
<1> QED BY <1>1, <1>6 DEF IInv, EvaluateInv, DroppedForCause

LEMMA EvaluatedInv ==
    ASSUME IInv, UNCHANGED <<recs, lost, trailing, request, rsp_var_binds>>, TypeInv', pc' = "evaluate",
           line' = 0 => lost # {},
           line' # 0 /\ (line' = Eof => ~MayGiveUp(oid)) =>
              /\ nextFlag => NoneBehind(oid, line')
              /\ ~nextFlag => NoneAt(oid, line')
              /\ AllBehind(oid, line' + 1),
           IsLine(line') =>
              /\ (nextFlag \/ ~exact_match') /\ ~IsSubtree(line') => oid \prec recs[line'].oid
              /\ ~nextFlag /\ exact_match' => recs[line'].oid = oid
              /\ ~exact_match' /\ ~IsSubtree(line') => recs[line'].oid # oid
              /\ pos' = line' + 1 \/ (pos' = line' /\ oid \prec recs[line'].oid
                                                  /\ broken_records' = 0)
              /\ broken_records' <= Cardinality(BrokenMet(oid, line')) + 1
    PROVE  IInv'
<1>1. /\ oid' = oid /\ nextFlag' = nextFlag /\ NeverWrong' /\ Complete' /\ Eof' = Eof
      /\ MayGiveUp(oid)' = MayGiveUp(oid) /\ NotIndexed(oid)' = NotIndexed(oid)
  BY Frame
<1>2. BrokenMet(oid, line)' = BrokenMet(oid, line') BY <1>1 DEF BrokenMet
<1>3. (line # 0 /\ (line = Eof => ~MayGiveUp(oid)) =>
         /\ nextFlag => NoneBehind(oid, line)
         /\ ~nextFlag => NoneAt(oid, line)
         /\ AllBehind(oid, line + 1))'
  BY <1>1 DEF NoneBehind, NoneAt, AllBehind, Own
<1>4. (IsLine(line) =>
         /\ (nextFlag \/ ~exact_match) /\ ~IsSubtree(line) => oid \prec recs[line].oid
         /\ ~nextFlag /\ exact_match => recs[line].oid = oid
         /\ ~exact_match /\ ~IsSubtree(line) => recs[line].oid # oid
         /\ pos = line + 1 \/ (pos = line /\ oid \prec recs[line].oid /\ broken_records = 0)
         /\ broken_records <= Cardinality(BrokenMet(oid, line)) + 1)'
  BY <1>1, <1>2 DEF IsLine, IsSubtree
<1>5. EvaluateInv' BY <1>3, <1>4 DEF EvaluateInv
<1> QED BY <1>1, <1>5 DEF IInv, ChooseInv, DroppedForCause

-----------------------------------------------------------------------------
(* The steps.                                                              *)

\* An instance in front of a line is in front of the OID of that line, and so is
\* all that lies in front of an OID a line has.
LEMMA Upto ==
    ASSUME recs \in DataFiles, NEW o \in OIDs, NEW l \in 1..Len(recs), recs[l].oid = o
    PROVE  NoneAt(o, l) /\ NoneBehind(o, l + 1 - (IF IsSubtree(l) THEN 1 ELSE 0))
           /\ AllBehind(o, l + 1)
<1> USE FileFacts
<1>1. ASSUME NEW k \in 1..Len(recs), NEW y \in Own(k), k < l PROVE y # o /\ ~(o \prec y)
  <2>1. y \in OIDs /\ y \prec o BY <1>1, OwnFacts
  <2> QED BY <2>1, Transitive, Irreflexive
<1>2. ASSUME ~IsSubtree(l), NEW y \in Own(l) PROVE ~(o \prec y)
  <2>1. y = o BY <1>2 DEF Own, IsSubtree
  <2> QED BY <2>1, Irreflexive
<1> QED BY <1>1, <1>2 DEF NoneAt, NoneBehind, AllBehind

LEMMA LookupIndexInv == IInv /\ LookupIndex => IInv'
<1> SUFFICES ASSUME IInv, LookupIndex PROVE IInv'
    OBVIOUS
<1>1. PICK l \in Indexed : /\ recs[l].oid = oid /\ line' = l /\ pos' = l + 1
                           /\ subtree_flag' = IsSubtree(l)
  BY DEF LookupIndex
<1>2. /\ pc = "lookup" /\ pc' = "choose" /\ exact_match' = TRUE /\ broken_records' = 0
      /\ UNCHANGED <<recs, lost, trailing, request, rsp_var_binds>>
  BY DEF LookupIndex
<1>3. recs \in DataFiles /\ l \in 1..Len(recs) /\ ~IsBad(l) /\ oid \in OIDs /\ IsLine(l)
  BY <1>1, <1>2, FileFacts, Requested DEF IInv, TypeInv, Indexed, IsLine
<1>4. TypeInv'
  <2>1. subtree_flag' \in BOOLEAN /\ exact_match' \in BOOLEAN
    BY <1>1, <1>2, Zenon DEF IsSubtree
  <2>2. line' \in 0..Eof' /\ pos' \in 1..Eof' BY <1>1, <1>2, <1>3, FileFacts DEF Eof
  <2> QED BY <1>2, <2>1, <2>2 DEF IInv, TypeInv
<1>5. ~IsSubtree(l) => NoneBehind(oid, l + 1) BY <1>1, <1>3, Upto
<1>6. AllBehind(oid, l + 1) BY <1>1, <1>3, Upto
<1>7. 0 <= Cardinality(BrokenMet(oid, l + 1)) + 1 BY <1>3, MetCount
<1> QED BY <1>1, <1>2, <1>3, <1>4, <1>5, <1>6, <1>7, ChosenInv

LEMMA SearchInv == IInv /\ Search => IInv'
<1> SUFFICES ASSUME IInv, Search PROVE IInv'
    OBVIOUS
<1>1. PICK l \in 1..Eof : Finds(l) /\ line' = l /\ pos' = Behind(l)
  BY DEF Search
<1>2. /\ pc = "lookup" /\ pc' = "choose" /\ exact_match' = FALSE /\ broken_records' = 0
      /\ subtree_flag' = FALSE /\ NotIndexed(oid)
      /\ UNCHANGED <<recs, lost, trailing, request, rsp_var_binds>>
  BY DEF Search
<1>3. line' \in 0..Eof' /\ pos' \in 1..Eof'
  BY <1>1, <1>2, FileFacts DEF IInv, TypeInv, Eof, Behind
<1>4. TypeInv' BY <1>2, <1>3 DEF IInv, TypeInv
<1> QED BY <1>1, <1>2, <1>4, ChosenInv

LEMMA RaiseInv == IInv /\ Raise => IInv'
<1> SUFFICES ASSUME IInv, Raise PROVE IInv'
    OBVIOUS
<1>1. /\ pc' = "raised"
      /\ UNCHANGED <<recs, lost, trailing, request, rsp_var_binds, line, pos, exact_match,
                     subtree_flag, broken_records>>
  BY DEF Raise
<1>2. TypeInv' BY <1>1 DEF IInv, TypeInv, Eof
<1>3. NeverWrong' /\ Complete' BY <1>1, Frame
<1> QED BY <1>1, <1>2, <1>3 DEF IInv, ChooseInv, EvaluateInv, DroppedForCause

LEMMA ChooseMatchedInv == IInv /\ ChooseMatched => IInv'
<1> SUFFICES ASSUME IInv, ChooseMatched PROVE IInv'
    OBVIOUS
<1>1. /\ pc = "choose" /\ exact_match /\ ~(nextFlag /\ ~subtree_flag) /\ pc' = "evaluate"
      /\ UNCHANGED <<recs, lost, trailing, request, rsp_var_binds, line, pos, exact_match,
                     subtree_flag, broken_records>>
  BY DEF ChooseMatched
<1>2. /\ IsLine(line) /\ recs[line].oid = oid /\ pos = line + 1
      /\ subtree_flag = IsSubtree(line) /\ broken_records = 0
  BY <1>1 DEF IInv, ChooseInv
<1>3. recs \in DataFiles /\ line \in 1..Len(recs) /\ oid \in OIDs
  BY <1>1, <1>2, FileFacts, Requested DEF IInv, TypeInv, IsLine
<1>4. TypeInv' BY <1>1 DEF IInv, TypeInv, Eof
<1>5. nextFlag => IsSubtree(line) BY <1>1, <1>2
<1>6. /\ nextFlag => NoneBehind(oid, line)
      /\ NoneAt(oid, line) /\ AllBehind(oid, line + 1)
  BY <1>2, <1>3, <1>5, Upto
<1>7. 0 <= Cardinality(BrokenMet(oid, line)) + 1 BY <1>3, MetCount
<1> QED BY <1>1, <1>2, <1>3, <1>4, <1>5, <1>6, <1>7, EvaluatedInv

LEMMA ChooseNextInv == IInv /\ ChooseNext => IInv'
<1> SUFFICES ASSUME IInv, ChooseNext PROVE IInv'
    OBVIOUS
<1>1. /\ pc = "choose" /\ exact_match /\ nextFlag /\ ~subtree_flag /\ pc' = "evaluate"
      /\ line' = IF pos \in lost \ {Eof} THEN 0 ELSE pos
      /\ subtree_flag' = IF IsLine(line') THEN IsSubtree(line') ELSE subtree_flag
      /\ pos' = Behind(pos)
      /\ UNCHANGED <<recs, lost, trailing, request, rsp_var_binds, exact_match, broken_records>>
  BY DEF ChooseNext, Broken
<1>2. /\ NoneBehind(oid, pos) /\ AllBehind(oid, pos)
      /\ broken_records <= Cardinality(BrokenMet(oid, pos)) + 1
  BY <1>1 DEF IInv, ChooseInv
<1>3. recs \in DataFiles /\ DOMAIN recs = 1..Len(recs) /\ Len(recs) \in Nat /\ pos \in 1..Eof
  BY FileFacts DEF IInv, TypeInv
<1>4. TypeInv'
  <2>1. subtree_flag' \in BOOLEAN /\ exact_match' \in BOOLEAN
    BY <1>1, Zenon DEF IsSubtree, IInv, TypeInv
  <2>2. line' \in 0..Eof' /\ pos' \in 1..Eof' BY <1>1, <1>3 DEF Eof, Behind
  <2> QED BY <1>1, <2>1, <2>2 DEF IInv, TypeInv
<1>5. AllBehind(oid, pos + 1) /\ (IsLine(pos) => oid \prec recs[pos].oid /\ pos' = pos + 1)
  BY <1>1, <1>2, <1>3 DEF AllBehind, IsLine, Behind, Eof
<1>6. ~IsLine(0) BY <1>3 DEF IsLine
<1>7. CASE pos \in lost \ {Eof}
  <2>1. line' = 0 /\ lost # {} BY <1>1, <1>7
  <2> QED BY <1>1, <1>4, <1>6, <2>1, EvaluatedInv
<1>8. CASE pos \notin lost \ {Eof}
  <2>1. line' = pos /\ pos # 0 BY <1>1, <1>3, <1>8 DEF Eof
  <2> QED BY <1>1, <1>2, <1>4, <1>5, <2>1, EvaluatedInv
<1> QED BY <1>7, <1>8

\* What the search has established where it rounded up and the index knows the line.
LEMMA Found ==
    ASSUME IInv, pc = "choose", ~exact_match, line \notin lost, RoundsUp(line)
    PROVE  /\ line \in 1..Eof /\ AllBehind(oid, line)
           /\ line > 1 => /\ line - 1 \in 1..Len(recs) /\ recs[line - 1].oid \prec oid
                          /\ NoneBehind(oid, line - 1) /\ NoneAt(oid, line - 1)
<1>1. /\ RoundsUp(line) /\ \A l \in Indexed : recs[l].oid # oid
  BY DEF IInv, ChooseInv, NotIndexed
<1>2. recs \in DataFiles /\ oid \in OIDs BY Requested DEF IInv, TypeInv
<1>3. /\ DOMAIN recs = 1..Len(recs) /\ Len(recs) \in Nat
      /\ \A k \in 1..Len(recs) : recs[k].oid \in OIDs
      /\ \A k, l \in 1..Len(recs) : k < l => recs[k].oid \prec recs[l].oid
  BY <1>2, FileFacts
<1>4. line \in 1..Eof BY <1>1 DEF RoundsUp
<1>5. IsLine(line) => line \in Indexed BY <1>1 DEF RoundsUp, Indexed, IsLine
<1>6. IsLine(line) => oid \prec recs[line].oid
  <2> SUFFICES ASSUME IsLine(line) PROVE oid \prec recs[line].oid
      OBVIOUS
  <2>1. recs[line].oid # oid BY <1>1, <1>5
  <2>2. line \in 1..Len(recs) /\ ~(line < line) BY <1>3, <1>4 DEF IsLine
  <2>3. ~(recs[line].oid \prec oid) BY <1>1, <2>2, <1>3 DEF RoundsUp
  <2> QED BY <1>2, <1>3, <2>1, <2>2, <2>3, Total
<1>7. ASSUME NEW k \in 1..Len(recs), line <= k PROVE oid \prec recs[k].oid
  <2>1. line \in 1..Len(recs) /\ oid \prec recs[line].oid BY <1>3, <1>4, <1>6, <1>7 DEF IsLine
  <2>2. CASE k = line BY <2>1, <2>2
  <2>3. CASE k # line
    <3>1. recs[line].oid \prec recs[k].oid BY <1>3, <1>7, <2>1, <2>3
    <3> QED BY <1>2, <1>3, <2>1, <3>1, Transitive
  <2> QED BY <2>2, <2>3
<1>8. ASSUME line > 1
      PROVE  /\ line - 1 \in 1..Len(recs) /\ recs[line - 1].oid \prec oid
             /\ NoneBehind(oid, line - 1) /\ NoneAt(oid, line - 1)
  <2>1. line - 1 \in 1..Len(recs) /\ line - 1 < line BY <1>3, <1>4, <1>8 DEF Eof
  <2>2. ~IsBad(line - 1) BY <1>1, <1>5 DEF RoundsUp
  <2>3. recs[line - 1].oid \prec oid BY <1>1, <1>3, <2>1, <2>2 DEF RoundsUp
  <2>4. ASSUME NEW k \in 1..Len(recs), NEW y \in Own(k), k < line - 1
        PROVE  ~(oid \prec y) /\ y # oid
    <3>1. y \in OIDs /\ y \prec recs[line - 1].oid BY <1>2, <2>1, <2>4, OwnFacts
    <3>2. y \prec oid BY <1>2, <1>3, <2>1, <2>3, <3>1, Transitive
    <3> QED BY <1>2, <3>1, <3>2, Transitive, Irreflexive
  <2> QED BY <1>3, <2>1, <2>3, <2>4 DEF NoneBehind, NoneAt
<1> QED BY <1>3, <1>4, <1>7, <1>8 DEF AllBehind

LEMMA ChooseFoundInv == IInv /\ ChooseFound => IInv'
<1> SUFFICES ASSUME IInv, ChooseFound PROVE IInv'
    OBVIOUS
<1>1. /\ pc = "choose" /\ ~exact_match /\ pc' = "evaluate"
      /\ UNCHANGED <<recs, lost, trailing, request, rsp_var_binds, exact_match, broken_records>>
  BY DEF ChooseFound
<1>2. pos = Behind(line) /\ broken_records = 0
  BY <1>1 DEF IInv, ChooseInv
<1>3. /\ recs \in DataFiles /\ DOMAIN recs = 1..Len(recs) /\ Len(recs) \in Nat /\ oid \in OIDs
      /\ \A k \in 1..Len(recs) : recs[k].oid \in OIDs
      /\ line \in 0..Eof /\ pos \in 1..Eof /\ subtree_flag \in BOOLEAN
  BY <1>1, FileFacts, Requested DEF IInv, TypeInv
<1>4. ASSUME line' \in 0..Eof, pos' \in 1..Eof, subtree_flag' \in BOOLEAN PROVE TypeInv'
  BY <1>1, <1>4 DEF IInv, TypeInv, Eof
<1>5. \A l : 0 <= Cardinality(BrokenMet(oid, l)) + 1 BY <1>3, MetCount
<1>6. CASE line \in lost /\ line' = Broken /\ UNCHANGED <<pos, subtree_flag>>
  <2>1. line' = 0 /\ ~IsLine(line') /\ lost # {} BY <1>3, <1>6 DEF Broken, IsLine
  <2>2. TypeInv' BY <1>3, <1>4, <1>6, <2>1 DEF Eof
  <2> QED BY <1>1, <2>1, <2>2, EvaluatedInv
<1>7. ASSUME line \notin lost, RoundsUp(line), line' = line, pos' \in {line, Behind(line)},
             UNCHANGED subtree_flag, NoneBehind(oid, line), NoneAt(oid, line)
      PROVE  IInv'
  <2>1. line \in 1..Eof /\ AllBehind(oid, line) BY <1>1, <1>7, Found
  <2>2. pos' \in 1..Eof BY <1>2, <1>3, <1>7, <2>1
  <2>3. TypeInv' BY <1>3, <1>4, <1>7, <2>2
  <2>4. AllBehind(oid, line + 1) BY <1>3, <2>1 DEF AllBehind, Eof
  <2>5. IsLine(line) => /\ oid \prec recs[line].oid /\ recs[line].oid # oid
                        /\ pos' \in {line, line + 1}
    <3> SUFFICES ASSUME IsLine(line)
                 PROVE  /\ oid \prec recs[line].oid /\ recs[line].oid # oid
                        /\ pos' \in {line, line + 1}
        OBVIOUS
    <3>1. line \in 1..Len(recs) BY <1>3 DEF IsLine
    <3>2. oid \prec recs[line].oid BY <1>3, <2>1, <3>1 DEF AllBehind
    <3>3. pos' \in {line, line + 1} BY <1>3, <1>7, <3>1 DEF Behind, Eof
    <3> QED BY <1>3, <3>2, <3>3, Irreflexive
  <2> QED BY <1>1, <1>2, <1>5, <1>7, <2>1, <2>3, <2>4, <2>5, EvaluatedInv
<1>8. CASE /\ line \notin lost /\ RoundsUp(line) /\ ~PrevServesSubtree
           /\ UNCHANGED <<line, pos, subtree_flag>>
  <2>1. ASSUME NEW k \in 1..Len(recs), k < line, NEW y \in Own(k)
        PROVE  ~(oid \prec y) /\ y # oid
    <3>1. /\ line > 1 /\ line - 1 \in 1..Len(recs) /\ recs[line - 1].oid \prec oid
          /\ NoneBehind(oid, line - 1) /\ NoneAt(oid, line - 1)
      BY <1>1, <1>3, <1>8, <2>1, Found
    <3>2. CASE k < line - 1 BY <1>3, <2>1, <3>1, <3>2 DEF NoneBehind, NoneAt
    <3>3. CASE k = line - 1
      <4>1. ~IsSubtree(k) BY <1>8, <3>1, <3>3 DEF PrevServesSubtree
      <4>2. y = recs[k].oid BY <1>3, <2>1, <4>1, FileFacts DEF Own, IsSubtree
      <4> QED BY <1>3, <2>1, <3>1, <3>3, <4>2, Transitive, Irreflexive
    <3> QED BY <1>3, <2>1, <3>1, <3>2, <3>3
  <2>2. NoneBehind(oid, line) /\ NoneAt(oid, line) BY <1>3, <2>1 DEF NoneBehind, NoneAt
  <2> QED BY <1>2, <1>7, <1>8, <2>2
<1>9. ASSUME line \notin lost, RoundsUp(line), PrevServesSubtree
      PROVE  /\ line > 1 /\ line - 1 \in 1..Len(recs) /\ recs[line - 1].oid \prec oid
             /\ NoneBehind(oid, line - 1) /\ NoneAt(oid, line - 1) /\ AllBehind(oid, line)
             /\ IsSubtree(line - 1)
  BY <1>1, <1>9, Found DEF PrevServesSubtree
<1>10. CASE /\ line \notin lost /\ RoundsUp(line) /\ PrevServesSubtree /\ pos' = line
            /\ IsPrefix(recs[line - 1].oid, oid) /\ line' = line - 1 /\ subtree_flag' = TRUE
  <2>1. TypeInv' BY <1>3, <1>4, <1>9, <1>10 DEF Eof
  <2>2. recs[line - 1].oid # oid BY <1>3, <1>9, <1>10, Irreflexive
  <2>3. line' # 0 /\ line' + 1 = line BY <1>3, <1>9, <1>10
  <2> QED BY <1>1, <1>2, <1>5, <1>9, <1>10, <2>1, <2>2, <2>3, EvaluatedInv
<1>11. CASE /\ line \notin lost /\ RoundsUp(line) /\ PrevServesSubtree /\ pos' = line
            /\ ~IsPrefix(recs[line - 1].oid, oid) /\ UNCHANGED <<line, subtree_flag>>
  <2>1. ASSUME NEW k \in 1..Len(recs), k < line, NEW y \in Own(k)
        PROVE  ~(oid \prec y) /\ y # oid
    <3>1. CASE k < line - 1 BY <1>3, <1>9, <1>11, <2>1, <3>1 DEF NoneBehind, NoneAt
    <3>2. CASE k = line - 1
      <4>1. y \in recs[k].inner /\ y \in OIDs
        BY <1>3, <1>9, <1>11, <2>1, <3>2, OwnFacts DEF Own, IsSubtree
      <4>2. IsStrictPrefix(recs[k].oid, y) BY <1>3, <2>1, <4>1, FileFacts
      <4>3. y \prec oid BY <1>3, <1>9, <1>11, <2>1, <3>2, <4>1, <4>2, BehindSubtree
      <4> QED BY <1>3, <4>1, <4>3, Transitive, Irreflexive
    <3> QED BY <1>3, <2>1, <3>1, <3>2
  <2>2. NoneBehind(oid, line) /\ NoneAt(oid, line) BY <1>3, <2>1 DEF NoneBehind, NoneAt
  <2> QED BY <1>7, <1>11, <2>2
<1>12. ASSUME ~RoundsUp(line)
       PROVE  line = Eof /\ line \notin Broken..Len(recs) /\ MayGiveUp(oid)
  <2>1. Finds(line) /\ NotIndexed(oid) BY <1>1 DEF IInv, ChooseInv
  <2>2. trailing /\ line = Eof BY <1>12, <2>1 DEF Finds
  <2> QED BY <1>3, <2>1, <2>2 DEF MayGiveUp, Eof
<1>13. CASE ~RoundsUp(line) /\ line' = line /\ pos' \in {line, pos} /\ UNCHANGED subtree_flag
  <2>1. line' = Eof /\ line' # 0 /\ ~IsLine(line') /\ pos' \in 1..Eof /\ MayGiveUp(oid)
    BY <1>3, <1>12, <1>13 DEF IsLine, Eof
  <2>2. TypeInv' BY <1>3, <1>4, <1>13, <2>1
  <2> QED BY <1>1, <2>1, <2>2, EvaluatedInv
<1>14. CASE /\ ~RoundsUp(line) /\ PrevServesSubtree /\ pos' = line
            /\ IsPrefix(recs[line - 1].oid, oid) /\ line' = line - 1 /\ subtree_flag' = TRUE
  <2>1. line' \in 1..Len(recs) /\ line' + 1 = Eof /\ pos' = line' + 1 /\ IsSubtree(line')
    BY <1>3, <1>12, <1>14 DEF PrevServesSubtree, Eof
  <2>2. TypeInv' BY <1>3, <1>4, <1>14, <2>1 DEF Eof
  <2>3. recs[line'].oid = oid \/ recs[line'].oid \prec oid
    BY <1>14 DEF \prec, IsStrictPrefix
  <2>4. ASSUME NEW k \in 1..Len(recs), NEW y \in Own(k), k < line'
        PROVE  ~(oid \prec y) /\ y # oid
    <3>1. y \in OIDs /\ y \prec recs[line'].oid BY <1>3, <2>1, <2>4, OwnFacts
    <3>2. y \prec oid BY <1>3, <2>1, <2>3, <3>1, Transitive
    <3> QED BY <1>3, <3>1, <3>2, Transitive, Irreflexive
  <2>5. NoneBehind(oid, line') /\ NoneAt(oid, line') BY <1>3, <2>4 DEF NoneBehind, NoneAt
  <2>6. AllBehind(oid, line' + 1) BY <1>3, <2>1 DEF AllBehind, Eof
  <2> QED BY <1>1, <1>2, <1>5, <2>1, <2>2, <2>5, <2>6, EvaluatedInv
<1>15. CASE RoundsUp(line) BY <1>6, <1>8, <1>10, <1>11, <1>15 DEF ChooseFound
<1>16. CASE ~RoundsUp(line) BY <1>6, <1>13, <1>14, <1>16 DEF ChooseFound
<1> QED BY <1>15, <1>16

\* Where a walk stands: what is behind the OID is of the record at hand, or belongs to
\* a line behind it and is behind all that is the record's.
LEMMA Further ==
    ASSUME IInv, pc = "evaluate", IsLine(line), nextFlag
    PROVE  /\ After(oid) \in SUBSET OIDs
           /\ \A y \in After(oid) : y \notin Own(line) =>
                 /\ recs[line].oid \prec y
                 /\ \A x \in Own(line) : x \prec y
                 /\ \A k \in BrokenMet(oid, line) : recs[k].oid \prec y
<1>1. recs \in DataFiles /\ oid \in OIDs BY Requested DEF IInv, TypeInv
<1>2. /\ DOMAIN recs = 1..Len(recs) /\ Len(recs) \in Nat /\ line \in 1..Len(recs)
      /\ \A k \in 1..Len(recs) : recs[k].oid \in OIDs
      /\ \A k, l \in 1..Len(recs) : k < l => recs[k].oid \prec recs[l].oid
  BY <1>1, FileFacts DEF IsLine
<1>3. NoneBehind(oid, line) BY <1>2 DEF IInv, EvaluateInv, Eof
<1>4. ASSUME NEW y \in After(oid), y \notin Own(line)
      PROVE  /\ recs[line].oid \prec y
             /\ \A x \in Own(line) : x \prec y
             /\ \A k \in BrokenMet(oid, line) : recs[k].oid \prec y
  <2>1. PICK l \in 1..Len(recs) : y \in Own(l) BY <1>1, OwnFacts DEF After
  <2>2. line < l BY <1>2, <1>3, <1>4, <2>1 DEF NoneBehind, After
  <2>3. y \in OIDs /\ (y = recs[l].oid \/ recs[l].oid \prec y) BY <1>1, <2>1, OwnFacts
  <2>4. ASSUME NEW o \in OIDs, o \prec recs[l].oid PROVE o \prec y
    BY <1>2, <2>3, <2>4, Transitive
  <2>5. \A k \in 1..Len(recs) : k <= line => recs[k].oid \prec y BY <1>2, <2>2, <2>4
  <2>6. \A x \in Own(line) : x \prec y BY <1>1, <1>2, <2>2, <2>4, OwnFacts
  <2> QED BY <1>2, <2>5, <2>6 DEF BrokenMet
<1> QED BY <1>1, <1>4, OwnFacts DEF After

\* Where a GET stands: if the record at hand does not have the OID, no one has.
LEMMA NotThere ==
    ASSUME IInv, pc = "evaluate", IsLine(line), ~nextFlag, oid \notin Own(line)
    PROVE  oid \notin Instances
<1>1. recs \in DataFiles /\ oid \in OIDs BY Requested DEF IInv, TypeInv
<1>2. DOMAIN recs = 1..Len(recs) /\ Len(recs) \in Nat /\ line \in 1..Len(recs)
      /\ \A k \in 1..Len(recs) : recs[k].oid \in OIDs
  BY <1>1, FileFacts DEF IsLine
<1>3. NoneAt(oid, line) /\ AllBehind(oid, line + 1) BY <1>2 DEF IInv, EvaluateInv, Eof
<1>4. ASSUME NEW l \in 1..Len(recs), oid \in Own(l) PROVE FALSE
  <2>1. line < l BY <1>2, <1>3, <1>4 DEF NoneAt
  <2>2. oid \prec recs[l].oid BY <1>2, <1>3, <2>1 DEF AllBehind
  <2>3. oid = recs[l].oid \/ recs[l].oid \prec oid BY <1>1, <1>4, OwnFacts
  <2> QED BY <1>1, <1>2, <2>2, <2>3, Irreflexive, Transitive
<1> QED BY <1>1, <1>4, OwnFacts

\* An error, where it is the right answer or one that the promises allow.
LEMMA ErrorInv ==
    ASSUME IInv, pc = "evaluate", Answer(oid, error_status),
           lost = {} /\ Cardinality(BrokenAfter(oid)) < MaxBrokenRecords =>
              \/ MayGiveUp(oid)
              \/ IF nextFlag THEN After(oid) = {}
                             ELSE oid \notin Instances \/ (setFlag /\ \E l \in DOMAIN recs : recs[l].oid = oid)
    PROVE  IInv'
<1>1. oid \in OIDs BY Requested DEF IInv, TypeInv
<1>2. lost = {} /\ Cardinality(BrokenAfter(oid)) < MaxBrokenRecords =>
        <<oid, error_status>> = Expected(oid) \/ MayGiveUp(oid)
  BY DEF Expected, error_status
<1>3. error_status \in {"value", "noSuchInstance", "endOfMib"} BY DEF error_status
<1> QED BY <1>1, <1>2, <1>3, AnsweredInv

\* On to the line behind, with nothing left behind.
LEMMA SteppedInv ==
    ASSUME IInv, pc = "evaluate", IsLine(line), nextFlag, StepOver, NoneBehind(oid, line + 1),
           broken_records' \in Nat, broken_records' <= Cardinality(BrokenMet(oid, pos)) + 1
    PROVE  IInv'
<1>1. /\ exact_match' = TRUE /\ subtree_flag' = FALSE /\ pc' = "choose"
      /\ UNCHANGED <<recs, lost, trailing, request, rsp_var_binds, line, pos>>
  BY DEF StepOver
<1>2. recs \in DataFiles /\ DOMAIN recs = 1..Len(recs) /\ Len(recs) \in Nat /\ line \in 1..Len(recs)
  BY FileFacts DEF IInv, TypeInv, IsLine
<1>3. /\ NoneBehind(oid, line) /\ AllBehind(oid, line + 1)
      /\ pos = line + 1 \/ (pos = line /\ oid \prec recs[line].oid)
  BY <1>2 DEF IInv, EvaluateInv, Eof
<1>4. TypeInv' BY <1>1 DEF IInv, TypeInv, Eof
<1>5. NoneBehind(oid, pos) BY <1>3
<1>6. AllBehind(oid, pos)
  <2>1. CASE pos = line BY <1>2, <1>3, <2>1 DEF AllBehind
  <2> QED BY <1>3, <2>1
<1> QED BY <1>1, <1>4, <1>5, <1>6, ChosenInv

LEMMA NoRecordInv == IInv /\ NoRecord => IInv'
<1> SUFFICES ASSUME IInv, NoRecord PROVE IInv'
    OBVIOUS
<1>1. pc = "evaluate" /\ ~IsLine(line) /\ Answer(oid, error_status) BY DEF NoRecord
<1>2. recs \in DataFiles /\ DOMAIN recs = 1..Len(recs) /\ Len(recs) \in Nat /\ line \in 0..Eof
  BY FileFacts DEF IInv, TypeInv
<1>3. ASSUME lost = {}, ~MayGiveUp(oid)
      PROVE  /\ nextFlag => NoneBehind(oid, line)
             /\ ~nextFlag => NoneAt(oid, line)
             /\ \A k \in DOMAIN recs : k < line
  BY <1>1, <1>2, <1>3 DEF IInv, EvaluateInv, IsLine, Eof
<1>4. lost = {} /\ ~MayGiveUp(oid) =>
        IF nextFlag THEN After(oid) = {} ELSE oid \notin Instances
  BY <1>2, <1>3, OwnFacts DEF NoneBehind, NoneAt, After
<1> QED BY <1>1, <1>4, ErrorInv

LEMMA EvaluateValueInv == IInv /\ EvaluateValue => IInv'
<1> SUFFICES ASSUME IInv, EvaluateValue PROVE IInv'
    OBVIOUS
<1> DEFINE o == recs[line].oid
<1>1. /\ pc = "evaluate" /\ IsLine(line) /\ recs[line].kind = "value"
      /\ Refused => Answer(oid, error_status)
      /\ ~Refused => Answer(o, "value")
  BY DEF EvaluateValue
<1>2. /\ recs \in DataFiles /\ line \in 1..Len(recs) /\ line \in DOMAIN recs
      /\ oid \in OIDs /\ o \in OIDs /\ line # 0
  BY <1>1, FileFacts, Requested DEF IInv, TypeInv, IsLine
<1>3. Own(line) = {o} /\ o \in Instances /\ ~IsSubtree(line)
  BY <1>1, <1>2, FileFacts, OwnFacts DEF Own, IsSubtree
<1>4. /\ nextFlag => oid \prec o
      /\ ~nextFlag /\ exact_match => o = oid
      /\ ~exact_match => o # oid
  BY <1>1, <1>2, <1>3 DEF IInv, EvaluateInv
<1>5. CASE nextFlag
  <2>1. ~Refused BY <1>5 DEF Refused, nextFlag, setFlag
  <2>2. o \in After(oid) BY <1>3, <1>4, <1>5 DEF After
  <2>3. \A y \in After(oid) \ {o} : o \prec y BY <1>1, <1>3, <1>5, Further
  <2>4. After(oid) \in SUBSET OIDs BY <1>1, <1>5, Further
  <2>5. Least(After(oid)) = o BY <2>2, <2>3, <2>4, LeastIs
  <2>6. Expected(oid) = <<o, "value">> BY <1>5, <2>2, <2>5 DEF Expected
  <2> QED BY <1>1, <1>2, <2>1, <2>6, AnsweredInv
<1>6. CASE ~nextFlag /\ ~exact_match
  <2>1. oid \notin Instances BY <1>1, <1>3, <1>4, <1>6, NotThere
  <2> QED BY <1>1, <1>6, <2>1, ErrorInv DEF Refused
<1>7. CASE ~nextFlag /\ exact_match /\ setFlag
  BY <1>1, <1>2, <1>4, <1>7, ErrorInv DEF Refused
<1>8. CASE ~nextFlag /\ exact_match /\ ~setFlag
  <2>1. Expected(oid) = <<o, "value">> BY <1>3, <1>4, <1>8 DEF Expected
  <2> QED BY <1>1, <1>2, <1>8, <2>1, AnsweredInv DEF Refused
<1> QED BY <1>5, <1>6, <1>7, <1>8

\* A walk that steps over a line has met a broken record more, if that is one.
LEMMA MetGrows ==
    ASSUME recs \in DataFiles, NEW o, NEW l \in 1..Len(recs)
    PROVE  /\ Cardinality(BrokenMet(o, l)) <= Cardinality(BrokenMet(o, l + 1))
           /\ recs[l].kind = "broken" /\ o \prec recs[l].oid =>
                Cardinality(BrokenMet(o, l) \cup {l}) = Cardinality(BrokenMet(o, l)) + 1
                /\ BrokenMet(o, l + 1) = BrokenMet(o, l) \cup {l}
<1>1. IsFiniteSet(BrokenMet(o, l + 1)) /\ IsFiniteSet(BrokenMet(o, l)) BY MetCount
<1>2. DOMAIN recs = 1..Len(recs) /\ Len(recs) \in Nat BY FileFacts
<1>3. BrokenMet(o, l) \subseteq BrokenMet(o, l + 1) /\ l \notin BrokenMet(o, l)
  BY <1>2 DEF BrokenMet
<1>4. Cardinality(BrokenMet(o, l)) <= Cardinality(BrokenMet(o, l + 1))
  BY <1>1, <1>3, FS_Subset
<1>5. recs[l].kind = "broken" /\ o \prec recs[l].oid =>
        BrokenMet(o, l + 1) = BrokenMet(o, l) \cup {l}
  BY <1>2 DEF BrokenMet
<1>6. Cardinality(BrokenMet(o, l) \cup {l}) = Cardinality(BrokenMet(o, l)) + 1
  BY <1>1, <1>3, FS_AddElement
<1> QED BY <1>4, <1>5, <1>6

LEMMA StillMet ==
    ASSUME IInv, pc = "evaluate", IsLine(line)
    PROVE  broken_records <= Cardinality(BrokenMet(oid, pos)) + 1
<1>1. recs \in DataFiles /\ line \in 1..Len(recs) /\ broken_records \in Nat
  BY FileFacts DEF IInv, TypeInv, IsLine
<1>2. pos \in {line, line + 1} /\ broken_records <= Cardinality(BrokenMet(oid, line)) + 1
  BY DEF IInv, EvaluateInv
<1>3. Cardinality(BrokenMet(oid, line)) <= Cardinality(BrokenMet(oid, line + 1))
  BY <1>1, MetGrows
<1>4. \A l : Cardinality(BrokenMet(oid, l)) \in Nat BY <1>1, MetCount
<1> QED BY <1>1, <1>2, <1>3, <1>4

LEMMA EvaluateBrokenInv == IInv /\ EvaluateBroken => IInv'
<1> SUFFICES ASSUME IInv, EvaluateBroken PROVE IInv'
    OBVIOUS
<1>1. /\ pc = "evaluate" /\ IsLine(line) /\ recs[line].kind = "broken"
      /\ IF ~Refused /\ nextFlag /\ broken_records < MaxBrokenRecords
         THEN StepOver /\ broken_records' = broken_records + 1
         ELSE Answer(oid, error_status)
  BY DEF EvaluateBroken
<1>2. /\ recs \in DataFiles /\ line \in 1..Len(recs) /\ DOMAIN recs = 1..Len(recs)
      /\ oid \in OIDs /\ broken_records \in Nat /\ MaxBrokenRecords \in Nat /\ Len(recs) \in Nat
  BY <1>1, FileFacts, Requested DEF IInv, TypeInv, IsLine
<1>3. Own(line) = {} /\ ~IsSubtree(line)
  BY <1>1, <1>2, FileFacts DEF Own, IsSubtree
<1>4. /\ nextFlag => oid \prec recs[line].oid /\ NoneBehind(oid, line)
      /\ pos = line + 1 \/ (pos = line /\ broken_records = 0)
      /\ broken_records <= Cardinality(BrokenMet(oid, line)) + 1
  BY <1>1, <1>2, <1>3 DEF IInv, EvaluateInv, Eof
<1>5. CASE ~nextFlag
  <2>1. oid \notin Instances BY <1>1, <1>3, <1>5, NotThere
  <2> QED BY <1>1, <1>5, <2>1, ErrorInv
<1>6. ASSUME nextFlag
      PROVE  /\ ~Refused
             /\ Cardinality(BrokenMet(oid, line) \cup {line}) = Cardinality(BrokenMet(oid, line)) + 1
             /\ BrokenMet(oid, line + 1) = BrokenMet(oid, line) \cup {line}
  BY <1>1, <1>2, <1>4, <1>6, MetGrows DEF Refused, nextFlag, setFlag
<1>7. CASE nextFlag /\ broken_records < MaxBrokenRecords
  <2>1. StepOver /\ broken_records' = broken_records + 1 BY <1>1, <1>6, <1>7
  <2>2. NoneBehind(oid, line + 1) BY <1>2, <1>3, <1>4, <1>7 DEF NoneBehind
  <2>3. \A l : Cardinality(BrokenMet(oid, l)) \in Nat BY <1>2, MetCount
  <2>4. broken_records + 1 <= Cardinality(BrokenMet(oid, pos)) + 1
    <3>1. CASE pos = line BY <1>4, <2>3, <3>1, <1>2
    <3>2. CASE pos = line + 1
      <4>1. Cardinality(BrokenMet(oid, pos)) = Cardinality(BrokenMet(oid, line)) + 1
        BY <1>6, <1>7, <3>2
      <4> QED BY <1>2, <1>4, <2>3, <4>1
    <3> QED BY <1>4, <3>1, <3>2
  <2> QED BY <1>1, <1>2, <1>7, <2>1, <2>2, <2>4, SteppedInv
<1>8. CASE nextFlag /\ ~(broken_records < MaxBrokenRecords)
  <2>1. Answer(oid, error_status) BY <1>1, <1>8
  <2>2. BrokenMet(oid, line) \cup {line} \subseteq BrokenAfter(oid)
    <3>1. \A y \in After(oid) : /\ recs[line].oid \prec y
                                /\ \A k \in BrokenMet(oid, line) : recs[k].oid \prec y
      BY <1>1, <1>3, <1>8, Further
    <3> QED BY <1>1, <1>2, <1>4, <1>8, <3>1 DEF BrokenMet, BrokenAfter
  <2>3. IsFiniteSet(BrokenAfter(oid))
    <3>1. IsFiniteSet(DOMAIN recs) BY <1>2, FS_Interval
    <3> QED BY <3>1, FS_Subset DEF BrokenAfter
  <2>4. Cardinality(BrokenMet(oid, line)) + 1 <= Cardinality(BrokenAfter(oid))
    BY <1>6, <1>8, <2>2, <2>3, FS_Subset
  <2>5. Cardinality(BrokenMet(oid, line)) \in Nat /\ Cardinality(BrokenAfter(oid)) \in Nat
    BY <1>2, <2>3, MetCount, FS_CardinalityType
  <2>6. ~(Cardinality(BrokenAfter(oid)) < MaxBrokenRecords) BY <1>2, <1>4, <1>8, <2>4, <2>5
  <2> QED BY <1>1, <2>1, <2>6, ErrorInv
<1> QED BY <1>5, <1>7, <1>8

LEMMA EvaluateEmptyInv == IInv /\ EvaluateEmpty => IInv'
<1> SUFFICES ASSUME IInv, EvaluateEmpty PROVE IInv'
    OBVIOUS
<1>1. /\ pc = "evaluate" /\ IsLine(line) /\ recs[line].kind = "empty"
      /\ nextFlag => StepOver /\ UNCHANGED broken_records
      /\ ~nextFlag => Answer(oid, error_status)
  BY DEF EvaluateEmpty
<1>2. recs \in DataFiles /\ line \in 1..Len(recs) /\ broken_records \in Nat
  BY <1>1, FileFacts DEF IInv, TypeInv, IsLine
<1>3. Own(line) = {} BY <1>1, <1>2, FileFacts DEF Own
<1>4. CASE ~nextFlag
  <2>1. oid \notin Instances BY <1>1, <1>3, <1>4, NotThere
  <2> QED BY <1>1, <1>4, <2>1, ErrorInv
<1>5. CASE nextFlag
  <2>1. NoneBehind(oid, line + 1)
    <3>1. NoneBehind(oid, line) BY <1>1, <1>2, <1>5, FileFacts DEF IInv, EvaluateInv, Eof
    <3> QED BY <1>2, <1>3, <3>1, FileFacts DEF NoneBehind
  <2>2. broken_records <= Cardinality(BrokenMet(oid, pos)) + 1 BY <1>1, <1>2, StillMet
  <2> QED BY <1>1, <1>2, <1>5, <2>1, <2>2, SteppedInv
<1> QED BY <1>4, <1>5

LEMMA EvaluateSilentInv == IInv /\ EvaluateSilent => IInv'
<1> SUFFICES ASSUME IInv, EvaluateSilent PROVE IInv'
    OBVIOUS
<1>1. /\ pc = "evaluate" /\ IsLine(line) /\ recs[line].kind = "silent"
  BY DEF EvaluateSilent
<1>2. recs \in DataFiles /\ line \in 1..Len(recs) /\ line \in DOMAIN recs
  BY <1>1, FileFacts DEF IInv, TypeInv, IsLine
<1>3. Own(line) = {} BY <1>1, <1>2, FileFacts DEF Own
<1>4. CASE ~(nextFlag \/ exact_match)
  <2>1. oid \notin Instances BY <1>1, <1>3, <1>4, NotThere
  <2>2. Answer(oid, error_status) BY <1>4 DEF EvaluateSilent
  <2> QED BY <1>1, <1>4, <2>1, <2>2, ErrorInv
<1>5. CASE nextFlag \/ exact_match
  <2>1. /\ pc' = "aborted"
        /\ UNCHANGED <<recs, lost, trailing, request, rsp_var_binds, line, pos, exact_match,
                       subtree_flag, broken_records>>
    BY <1>5 DEF EvaluateSilent
  <2>2. TypeInv' BY <1>1, <2>1 DEF IInv, TypeInv, Eof
  <2>3. /\ NeverWrong' /\ Complete' /\ oid' = oid /\ nextFlag' = nextFlag
        /\ After(oid)' = After(oid) /\ Silent' = Silent
    BY <2>1, Frame
  <2>4. recs[line].oid \in Silent BY <1>1, <1>2 DEF Silent
  <2>5. nextFlag => \A x \in After(oid) : recs[line].oid \prec x BY <1>1, <1>3, Further
  <2>6. ~nextFlag => recs[line].oid = oid BY <1>1, <1>5 DEF IInv, EvaluateInv
  <2>7. DroppedForCause'
    BY <1>1, <2>1, <2>3, <2>4, <2>5, <2>6 DEF DroppedForCause, IsLine
  <2> QED BY <2>1, <2>2, <2>3, <2>7 DEF IInv, ChooseInv, EvaluateInv
<1> QED BY <1>4, <1>5

LEMMA EvaluateSubtreeInv == IInv /\ EvaluateSubtree => IInv'
<1> SUFFICES ASSUME IInv, EvaluateSubtree PROVE IInv'
    OBVIOUS
<1> DEFINE following == {x \in recs[line].inner : oid \prec x}
<1>1. /\ pc = "evaluate" /\ IsLine(line) /\ recs[line].kind = "subtree"
      /\ nextFlag /\ following = {} => StepOver /\ UNCHANGED broken_records
      /\ nextFlag /\ following # {} => Answer(Least(following), "value")
      /\ ~nextFlag /\ oid \in recs[line].inner => Answer(oid, "value")
      /\ ~nextFlag /\ oid \notin recs[line].inner => Answer(oid, error_status)
  BY DEF EvaluateSubtree
<1>2. /\ recs \in DataFiles /\ line \in 1..Len(recs) /\ broken_records \in Nat
      /\ oid \in OIDs /\ DOMAIN recs = 1..Len(recs) /\ Len(recs) \in Nat
      /\ recs[line].inner \in SUBSET OIDs /\ IsFiniteSet(recs[line].inner)
  BY <1>1, FileFacts, Requested DEF IInv, TypeInv, IsLine
<1>3. Own(line) = recs[line].inner BY <1>1 DEF Own
<1>4. Own(line) \subseteq Instances BY <1>2, OwnFacts
<1>5. CASE nextFlag /\ following = {}
  <2>1. NoneBehind(oid, line + 1)
    <3>1. NoneBehind(oid, line) BY <1>1, <1>2, <1>5, FileFacts DEF IInv, EvaluateInv, Eof
    <3>2. \A y \in Own(line) : ~(oid \prec y) BY <1>3, <1>5
    <3> QED BY <1>2, <3>1, <3>2 DEF NoneBehind
  <2>2. broken_records <= Cardinality(BrokenMet(oid, pos)) + 1 BY <1>1, <1>2, StillMet
  <2> QED BY <1>1, <1>2, <1>5, <2>1, <2>2, SteppedInv
<1>6. CASE nextFlag /\ following # {}
  <2>1. following \in SUBSET OIDs /\ IsFiniteSet(following) BY <1>2, FS_Subset
  <2>2. Least(following) \in following /\ \A y \in following \ {Least(following)} : Least(following) \prec y
    <3> HIDE DEF following
    <3> QED BY <1>6, <2>1, LeastOf
  <2>3. PICK m : m = Least(following) OBVIOUS
  <2>4. m \in Own(line) /\ m \in After(oid) /\ m \in OIDs BY <1>2, <1>3, <1>4, <2>2, <2>3 DEF After
  <2>5. ASSUME NEW y \in After(oid) \ {m} PROVE m \prec y
    <3>1. CASE y \in Own(line)
      <4>1. y \in following BY <1>3, <2>5, <3>1 DEF After
      <4> QED BY <2>2, <2>3, <2>5, <4>1
    <3>2. CASE y \notin Own(line) BY <1>1, <1>6, <2>4, <2>5, <3>2, Further
    <3> QED BY <3>1, <3>2
  <2>6. After(oid) \in SUBSET OIDs BY <1>1, <1>6, Further
  <2>7. Least(After(oid)) = m BY <2>4, <2>5, <2>6, LeastIs
  <2>8. Expected(oid) = <<m, "value">> BY <1>6, <2>4, <2>7 DEF Expected
  <2> HIDE DEF following
  <2>9. Answer(m, "value") BY <1>1, <1>6, <2>3
  <2> QED BY <1>1, <2>4, <2>8, <2>9, AnsweredInv
<1>7. CASE ~nextFlag /\ oid \in recs[line].inner
  <2>1. oid \in Instances BY <1>3, <1>4, <1>7
  <2>2. \A l \in 1..Len(recs) : recs[l].oid # oid
    <3> SUFFICES ASSUME NEW l \in 1..Len(recs), recs[l].oid = oid PROVE FALSE
        OBVIOUS
    <3>1. recs[line].oid \in OIDs /\ recs[line].oid \prec oid
      BY <1>2, <1>7, FileFacts DEF \prec
    <3>2. CASE line < l
      <4>1. AllBehind(oid, line + 1) BY <1>1, <1>2 DEF IInv, EvaluateInv, Eof
      <4> QED BY <1>2, <3>2, <4>1, Irreflexive DEF AllBehind
    <3>3. CASE l = line BY <1>2, <3>1, <3>3, Irreflexive
    <3>4. CASE l < line
      <4>1. oid \prec recs[line].oid BY <1>2, <3>4, FileFacts
      <4> QED BY <1>2, <3>1, <4>1, Transitive, Irreflexive
    <3> QED BY <1>2, <3>2, <3>3, <3>4
  <2>3. Expected(oid) = <<oid, "value">> BY <1>2, <1>7, <2>1, <2>2 DEF Expected
  <2> QED BY <1>1, <1>2, <1>7, <2>3, AnsweredInv
<1>8. CASE ~nextFlag /\ oid \notin recs[line].inner
  <2>1. oid \notin Instances BY <1>1, <1>3, <1>8, NotThere
  <2> QED BY <1>1, <1>8, <2>1, ErrorInv
<1> QED BY <1>5, <1>6, <1>7, <1>8

-----------------------------------------------------------------------------
LEMMA NextInv == IInv /\ [Next]_vars => IInv'
<1> SUFFICES ASSUME IInv, [Next]_vars PROVE IInv'
    OBVIOUS
<1>1. CASE LookupIndex BY <1>1, LookupIndexInv
<1>2. CASE Search BY <1>2, SearchInv
<1>3. CASE SearchRaises BY <1>3, RaiseInv DEF SearchRaises
<1>4. CASE Choose
  BY <1>4, ChooseNextInv, RaiseInv, ChooseMatchedInv, ChooseFoundInv
  DEF Choose, ChooseNextRaises
<1>5. CASE Evaluate
  BY <1>5, NoRecordInv, EvaluateValueInv, EvaluateBrokenInv, EvaluateEmptyInv,
     EvaluateSilentInv, EvaluateSubtreeInv
  DEF Evaluate
<1>6. CASE UNCHANGED vars
  <2>1. UNCHANGED <<recs, lost, trailing, request, rsp_var_binds, line, pos, exact_match,
                    subtree_flag, broken_records, pc>>
    BY <1>6 DEF vars
  <2>2. TypeInv' BY <2>1 DEF IInv, TypeInv, Eof
  <2>3. ChooseInv'
    BY <2>1
    DEF IInv, ChooseInv, nextFlag, oid, NoneBehind, AllBehind, BrokenMet, Own, IsLine, IsBad,
        IsSubtree, Finds, RoundsUp, Behind, Eof, NotIndexed, Indexed
  <2>0. MayGiveUp(oid)' = MayGiveUp(oid) /\ Eof' = Eof BY <2>1, Frame
  <2>4. EvaluateInv'
    BY <2>0, <2>1
    DEF IInv, EvaluateInv, nextFlag, oid, NoneBehind, NoneAt, AllBehind, BrokenMet, Own, IsLine,
        IsSubtree
  <2>5. /\ NeverWrong' /\ Complete' /\ oid' = oid /\ nextFlag' = nextFlag
        /\ After(oid)' = After(oid) /\ Silent' = Silent
    BY <2>1, Frame
  <2>6. DroppedForCause' BY <2>1, <2>5 DEF IInv, DroppedForCause, IsLine
  <2> QED BY <2>2, <2>3, <2>4, <2>5, <2>6 DEF IInv
<1> QED BY <1>1, <1>2, <1>3, <1>4, <1>5, <1>6 DEF Next

\* process_var_binds answers each var-bind with what the MIB has there, or with an
\* error status: never with another record, a skipped instance or one behind, however
\* many index entries a crash has lost and whichever records do not evaluate.
THEOREM DataFileNeverWrong == Spec => []NeverWrong
<1>1. IInv => NeverWrong BY DEF IInv
<1> QED BY InitInv, NextInv, <1>1, PTL DEF Spec

\* With a whole index each answer is the right one, while fewer broken records than
\* max_broken_records lie in front of it: the second count behind a subtree is all
\* that datafile.py:184 costs. The only other exception is an OID without a record in
\* a file that ends in comments or blank lines, where the search may give up.
THEOREM DataFileComplete == Spec => []Complete
<1>1. IInv => Complete BY DEF IInv
<1> QED BY InitInv, NextInv, <1>1, PTL DEF Spec

\* A variation module that drops a request (NoDataNotification, MibOperationError) is
\* the one of the OID asked for, or of the record next in the walk.
THEOREM DataFileDroppedForCause == Spec => []DroppedForCause
<1>1. IInv => DroppedForCause BY DEF IInv
<1> QED BY InitInv, NextInv, <1>1, PTL DEF Spec

-----------------------------------------------------------------------------
(* The pool of open files, for any number of them and any limit.          *)

\* The inductive invariant of the pool.
PoolInv == TypeOK /\ OpenIsQueued /\ Bounded /\ OnlyFailedLinger

\* The list of queued files, seen through its elements.
LEMMA QueuedElements ==
    ASSUME opened_queue \in Seq(Files)
    PROVE  \A f : f \in Queued <=> \E i \in 1..Len(opened_queue) : opened_queue[i] = f
BY DEF Queued

LEMMA PoolInitInv == PoolInit => PoolInv
BY PoolAssumption
   DEF PoolInit, PoolInv, TypeOK, OpenIsQueued, Bounded, OnlyFailedLinger, Queued, Outcomes

\* What opening a file f leaves open when `kept' is open besides.
LEMMA OpenIndexEffect ==
    ASSUME TypeOK, NEW f \in Files, NEW kept \in SUBSET open, OpenIndex(f, kept)
    PROVE  /\ open' \subseteq Files /\ touched' \subseteq Files /\ failed' \subseteq Files
           /\ text' = text /\ outcome' \in Outcomes
           /\ kept \subseteq open' /\ open' \subseteq kept \cup {f}
           /\ failed \subseteq failed'
           /\ f \in open' \/ f \in failed'
<1>1. text[f] \in AllFaults \cup {"ok"}
  BY PoolAssumption DEF TypeOK
<1>2. CASE text[f] = "ok"
  BY <1>2 DEF TypeOK, OpenIndex, Outcomes
<1>3. CASE text[f] # "ok"
  <2>1. text[f] = "corrupt" \/ text[f] = "missing" BY <1>1, <1>3 DEF AllFaults
  <2>2. outcome' \in Outcomes BY <2>1 DEF OpenIndex, Outcomes
  <2> QED BY <1>3, <2>2 DEF TypeOK, OpenIndex
<1> QED BY <1>2, <1>3

LEMMA PoolNextInv == PoolInv /\ [PoolNext]_poolVars => PoolInv'
<1> SUFFICES ASSUME PoolInv, [PoolNext]_poolVars PROVE PoolInv' OBVIOUS
<1> USE DEF PoolInv
<1>0. MaxQueueEntries \in Nat BY PoolAssumption
<1>q. opened_queue \in Seq(Files) BY DEF TypeOK
<1>1. ASSUME NEW f \in Files, GetJammed(f) \/ GetOpen(f) \/ GetMissing(f) PROVE PoolInv'
  BY <1>1 DEF GetJammed, GetOpen, GetMissing, TypeOK, OpenIsQueued, Bounded,
              OnlyFailedLinger, Queued, Outcomes
<1>2. ASSUME NEW f \in Files, GetEvicting(f) PROVE PoolInv'
  <2> DEFINE h == Head(opened_queue)
             q == opened_queue
             n == Len(opened_queue)
  <2>1. /\ f \notin open /\ h \in open /\ n > MaxQueueEntries
        /\ q' = Append(Tail(q), f)
        /\ OpenIndex(f, open \ {h})
    BY <1>2 DEF GetEvicting, Jammed, Full
  <2>2. /\ n \in Nat /\ n >= 1 /\ h = q[1] /\ n <= MaxQueueEntries + 1
        /\ q' \in Seq(Files) /\ Len(q') = n
        /\ \A i \in 1..(n - 1) : q'[i] = q[i + 1]
        /\ q'[n] = f
    BY <1>0, <1>q, <2>1 DEF Bounded
  <2>3. /\ open' \subseteq Files /\ touched' \subseteq Files /\ failed' \subseteq Files
        /\ text' = text /\ outcome' \in Outcomes
        /\ open \ {h} \subseteq open' /\ open' \subseteq (open \ {h}) \cup {f}
        /\ failed \subseteq failed'
        /\ f \in open' \/ f \in failed'
    BY <2>1, OpenIndexEffect
  <2>4. TypeOK' BY <2>2, <2>3 DEF TypeOK
  <2>5. OpenIsQueued'
    <3> SUFFICES ASSUME NEW g \in open' PROVE \E i \in DOMAIN q' : q'[i] = g
      BY DEF OpenIsQueued, Queued
    <3>1. CASE g = f BY <2>2, <3>1
    <3>2. CASE g # f
      <4>1. g \in open /\ g # h BY <2>3, <3>2
      <4>2. PICK i \in 1..n : q[i] = g
        BY <1>q, <4>1, QueuedElements DEF OpenIsQueued
      <4>3. i - 1 \in 1..(n - 1) /\ q'[i - 1] = g BY <2>2, <4>1, <4>2
      <4> QED BY <2>2, <4>3
    <3> QED BY <3>1, <3>2
  <2>6. Bounded' BY <1>0, <2>2 DEF Bounded
  <2>7. ASSUME NEW i \in 1..n PROVE q'[i] \in open' \/ q'[i] \in failed'
    <3>1. CASE i = n BY <2>2, <2>3, <3>1
    <3>2. CASE i # n
      <4>1. q'[i] = q[i + 1] /\ i + 1 \in DOMAIN q /\ 1 \in DOMAIN q /\ i + 1 # 1
        BY <1>q, <2>2, <3>2
      <4>2. q[i + 1] \in open \/ q[i + 1] \in failed BY <4>1 DEF OnlyFailedLinger
      <4>3. q[i + 1] = h => q[i + 1] \in failed
        BY <2>2, <4>1 DEF OnlyFailedLinger
      <4> QED BY <2>3, <4>1, <4>2, <4>3
    <3> QED BY <3>1, <3>2
  <2>8. ASSUME NEW i \in 1..n, NEW j \in 1..n, i # j, q'[i] = q'[j]
        PROVE  q'[i] \in failed'
    <3>1. CASE i # n /\ j # n
      <4>1. /\ q'[i] = q[i + 1] /\ q'[j] = q[j + 1]
            /\ i + 1 \in DOMAIN q /\ j + 1 \in DOMAIN q /\ i + 1 # j + 1
        BY <1>q, <2>2, <3>1, <2>8
      <4> QED BY <2>3, <2>8, <4>1 DEF OnlyFailedLinger
    <3>2. ASSUME NEW k \in 1..(n - 1), q'[k] = f PROVE f \in failed
      <4>1. q'[k] = q[k + 1] BY <2>2
      <4>2. k + 1 \in DOMAIN q BY <1>q, <2>2
      <4> QED BY <2>1, <3>2, <4>1, <4>2 DEF OnlyFailedLinger
    <3> QED BY <2>2, <2>3, <2>8, <3>1, <3>2
  <2> QED BY <2>2, <2>4, <2>5, <2>6, <2>7, <2>8 DEF OnlyFailedLinger
<1>3. ASSUME NEW f \in Files, GetClosed(f) PROVE PoolInv'
  <2> DEFINE q == opened_queue
             n == Len(opened_queue)
  <2>1. /\ f \notin open /\ n <= MaxQueueEntries
        /\ q' = Append(q, f)
        /\ OpenIndex(f, open)
    BY <1>0, <1>3, <1>q DEF GetClosed, Full
  <2>2. /\ n \in Nat /\ q' \in Seq(Files) /\ Len(q') = n + 1
        /\ \A i \in 1..n : q'[i] = q[i]
        /\ q'[n + 1] = f
    BY <1>q, <2>1
  <2>3. /\ open' \subseteq Files /\ touched' \subseteq Files /\ failed' \subseteq Files
        /\ text' = text /\ outcome' \in Outcomes
        /\ open \subseteq open' /\ open' \subseteq open \cup {f}
        /\ failed \subseteq failed'
        /\ f \in open' \/ f \in failed'
    BY <2>1, OpenIndexEffect
  <2>4. TypeOK' BY <2>2, <2>3 DEF TypeOK
  <2>5. OpenIsQueued'
    <3> SUFFICES ASSUME NEW g \in open' PROVE \E i \in DOMAIN q' : q'[i] = g
      BY DEF OpenIsQueued, Queued
    <3>1. CASE g = f BY <2>2, <3>1
    <3>2. CASE g # f
      <4>1. PICK i \in 1..n : q[i] = g
        BY <1>q, <2>3, <3>2, QueuedElements DEF OpenIsQueued
      <4> QED BY <2>2, <4>1
    <3> QED BY <3>1, <3>2
  <2>6. Bounded' BY <1>0, <2>1, <2>2 DEF Bounded
  <2>7. ASSUME NEW i \in 1..(n + 1) PROVE q'[i] \in open' \/ q'[i] \in failed'
    <3>1. CASE i = n + 1 BY <2>2, <2>3, <3>1
    <3>2. CASE i # n + 1 BY <1>q, <2>2, <2>3, <3>2 DEF OnlyFailedLinger
    <3> QED BY <3>1, <3>2
  <2>8. ASSUME NEW i \in 1..(n + 1), NEW j \in 1..(n + 1), i # j, q'[i] = q'[j]
        PROVE  q'[i] \in failed'
    <3>1. CASE i # n + 1 /\ j # n + 1
      BY <1>q, <2>2, <2>3, <2>8, <3>1 DEF OnlyFailedLinger
    <3>2. ASSUME NEW k \in 1..n, q'[k] = f PROVE f \in failed
      BY <1>q, <2>1, <2>2, <3>2 DEF OnlyFailedLinger
    <3> QED BY <2>2, <2>3, <2>8, <3>1, <3>2
  <2> QED BY <2>2, <2>4, <2>5, <2>6, <2>7, <2>8 DEF OnlyFailedLinger
<1>4. ASSUME NEW f \in Files, GetModified(f) PROVE PoolInv'
  <2>1. f \in open /\ OpenIndex(f, open \ {f}) /\ UNCHANGED opened_queue
    BY <1>4 DEF GetModified
  <2>2. /\ open' \subseteq Files /\ touched' \subseteq Files /\ failed' \subseteq Files
        /\ text' = text /\ outcome' \in Outcomes
        /\ open \ {f} \subseteq open' /\ open' \subseteq (open \ {f}) \cup {f}
        /\ failed \subseteq failed'
        /\ f \in open' \/ f \in failed'
    BY <2>1, OpenIndexEffect
  <2>3. open' \subseteq open BY <2>1, <2>2
  <2> QED BY <2>1, <2>2, <2>3
          DEF TypeOK, OpenIsQueued, Bounded, OnlyFailedLinger, Queued
<1>5. ASSUME NEW f \in Files, Edit(f) PROVE PoolInv'
  BY <1>5 DEF Edit, TypeOK, OpenIsQueued, Bounded, OnlyFailedLinger, Queued
<1>6. CASE UNCHANGED poolVars
  BY <1>6 DEF poolVars, TypeOK, OpenIsQueued, Bounded, OnlyFailedLinger, Queued
<1> QED BY <1>1, <1>2, <1>3, <1>4, <1>5, <1>6 DEF PoolNext, GetHandles

-----------------------------------------------------------------------------
\* The types of the pool's state hold in every reachable state.
THEOREM PoolTypeOK == PoolSpec => []TypeOK
<1>1. PoolInv => TypeOK BY DEF PoolInv
<1> QED BY PoolInitInv, PoolNextInv, <1>1, PTL DEF PoolSpec

\* get_handles never leaks an open file: each has its entry in opened_queue,
\* whichever attempts to open one fail in between.
THEOREM PoolNeverLeaks == PoolSpec => []OpenIsQueued
<1>1. PoolInv => OpenIsQueued BY DEF PoolInv
<1> QED BY PoolInitInv, PoolNextInv, <1>1, PTL DEF PoolSpec

\* opened_queue holds at most one entry more than max_queue_entries.
THEOREM PoolBounded == PoolSpec => []Bounded
<1>1. PoolInv => Bounded BY DEF PoolInv
<1> QED BY PoolInitInv, PoolNextInv, <1>1, PTL DEF PoolSpec

\* An entry that cannot be closed, or a second entry of a file, is the mark of
\* a failure to open that file.
THEOREM PoolLingering == PoolSpec => []OnlyFailedLinger
<1>1. PoolInv => OnlyFailedLinger BY DEF PoolInv
<1> QED BY PoolInitInv, PoolNextInv, <1>1, PTL DEF PoolSpec

\* While no file has ever failed to open, get_handles serves every readable
\* file: the list cannot jam.
THEOREM PoolServes == PoolSpec => OkIsServedWithoutFailure
<1>1. PoolInv /\ [PoolNext]_poolVars =>
        [\A f \in Files : failed = {} /\ text[f] = "ok" /\ GetHandles(f)
                          => outcome' = "handles"]_poolVars
  <2> SUFFICES ASSUME PoolInv, NEW f \in Files, failed = {}, text[f] = "ok", GetHandles(f)
               PROVE  outcome' = "handles"
    OBVIOUS
  <2>1. ~GetJammed(f)
    <3> SUFFICES ASSUME Full, Head(opened_queue) \notin open PROVE FALSE
      BY DEF GetJammed, Jammed
    <3>1. opened_queue \in Seq(Files) /\ Len(opened_queue) >= 1
      BY PoolAssumption DEF PoolInv, TypeOK, Full
    <3>2. 1 \in DOMAIN opened_queue /\ Head(opened_queue) = opened_queue[1] BY <3>1
    <3> QED BY <3>2 DEF PoolInv, OnlyFailedLinger
  <2>2. ~GetMissing(f) BY DEF GetMissing
  <2>3. CASE GetOpen(f) BY <2>3 DEF GetOpen
  <2>4. CASE GetEvicting(f) \/ GetClosed(f) \/ GetModified(f)
    BY <2>4 DEF GetEvicting, GetClosed, GetModified, OpenIndex
  <2> QED BY <2>1, <2>2, <2>3, <2>4 DEF GetHandles
<1> QED BY PoolInitInv, PoolNextInv, <1>1, PTL DEF PoolSpec, OkIsServedWithoutFailure

\* get_handles closes a file because it was modified, or because the list is
\* full and it was opened first; no other request or edit closes one.
THEOREM PoolClosesForAReason == PoolSpec => ClosedForAReason
<1>1. [PoolNext]_poolVars =>
        [\A f \in open \ open' :
            \/ f \in touched
            \/ Full /\ f = Head(opened_queue)]_poolVars
  <2> SUFFICES ASSUME NEW f \in Files, GetHandles(f) \/ Edit(f), NEW g \in open \ open'
               PROVE  g \in touched \/ (Full /\ g = Head(opened_queue))
    BY DEF PoolNext
  <2>1. open' # open OBVIOUS
  <2>2. CASE GetEvicting(f)
    BY <2>2 DEF GetEvicting, OpenIndex
  <2>3. CASE GetClosed(f)
    BY <2>3 DEF GetClosed, OpenIndex
  <2>4. CASE GetModified(f)
    BY <2>4 DEF GetModified, OpenIndex
  <2>5. CASE GetJammed(f) \/ GetOpen(f) \/ GetMissing(f) \/ Edit(f)
    BY <2>1, <2>5 DEF GetJammed, GetOpen, GetMissing, Edit
  <2> QED BY <2>2, <2>3, <2>4, <2>5 DEF GetHandles
<1> QED BY <1>1, PTL DEF PoolSpec, ClosedForAReason
=============================================================================
