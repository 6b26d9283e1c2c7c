--------------------------- MODULE AgentWalkProofs ---------------------------
(***************************************************************************)
(* Of the recorder, for any agent, range, module, number of retries and    *)
(* way the agent breaks off: what is recorded is in order and in range,    *)
(* and all of it when no error is told.                                    *)
(***************************************************************************)
EXTENDS AgentWalk, FiniteSetTheorems, NaturalsInduction, WellFoundedInduction, TLAPS

LEMMA LeastNat ==
    ASSUME NEW T \in SUBSET Nat, T # {}
    PROVE  \E n \in T : \A k \in T : n <= k
<1>1. PICK n \in T : \A k \in T : <<k, n>> \notin OpToRel(<, Nat)
  BY WFMin, NatLessThanWellFounded, Zenon
<1>2. \A k \in T : ~(k < n) BY <1>1 DEF OpToRel
<1> QED BY <1>2

\* Induction, for a set of numbers.
LEMMA UpTo ==
    ASSUME NEW n \in Nat, NEW T, 0 \in T, \A k \in 0..(n - 1) : k \in T => k + 1 \in T
    PROVE  \A k \in 0..n : k \in T
<1> DEFINE Bad == {k \in 0..n : k \notin T}
<1> SUFFICES ASSUME Bad # {} PROVE FALSE
  <2> HIDE DEF Bad
  <2>1. Bad = {} => \A k \in 0..n : k \in T BY DEF Bad
  <2> QED BY <2>1
<1>1. PICK k \in Bad : \A j \in Bad : k <= j
  <2>1. Bad \in SUBSET Nat OBVIOUS
  <2> HIDE DEF Bad
  <2> QED BY <2>1, LeastNat
<1>2. k \in 0..n /\ k \notin T /\ k # 0 BY <1>1
<1>3. k - 1 \in 0..(n - 1) /\ k - 1 \in 0..n /\ ~(k <= k - 1) BY <1>2
<1>4. k - 1 \in T BY <1>1, <1>3
<1>5. (k - 1) + 1 = k BY <1>2
<1> QED BY <1>2, <1>3, <1>4, <1>5

---------------------------------------------------------------------------
\* The order of OIDs.
OIDs == {o \in Seq(Nat) : o # <<>>}

UpThrough(a, b) == a = b \/ Before(a, b)

\* Where a comes before b.
Differ(a, b, i) == /\ \A j \in 1..(i - 1) : j <= Len(a) /\ a[j] = b[j]
                   /\ i > Len(a) \/ a[i] < b[i]

LEMMA BeforeIs ==
    ASSUME NEW a, NEW b
    PROVE  Before(a, b) <=> \E i \in 1..Len(b) : Differ(a, b, i)
BY DEF Before, Differ

LEMMA Irreflexive ==
    ASSUME NEW a \in Seq(Nat)
    PROVE  ~Before(a, a)
<1> SUFFICES ASSUME NEW i \in 1..Len(a), Differ(a, a, i) PROVE FALSE
    BY BeforeIs
<1>1. a[i] \in Nat /\ Len(a) \in Nat OBVIOUS
<1> QED BY <1>1 DEF Differ

LEMMA Transitive ==
    ASSUME NEW a \in Seq(Nat), NEW b \in Seq(Nat), NEW c \in Seq(Nat), Before(a, b), Before(b, c)
    PROVE  Before(a, c)
<1>1. PICK i \in 1..Len(b) : Differ(a, b, i) BY BeforeIs
<1>2. PICK k \in 1..Len(c) : Differ(b, c, k) BY BeforeIs
<1>3. /\ Len(a) \in Nat /\ Len(b) \in Nat /\ Len(c) \in Nat
      /\ \A j \in 1..Len(a) : a[j] \in Nat
      /\ \A j \in 1..Len(b) : b[j] \in Nat
      /\ \A j \in 1..Len(c) : c[j] \in Nat
  OBVIOUS
<1>4. \E l \in 1..Len(c) : Differ(a, c, l)
  <2>1. CASE i < k
    <3>1. i \in 1..Len(c) BY <1>3, <2>1
    <3>2. Differ(a, c, i) BY <1>1, <1>2, <1>3, <2>1 DEF Differ
    <3> QED BY <3>1, <3>2
  <2>2. CASE i = k
    <3>1. Differ(a, c, k) BY <1>1, <1>2, <1>3, <2>2 DEF Differ
    <3> QED BY <3>1
  <2>3. CASE i > k
    <3>1. k \in 1..(i - 1) /\ k \in 1..Len(b) BY <1>3, <2>3
    <3>2. k <= Len(a) /\ a[k] = b[k] BY <1>1, <3>1 DEF Differ
    <3>3. b[k] < c[k] BY <1>2, <1>3, <3>1 DEF Differ
    <3>4. \A j \in 1..(k - 1) : j <= Len(a) /\ a[j] = c[j]
      <4> TAKE j \in 1..(k - 1)
      <4>1. j \in 1..(i - 1) BY <2>3
      <4>2. a[j] = b[j] /\ j <= Len(a) BY <1>1, <4>1 DEF Differ
      <4>3. b[j] = c[j] BY <1>2 DEF Differ
      <4> QED BY <4>2, <4>3
    <3>5. Differ(a, c, k) BY <3>2, <3>3, <3>4 DEF Differ
    <3> QED BY <3>5
  <2> QED BY <2>1, <2>2, <2>3
<1> QED BY <1>4, BeforeIs

LEMMA Total ==
    ASSUME NEW a \in Seq(Nat), NEW b \in Seq(Nat), a # b
    PROVE  Before(a, b) \/ Before(b, a)
<1> DEFINE n == IF Len(a) < Len(b) THEN Len(a) ELSE Len(b)
           D == {i \in 1..n : a[i] # b[i]}
<1>1. /\ Len(a) \in Nat /\ Len(b) \in Nat /\ n \in Nat /\ n <= Len(a) /\ n <= Len(b)
      /\ \A j \in 1..Len(a) : a[j] \in Nat
      /\ \A j \in 1..Len(b) : b[j] \in Nat
  OBVIOUS
<1>2. CASE D = {}
  <2>1. \A j \in 1..n : a[j] = b[j] BY <1>2
  <2>2. Len(a) # Len(b) BY <2>1
  <2>3. CASE Len(a) < Len(b)
    <3>1. Differ(a, b, Len(a) + 1) /\ Len(a) + 1 \in 1..Len(b)
      BY <1>1, <2>1, <2>3 DEF Differ
    <3> QED BY <3>1, BeforeIs
  <2>4. CASE Len(b) < Len(a)
    <3>1. Differ(b, a, Len(b) + 1) /\ Len(b) + 1 \in 1..Len(a)
      BY <1>1, <2>1, <2>4 DEF Differ
    <3> QED BY <3>1, BeforeIs
  <2> QED BY <1>1, <2>2, <2>3, <2>4
<1>3. CASE D # {}
  <2>1. PICK i \in D : \A j \in D : i <= j
    <3>1. D \in SUBSET Nat OBVIOUS
    <3> HIDE DEF D
    <3> QED BY <1>3, <3>1, LeastNat
  <2>2. i \in 1..n /\ a[i] # b[i] BY <2>1
  <2> HIDE DEF n
  <2>3. \A j \in 1..(i - 1) : a[j] = b[j] /\ j <= Len(a) /\ j <= Len(b)
    <3> TAKE j \in 1..(i - 1)
    <3>1. j \in 1..n /\ ~(i <= j) BY <1>1, <2>2
    <3>2. j \notin D BY <2>1, <3>1
    <3> QED BY <1>1, <3>1, <3>2
  <2>4. a[i] \in Nat /\ b[i] \in Nat /\ i \in 1..Len(a) /\ i \in 1..Len(b) BY <1>1, <2>2
  <2>5. Differ(a, b, i) \/ Differ(b, a, i) BY <2>2, <2>3, <2>4 DEF Differ
  <2> QED BY <2>4, <2>5, BeforeIs
<1> QED BY <1>2, <1>3

\* Of finitely many OIDs one comes first.
LEMMA FirstOf ==
    ASSUME NEW S, IsFiniteSet(S), S # {}, S \subseteq Seq(Nat)
    PROVE  \E o \in S : \A p \in S : p = o \/ Before(o, p)
<1> DEFINE HasFirst(T) == \E o \in T : \A p \in T : p = o \/ Before(o, p)
           Sized(n) == \A T \in SUBSET S : Cardinality(T) = n /\ T # {} => HasFirst(T)
           N == {n \in Nat : Sized(n)}
<1>1. 0 \in N
  <2>1. ASSUME NEW T \in SUBSET S, Cardinality(T) = 0 PROVE T = {}
    BY <2>1, FS_Subset, FS_EmptySet
  <2> QED BY <2>1
<1>2. ASSUME NEW n \in Nat, n \in N PROVE n + 1 \in N
  <2> SUFFICES ASSUME NEW T \in SUBSET S, Cardinality(T) = n + 1, T # {} PROVE HasFirst(T)
    <3> HIDE DEF HasFirst
    <3> QED OBVIOUS
  <2>1. PICK x \in T : TRUE OBVIOUS
  <2> DEFINE U == T \ {x}
  <2>2. IsFiniteSet(T) BY FS_Subset
  <2>3. Cardinality(U) = n
    <3>1. Cardinality(U) = Cardinality(T) - 1 BY <2>1, <2>2, FS_RemoveElement
    <3> QED BY <3>1
  <2>4. x \in Seq(Nat) /\ ~Before(x, x) BY <2>1, Irreflexive
  <2>5. CASE U = {}
    <3>1. \A p \in T : p = x BY <2>1, <2>5
    <3> QED BY <2>1, <3>1
  <2>6. CASE U # {}
    <3>1. PICK o \in U : \A p \in U : p = o \/ Before(o, p) BY <1>2, <2>3, <2>6
    <3>2. o \in Seq(Nat) /\ o # x BY <3>1
    <3>3. CASE Before(o, x)
      <4>1. \A p \in T : p = o \/ Before(o, p) BY <3>1, <3>3
      <4> QED BY <3>1, <4>1
    <3>4. CASE Before(x, o)
      <4>1. \A p \in T : p = x \/ Before(x, p)
        <5> TAKE p \in T
        <5>1. CASE p = x BY <5>1
        <5>2. CASE p # x
          <6>1. p \in U /\ p \in Seq(Nat) BY <5>2
          <6>2. p = o \/ Before(o, p) BY <3>1, <6>1
          <6> QED BY <2>4, <3>2, <3>4, <6>1, <6>2, Transitive
        <5> QED BY <5>1, <5>2
      <4> QED BY <2>1, <4>1
    <3> QED BY <2>4, <3>2, <3>3, <3>4, Total
  <2> QED BY <2>5, <2>6
<1>3. Cardinality(S) \in Nat BY FS_CardinalityType
<1>4. Cardinality(S) \in N
  <2> DEFINE size == Cardinality(S)
  <2>1. \A k \in 0..(size - 1) : k \in N => k + 1 \in N
    <3> HIDE DEF N
    <3> QED BY <1>2, <1>3
  <2>2. size \in 0..size BY <1>3
  <2> HIDE DEF N, size
  <2>3. size \in Nat BY <1>3 DEF size
  <2>4. \A k \in 0..size : k \in N BY <1>1, <2>1, <2>3, UpTo
  <2>5. size \in N BY <2>2, <2>4
  <2> QED BY <2>5 DEF size
<1>5. Sized(Cardinality(S)) BY <1>4
<1>6. HasFirst(S)
  <2> HIDE DEF HasFirst
  <2> QED BY <1>5
<1> QED BY <1>6

---------------------------------------------------------------------------
\* What the agent serves behind an OID.
LEMMA Onwards ==
    ASSUME agent \in Agents, NEW oid \in OIDs
    PROVE  /\ agent \subseteq OIDs
           /\ Onward(oid) \in OIDs /\ UpThrough(oid, Onward(oid))
           /\ Behind(oid) = {} => Onward(oid) = oid
           /\ Behind(oid) # {} =>
                 /\ Onward(oid) \in agent /\ Before(oid, Onward(oid))
                 /\ \A o \in Behind(oid) : o = Onward(oid) \/ Before(Onward(oid), o)
<1>1. agent \subseteq OIDs /\ IsFiniteSet(agent)
  BY AgentWalkAssumption DEF OIDs, Arcs
<1>2. CASE Behind(oid) = {} BY <1>1, <1>2 DEF Onward, UpThrough
<1>3. CASE Behind(oid) # {}
  <2>1. Behind(oid) \subseteq agent /\ IsFiniteSet(Behind(oid)) BY <1>1, FS_Subset DEF Behind
  <2>2. Behind(oid) \subseteq Seq(Nat) BY <1>1, <2>1 DEF OIDs
  <2>3. \E o \in Behind(oid) : \A p \in Behind(oid) : p = o \/ Before(o, p)
    BY <1>3, <2>1, <2>2, FirstOf
  <2>4. /\ Following(oid) \in Behind(oid)
        /\ \A p \in Behind(oid) : p = Following(oid) \/ Before(Following(oid), p)
    BY <2>3 DEF Following
  <2>5. Onward(oid) = Following(oid) BY <1>3 DEF Onward
  <2>6. Before(oid, Following(oid)) BY <2>4 DEF Behind
  <2> QED BY <1>1, <1>3, <2>1, <2>4, <2>5, <2>6 DEF UpThrough
<1> QED BY <1>2, <1>3

\* f is where the walk stands after each of n steps.
Steps(f, oid, n) == f = [k \in 0..n |-> IF k = 0 THEN oid ELSE Onward(f[k - 1])]

LEMMA StepsAre ==
    ASSUME NEW f, NEW oid, NEW n \in Nat, Steps(f, oid, n)
    PROVE  f[0] = oid /\ \A k \in 1..n : f[k] = Onward(f[k - 1])
<1> DEFINE F(k) == IF k = 0 THEN oid ELSE Onward(f[k - 1])
<1>1. f = [k \in 0..n |-> F(k)] BY DEF Steps
<1> HIDE DEF F
<1>2. \A k \in 0..n : f[k] = F(k) BY <1>1
<1>3. F(0) = oid /\ \A k \in 1..n : F(k) = Onward(f[k - 1]) BY DEF F
<1> QED BY <1>2, <1>3

LEMMA StepsExist ==
    ASSUME NEW oid, NEW n \in Nat
    PROVE  \E f : Steps(f, oid, n)
<1> DEFINE N == {k \in 0..n : \E f : Steps(f, oid, k)}
<1>1. 0 \in N
  <2> DEFINE f == [k \in 0..0 |-> oid]
  <2>1. f = [k \in 0..0 |-> IF k = 0 THEN oid ELSE Onward(f[k - 1])] OBVIOUS
  <2> HIDE DEF f
  <2>2. Steps(f, oid, 0) BY <2>1 DEF Steps
  <2> QED BY <2>2
<1>2. ASSUME NEW k \in 0..(n - 1), k \in N PROVE k + 1 \in N
  <2>1. PICK g : Steps(g, oid, k) BY <1>2
  <2>2. g[0] = oid /\ \A j \in 1..k : g[j] = Onward(g[j - 1]) BY <2>1, StepsAre
  <2> DEFINE f == [j \in 0..(k + 1) |-> IF j = k + 1 THEN Onward(g[k]) ELSE g[j]]
             F(j) == IF j = 0 THEN oid ELSE Onward(f[j - 1])
  <2>3. \A j \in 0..(k + 1) : f[j] = F(j)
    <3> TAKE j \in 0..(k + 1)
    <3>1. \A i \in 0..k : f[i] = g[i] OBVIOUS
    <3>2. f[k + 1] = Onward(g[k]) OBVIOUS
    <3> HIDE DEF f
    <3>3. CASE j = 0 BY <2>2, <3>1, <3>3
    <3>4. CASE j = k + 1 BY <3>1, <3>2, <3>4
    <3>5. CASE j # 0 /\ j # k + 1
      <4>1. j \in 1..k /\ j - 1 \in 0..k BY <3>5
      <4> QED BY <2>2, <3>1, <3>5, <4>1
    <3> QED BY <3>3, <3>4, <3>5
  <2>4. f = [j \in 0..(k + 1) |-> f[j]] OBVIOUS
  <2> HIDE DEF f
  <2>5. f = [j \in 0..(k + 1) |-> F(j)] BY <2>3, <2>4
  <2>6. Steps(f, oid, k + 1) BY <2>5 DEF Steps
  <2> QED BY <2>6
<1>3. n \in 0..n OBVIOUS
<1> HIDE DEF N
<1>4. n \in N BY <1>1, <1>2, <1>3, UpTo
<1> QED BY <1>4 DEF N

(***************************************************************************)
(* A response of n var-binds to a request for what is behind an OID, and   *)
(* where the walk stands after each of them.                               *)
(***************************************************************************)
Serves(r, f, oid, n) ==
    /\ f[0] = oid /\ \A k \in 1..n : f[k] = Onward(f[k - 1])
    /\ \A k \in 0..n : f[k] \in OIDs
    /\ r \in Seq([oid : OIDs, end : BOOLEAN]) /\ Len(r) = n
    /\ \A k \in 1..n : r[k] = [oid |-> f[k], end |-> Behind(f[k - 1]) = {}]

LEMMA ServedIs ==
    ASSUME agent \in Agents, NEW oid \in OIDs, NEW n \in Nat
    PROVE  \E f : Serves(Served(oid, n), f, oid, n)
<1> DEFINE F == CHOOSE f : Steps(f, oid, n)
<1>1. Steps(F, oid, n) BY StepsExist
<1>2. Served(oid, n) = [k \in 1..n |-> [oid |-> F[k], end |-> Behind(F[k - 1]) = {}]]
  BY DEF Served, Steps
<1> HIDE DEF F
<1>3. F[0] = oid /\ \A k \in 1..n : F[k] = Onward(F[k - 1]) BY <1>1, StepsAre
<1>4. \A k \in 0..n : F[k] \in OIDs
  <2> DEFINE T == {k \in 0..n : F[k] \in OIDs}
  <2>1. 0 \in T BY <1>3
  <2>2. ASSUME NEW k \in 0..(n - 1), k \in T PROVE k + 1 \in T
    <3>1. k + 1 \in 1..n /\ (k + 1) - 1 = k OBVIOUS
    <3>2. F[k + 1] = Onward(F[k]) BY <1>3, <3>1
    <3>3. F[k] \in OIDs BY <2>2
    <3> QED BY <3>1, <3>2, <3>3, Onwards
  <2> HIDE DEF T
  <2>3. \A k \in 0..n : k \in T BY <2>1, <2>2, UpTo
  <2> QED BY <2>3 DEF T
<1> DEFINE r == Served(oid, n)
           B(k) == [oid |-> F[k], end |-> Behind(F[k - 1]) = {}]
<1>5. \A k \in 1..n : B(k) \in [oid : OIDs, end : BOOLEAN] BY <1>4
<1>6. r = [k \in 1..n |-> B(k)] BY <1>2
<1> HIDE DEF r, B
<1>7. r \in Seq([oid : OIDs, end : BOOLEAN]) /\ Len(r) = n /\ \A k \in 1..n : r[k] = B(k)
  <2> DEFINE R == [oid : OIDs, end : BOOLEAN]
  <2>0. \A k \in 1..n : B(k) \in R BY <1>5
  <2> HIDE DEF R
  <2>1. r \in [1..n -> R] /\ \A k \in 1..n : r[k] = B(k) BY <1>6, <2>0
  <2>2. r \in Seq(R) /\ Len(r) = n BY <2>1
  <2> QED BY <2>1, <2>2 DEF R
<1> QED BY <1>3, <1>4, <1>7 DEF Serves, r, B

(***************************************************************************)
(* What is served is behind the OID asked for and in order, it is all that *)
(* lies between there and where the walk then stands, and the end of the   *)
(* MIB is told where there is nothing behind.                              *)
(***************************************************************************)
Passes(r, oid, to) ==
    /\ r \in Seq([oid : OIDs, end : BOOLEAN]) /\ to \in OIDs /\ UpThrough(oid, to)
    /\ \A k \in 1..Len(r) :
          /\ UpThrough(r[k].oid, to)
          /\ ~r[k].end => r[k].oid \in agent /\ Before(oid, r[k].oid)
          /\ r[k].end => Behind(to) = {}
    /\ \A j, k \in 1..Len(r) : j < k => IF r[k].end THEN TRUE ELSE ~r[j].end /\ Before(r[j].oid, r[k].oid)
    /\ \A o \in agent : Before(oid, o) =>
          \/ Before(to, o)
          \/ \E k \in 1..Len(r) : r[k] = [oid |-> o, end |-> FALSE]

LEMMA UpThroughTransitive ==
    ASSUME NEW a \in Seq(Nat), NEW b \in Seq(Nat), NEW c \in Seq(Nat)
    PROVE  /\ UpThrough(a, b) /\ UpThrough(b, c) => UpThrough(a, c)
           /\ UpThrough(a, b) /\ Before(b, c) => Before(a, c)
           /\ Before(a, b) /\ UpThrough(b, c) => Before(a, c)
BY Transitive DEF UpThrough

LEMMA ServedPasses ==
    ASSUME agent \in Agents, NEW oid \in OIDs, NEW n \in Nat \ {0}
    PROVE  LET r == Served(oid, n)
           IN  Len(r) = n /\ Passes(r, oid, r[n].oid)
<1> DEFINE r == Served(oid, n)
           to == r[n].oid
<1>1. PICK f : Serves(r, f, oid, n) BY ServedIs
<1> HIDE DEF r
<1>2. /\ f[0] = oid /\ \A k \in 1..n : f[k] = Onward(f[k - 1])
      /\ \A k \in 0..n : f[k] \in OIDs
      /\ r \in Seq([oid : OIDs, end : BOOLEAN]) /\ Len(r) = n
      /\ \A k \in 1..n : r[k].oid = f[k] /\ (r[k].end <=> Behind(f[k - 1]) = {})
                         /\ r[k] = [oid |-> f[k], end |-> Behind(f[k - 1]) = {}]
  <2>1. /\ f[0] = oid /\ \A k \in 1..n : f[k] = Onward(f[k - 1])
        /\ \A k \in 0..n : f[k] \in OIDs
        /\ r \in Seq([oid : OIDs, end : BOOLEAN]) /\ Len(r) = n
        /\ \A k \in 1..n : r[k] = [oid |-> f[k], end |-> Behind(f[k - 1]) = {}]
    BY <1>1, Zenon DEF Serves
  <2>2. \A k \in 1..n : r[k].oid = f[k] /\ (r[k].end <=> Behind(f[k - 1]) = {})
    <3> TAKE k \in 1..n
    <3> DEFINE e == Behind(f[k - 1]) = {}
    <3>1. r[k] = [oid |-> f[k], end |-> e] BY <2>1
    <3>2. e \in BOOLEAN OBVIOUS
    <3> HIDE DEF e
    <3>3. r[k].oid = f[k] /\ (r[k].end <=> e) BY <3>1, <3>2
    <3> QED BY <3>3 DEF e
  <2> QED BY <2>1, <2>2
<1>3. to = f[n] BY <1>2
<1> HIDE DEF to
\* Where the walk stands does not go back.
<1>4. ASSUME NEW j \in 0..n
      PROVE  \A k \in 0..n : j <= k => UpThrough(f[j], f[k])
  <2> DEFINE T == {k \in 0..n : j <= k => UpThrough(f[j], f[k])}
  <2>1. 0 \in T BY DEF UpThrough
  <2>2. ASSUME NEW k \in 0..(n - 1), k \in T PROVE k + 1 \in T
    <3>1. k \in 0..n /\ k + 1 \in 0..n /\ k + 1 \in 1..n /\ (k + 1) - 1 = k OBVIOUS
    <3>2. UpThrough(f[k], f[k + 1]) BY <1>2, <3>1, Onwards
    <3>3. CASE j <= k
      <4>1. UpThrough(f[j], f[k]) BY <2>2, <3>3
      <4>2. f[j] \in Seq(Nat) /\ f[k] \in Seq(Nat) /\ f[k + 1] \in Seq(Nat) BY <1>2, <3>1 DEF OIDs
      <4>3. UpThrough(f[j], f[k + 1]) BY <3>2, <4>1, <4>2, UpThroughTransitive
      <4> QED BY <3>1, <4>3
    <3>4. CASE ~(j <= k)
      <4>1. j <= k + 1 => j = k + 1 BY <3>4
      <4> QED BY <3>1, <4>1 DEF UpThrough
    <3> QED BY <3>3, <3>4
  <2> HIDE DEF T
  <2>3. \A k \in 0..n : k \in T BY <2>1, <2>2, UpTo
  <2> QED BY <2>3 DEF T
\* At the end of the MIB it stays.
<1>5. ASSUME NEW j \in 0..n, Behind(f[j]) = {}
      PROVE  \A k \in 0..n : j <= k => f[k] = f[j]
  <2> DEFINE T == {k \in 0..n : j <= k => f[k] = f[j]}
  <2>1. 0 \in T OBVIOUS
  <2>2. ASSUME NEW k \in 0..(n - 1), k \in T PROVE k + 1 \in T
    <3>1. k \in 0..n /\ k + 1 \in 0..n /\ k + 1 \in 1..n /\ (k + 1) - 1 = k OBVIOUS
    <3>2. CASE j <= k
      <4>1. f[k] = f[j] /\ f[k] \in OIDs BY <1>2, <2>2, <3>1, <3>2
      <4>2. f[k + 1] = Onward(f[k]) BY <1>2, <3>1
      <4>3. f[k + 1] = f[j] BY <1>5, <4>1, <4>2, Onwards
      <4> QED BY <3>1, <4>3
    <3>3. CASE ~(j <= k)
      <4>1. j <= k + 1 => j = k + 1 BY <3>3
      <4> QED BY <3>1, <4>1
    <3> QED BY <3>2, <3>3
  <2> HIDE DEF T
  <2>3. \A k \in 0..n : k \in T BY <2>1, <2>2, UpTo
  <2> QED BY <2>3 DEF T
<1>6. \A k \in 1..n : k - 1 \in 0..n /\ k \in 0..n /\ k - 1 <= k OBVIOUS
<1>7. \A k \in 0..n : f[k] \in Seq(Nat) BY <1>2 DEF OIDs
<1>8. to \in OIDs /\ UpThrough(oid, to)
  <2>1. 0 \in 0..n /\ n \in 0..n /\ 0 <= n OBVIOUS
  <2> QED BY <1>2, <1>3, <1>4, <2>1
<1>9. ASSUME NEW k \in 1..n
      PROVE  /\ UpThrough(r[k].oid, to)
             /\ ~r[k].end => r[k].oid \in agent /\ Before(oid, r[k].oid) /\ Before(f[k - 1], f[k])
             /\ r[k].end => Behind(to) = {}
  <2>1. n \in 0..n /\ k <= n /\ 0 \in 0..n /\ 0 <= k - 1 OBVIOUS
  <2>2. UpThrough(f[k], f[n]) BY <1>4, <1>6, <2>1
  <2>3. ASSUME ~r[k].end PROVE f[k] \in agent /\ Before(oid, f[k]) /\ Before(f[k - 1], f[k])
    <3>1. Behind(f[k - 1]) # {} BY <1>2, <2>3
    <3>2. f[k] \in agent /\ Before(f[k - 1], f[k]) BY <1>2, <1>6, <3>1, Onwards
    <3>3. UpThrough(f[0], f[k - 1]) BY <1>4, <1>6, <2>1
    <3> QED BY <1>2, <1>6, <1>7, <2>1, <3>2, <3>3, UpThroughTransitive
  <2>4. ASSUME r[k].end PROVE Behind(to) = {}
    <3>1. Behind(f[k - 1]) = {} BY <1>2, <2>4
    <3>2. k - 1 <= n OBVIOUS
    <3>3. f[n] = f[k - 1] BY <1>5, <1>6, <2>1, <3>1, <3>2
    <3> QED BY <1>3, <3>1, <3>3
  <2> QED BY <1>2, <1>3, <2>2, <2>3, <2>4
<1>10. ASSUME NEW j \in 1..n, NEW k \in 1..n, j < k, ~r[k].end
       PROVE  ~r[j].end /\ Before(r[j].oid, r[k].oid)
  <2>1. j <= k - 1 /\ j - 1 <= k - 1 BY <1>10
  <2>2. UpThrough(f[j], f[k - 1]) BY <1>4, <1>6, <2>1
  <2>3. Before(f[j], f[k]) BY <1>6, <1>7, <1>9, <1>10, <2>2, UpThroughTransitive
  <2>4. ~r[j].end
    <3> SUFFICES ASSUME r[j].end PROVE FALSE
        OBVIOUS
    <3>1. Behind(f[j - 1]) = {} BY <1>2
    <3>2. f[k - 1] = f[j - 1] BY <1>5, <1>6, <2>1, <3>1
    <3>3. Behind(f[k - 1]) # {} BY <1>2, <1>10
    <3> QED BY <3>1, <3>2, <3>3
  <2> QED BY <1>2, <2>3, <2>4
<1>11. ASSUME NEW o \in agent, Before(oid, o)
       PROVE  Before(to, o) \/ \E k \in 1..n : r[k] = [oid |-> o, end |-> FALSE]
  <2> DEFINE Met(j) == \E k \in 1..n : k <= j /\ r[k] = [oid |-> o, end |-> FALSE]
             T == {j \in 0..n : Before(f[j], o) \/ Met(j)}
  <2>1. 0 \in T BY <1>2, <1>11
  <2>2. ASSUME NEW j \in 0..(n - 1), j \in T PROVE j + 1 \in T
    <3>1. j \in 0..n /\ j + 1 \in 0..n /\ j + 1 \in 1..n /\ (j + 1) - 1 = j /\ j <= j + 1 OBVIOUS
    <3>2. CASE Met(j)
      <4>1. Met(j + 1) BY <3>2
      <4> HIDE DEF Met
      <4> QED BY <3>1, <4>1
    <3>3. CASE Before(f[j], o)
      <4>1. o \in Behind(f[j]) BY <3>3 DEF Behind
      <4>2. f[j + 1] = Onward(f[j]) /\ f[j] \in OIDs BY <1>2, <3>1
      <4>3. o = f[j + 1] \/ Before(f[j + 1], o) BY <4>1, <4>2, Onwards
      <4>4. r[j + 1] = [oid |-> f[j + 1], end |-> FALSE]
        <5>1. r[j + 1] = [oid |-> f[j + 1], end |-> Behind(f[j]) = {}] BY <1>2, <3>1
        <5>2. (Behind(f[j]) = {}) = FALSE BY <4>1
        <5> QED BY <5>1, <5>2
      <4>5. o = f[j + 1] => Met(j + 1) BY <3>1, <4>4
      <4> HIDE DEF Met
      <4> QED BY <3>1, <4>3, <4>5
    <3> HIDE DEF Met
    <3> QED BY <2>2, <3>2, <3>3
  <2> HIDE DEF T
  <2>3. \A j \in 0..n : j \in T BY <2>1, <2>2, UpTo
  <2>4. n \in T BY <2>3
  <2> QED BY <1>3, <2>4 DEF T
<1>12. Passes(r, oid, to)
  <2>1. \A k \in 1..Len(r) :
           /\ UpThrough(r[k].oid, to)
           /\ ~r[k].end => r[k].oid \in agent /\ Before(oid, r[k].oid)
           /\ r[k].end => Behind(to) = {}
    BY <1>2, <1>9
  <2>2. \A j, k \in 1..Len(r) : j < k => IF r[k].end THEN TRUE ELSE ~r[j].end /\ Before(r[j].oid, r[k].oid)
    BY <1>2, <1>10
  <2>3. \A o \in agent : Before(oid, o) =>
           Before(to, o) \/ \E k \in 1..Len(r) : r[k] = [oid |-> o, end |-> FALSE]
    BY <1>2, <1>11
  <2> QED BY <1>2, <1>8, <2>1, <2>2, <2>3 DEF Passes
<1> QED BY <1>2, <1>12 DEF r, to

\* Resuming a walk never leads back.
LEMMA Bumped ==
    ASSUME NEW oid \in OIDs, NEW k \in 1..Len(oid)
    PROVE  /\ Bump(oid, k) \in OIDs /\ Len(Bump(oid, k)) = k
           /\ \A j \in 1..(k - 1) : Bump(oid, k)[j] = oid[j]
           /\ Bump(oid, k)[k] = oid[k] + 1
           /\ Before(oid, Bump(oid, k)) /\ Before(oid, Append(Bump(oid, k), 0))
           /\ Append(Bump(oid, k), 0) \in OIDs
<1> DEFINE sub == SubSeq(oid, 1, k)
           b == Bump(oid, k)
           c == Append(b, 0)
<1>1. oid \in Seq(Nat) /\ Len(oid) \in Nat /\ k \in 1..Len(oid) BY DEF OIDs
<1>2. sub \in Seq(Nat) /\ Len(sub) = k /\ \A j \in 1..k : sub[j] = oid[j] BY <1>1
<1> HIDE DEF sub
<1>3. b = [sub EXCEPT ![k] = @ + 1] BY DEF Bump, sub
<1>4. oid[k] \in Nat BY <1>1
<1>5. sub[k] = oid[k] /\ sub[k] + 1 \in Nat BY <1>1, <1>2, <1>4
<1>6. b \in Seq(Nat) /\ Len(b) = k /\ b[k] = sub[k] + 1 /\ \A j \in 1..(k - 1) : b[j] = sub[j]
  BY <1>1, <1>2, <1>3, <1>5
<1> HIDE DEF b
<1>7. c \in Seq(Nat) /\ Len(c) = k + 1 /\ \A j \in 1..k : c[j] = b[j] BY <1>1, <1>6
<1>8. b # <<>> /\ c # <<>> BY <1>1, <1>6, <1>7
<1> HIDE DEF c
<1>9. Differ(oid, b, k) /\ k \in 1..Len(b) BY <1>1, <1>2, <1>4, <1>5, <1>6 DEF Differ
<1>10. Differ(oid, c, k) /\ k \in 1..Len(c)
  <2>1. \A j \in 1..k : j \in 1..(k - 1) \/ j = k OBVIOUS
  <2>2. \A j \in 1..(k - 1) : j \in 1..k /\ j \in 1..Len(oid) BY <1>1
  <2>3. c[k] = oid[k] + 1 BY <1>1, <1>5, <1>6, <1>7
  <2>4. \A j \in 1..(k - 1) : c[j] = oid[j] BY <1>2, <1>6, <1>7, <2>2
  <2> QED BY <1>1, <1>4, <1>7, <2>2, <2>3, <2>4 DEF Differ
<1>11. Before(oid, b) /\ Before(oid, c) BY <1>9, <1>10, BeforeIs
<1>12. \A j \in 1..(k - 1) : b[j] = oid[j] BY <1>2, <1>6
<1> QED BY <1>5, <1>6, <1>7, <1>8, <1>11, <1>12 DEF b, c, OIDs

LEMMA Resumes ==
    ASSUME NEW oid \in OIDs
    PROVE  oid_after_error(oid) \in OIDs /\ UpThrough(oid, oid_after_error(oid))
<1> DEFINE n == Len(oid)
           after == oid_after_error(oid)
<1>1. n \in Nat BY DEF OIDs
<1>2. \/ after = oid
      \/ n >= 2 /\ after \in {Bump(oid, n - 1), Bump(oid, n), Append(Bump(oid, n - 1), 0)}
  BY <1>1 DEF oid_after_error
<1>3. n >= 2 => n \in 1..n /\ n - 1 \in 1..n BY <1>1
<1> HIDE DEF after, n
<1>4. CASE after = oid BY <1>4 DEF UpThrough, after
<1>5. CASE n >= 2 /\ after \in {Bump(oid, n - 1), Bump(oid, n), Append(Bump(oid, n - 1), 0)}
  <2>1. \A k \in {n - 1, n} : k \in 1..Len(oid) BY <1>3, <1>5 DEF n
  <2>2. \A b \in {Bump(oid, n - 1), Bump(oid, n), Append(Bump(oid, n - 1), 0)} :
           b \in OIDs /\ Before(oid, b)
    BY <2>1, Bumped
  <2> QED BY <1>5, <2>2 DEF UpThrough, after
<1> QED BY <1>2, <1>4, <1>5

---------------------------------------------------------------------------
\* What a module makes of a record whose start OID it is not told.
LEMMA Recorded1 ==
    ASSUME NEW k, "module" \in DOMAIN k, k.module \in MODULES, NEW c, ~c.startOID, c.stopFlag \in BOOLEAN
    PROVE  /\ "module" \in DOMAIN Record(k, c).m /\ Record(k, c).m.module = k.module
           /\ k.module \in {"none", "delay"} =>
                 Record(k, c).ctl = IF c.stopFlag THEN "nodata" ELSE "line"
           /\ k.module = "numeric" => Record(k, c).ctl = "line"
           /\ k.module \in {"sql", "multiplex", "redis"} => Record(k, c).ctl # "line"
<1> DEFINE out == Record(k, c)
           Same(u) == "module" \in DOMAIN u /\ u.module = k.module
           Fine(o) == Same(o.m) /\ o.ctl # "line"
<1>1. \A u : Same(u) => Fine(NoData(u)) /\ Fine(MoreData(u)) /\ Fine(Failed(u)) /\ Fine(Raised(u))
                        /\ Same(Line(u).m) /\ Line(u).ctl = "line" /\ NoData(u).ctl = "nodata"
  BY DEF NoData, MoreData, Failed, Raised, Line
<1>2. \A u : Same(u) => Fine(Reference(u, TRUE, c)) /\ Fine(Reference(u, FALSE, c))
  BY <1>1 DEF Reference
<1>3. \A u, first : Same(u) => Fine(Reference(u, first, c))
  BY <1>1 DEF Reference
<1>4. \A u, s, o : Same(u) => Same(Keep(u, s, o)) BY DEF Keep
<1>5. Same(k) OBVIOUS
<1>6. CASE k.module \in {"none", "delay"}
  <2>1. out = PlainRecord(k, c) BY <1>6 DEF Record
  <2> HIDE DEF out, Fine, Same
  <2>2. out = IF c.stopFlag THEN NoData(k) ELSE Line(k) BY <2>1 DEF PlainRecord
  <2>3. Same(out.m) /\ out.ctl = IF c.stopFlag THEN "nodata" ELSE "line"
    BY <1>1, <1>5, <2>2 DEF Fine
  <2> QED BY <1>6, <2>3 DEF out, Same
<1>7. CASE k.module = "numeric"
  <2>1. out = NumericRecord(k, c) BY <1>7 DEF Record
  <2> HIDE DEF out, Fine, Same
  <2>2. out = Line(k) BY <2>1 DEF NumericRecord
  <2>3. Same(out.m) /\ out.ctl = "line" BY <1>1, <1>5, <2>2 DEF Fine
  <2> QED BY <1>7, <2>3 DEF out, Same
<1>8. CASE k.module \in {"sql", "multiplex", "redis"}
  <2>1. Fine(out)
    <3>1. CASE k.module = "sql"
      <4>1. out = SqlRecord(k, c) BY <3>1 DEF Record
      <4> HIDE DEF out, Fine, Same
      <4>2. \E u \in {k, Keep(k, 0, c.oid)} : \E first \in BOOLEAN :
               out \in {Failed(k), NoData(k), Reference(u, first, c)}
        BY <4>1 DEF SqlRecord
      <4> QED BY <1>1, <1>3, <1>4, <1>5, <4>2
    <3>2. CASE k.module = "multiplex"
      <4>1. out = MultiplexRecord(k, c) BY <3>2 DEF Record
      <4>2. Fine(MultiplexStop(k))
        <5>1. \A b, n : Same([k EXCEPT !.open = b]) /\ Same([k EXCEPT !.filenum = n]) OBVIOUS
        <5>2. \A u, l, n : Same(u) => Same([u EXCEPT !.left = l, !.filenum = n]) OBVIOUS
        <5> DEFINE closed == IF k.open THEN [k EXCEPT !.open = FALSE] ELSE [k EXCEPT !.filenum = 0]
                   next == [closed EXCEPT !.left = @ - 1, !.filenum = @ + 1]
        <5>3. Same(closed) BY <5>1
        <5>4. Same(next)
          <6> HIDE DEF closed
          <6> QED BY <5>3
        <5>5. MultiplexStop(k) = IF k.left = 0 THEN NoData(closed) ELSE MoreData(next)
          BY DEF MultiplexStop
        <5> HIDE DEF closed, next, Fine, Same
        <5> QED BY <1>1, <5>3, <5>4, <5>5
      <4>3. Same(MultiplexOpen(k)) BY DEF MultiplexOpen
      <4> HIDE DEF out, Fine, Same
      <4>4. \E first \in BOOLEAN : \E n : out \in {Failed(k), MultiplexStop(k),
                                         Reference(Keep(MultiplexOpen(k), n, c.oid), first, c)}
        BY <4>1 DEF MultiplexRecord
      <4> QED BY <1>1, <1>3, <1>4, <1>5, <4>2, <4>3, <4>4
    <3>3. CASE k.module = "redis"
      <4>1. out = RedisRecord(k, c) BY <3>3 DEF Record
      <4>2. Fine(RedisStop(k))
        <5> DEFINE listed == [k EXCEPT !.listed = Append(@, k.left)]
                   next == [listed EXCEPT !.left = @ - 1]
        <5>1. Same(listed) OBVIOUS
        <5>2. Same(next)
          <6> HIDE DEF listed
          <6> QED BY <5>1
        <5>3. RedisStop(k) = IF k.left = 0 THEN NoData(listed) ELSE MoreData(next) BY DEF RedisStop
        <5> HIDE DEF listed, next, Fine, Same
        <5> QED BY <1>1, <5>1, <5>2, <5>3
      <4> HIDE DEF out, Fine, Same
      <4>3. \E first \in BOOLEAN : \E n : out \in {Failed(k), RedisStop(k),
                                         Reference(Keep(k, n, c.oid), first, c)}
        BY <4>1 DEF RedisRecord
      <4> QED BY <1>1, <1>3, <1>4, <1>5, <4>2, <4>3
    <3> QED BY <1>8, <3>1, <3>2, <3>3
  <2> HIDE DEF out
  <2> QED BY <1>8, <2>1 DEF out
<1> QED BY <1>6, <1>7, <1>8 DEF MODULES

---------------------------------------------------------------------------
(***************************************************************************)
(* The data file and the response at hand, for a given agent and stop      *)
(* object: out is what is recorded, r what is to be recorded, `to' where   *)
(* the walk stands.                                                        *)
(***************************************************************************)
VarBinds == [oid : OIDs, end : BOOLEAN]

InRange(a, s) == {o \in a : Before(START, o) /\ (s = NoStop \/ Before(o, s))}

Outside(s, vb) == vb.end \/ (s # NoStop /\ ~Before(vb.oid, s))

In(out, o) == \E i \in 1..Len(out) : out[i] = o

\* The walk stands behind all that is recorded.
Past(out, p) == \A i \in 1..Len(out) : UpThrough(out[i], p)

\* The response is in order, ends where the walk stands, and tells the end.
Pending(a, r, to) ==
    /\ \A k \in 1..Len(r) : /\ UpThrough(r[k].oid, to)
                            /\ r[k].end => {o \in a : Before(to, o)} = {}
    /\ \A j, k \in 1..Len(r) : j < k /\ ~r[k].end => ~r[j].end /\ Before(r[j].oid, r[k].oid)

\* What is to be recorded is of the agent, and behind what is recorded.
Ahead(a, out, r) ==
    \A k \in 1..Len(r) : ~r[k].end =>
        /\ r[k].oid \in a /\ Before(START, r[k].oid)
        /\ \A i \in 1..Len(out) : Before(out[i], r[k].oid)

Ascending(a, s, out) ==
    /\ \A i \in 1..Len(out) : out[i] \in InRange(a, s)
    /\ \A i, j \in 1..Len(out) : i < j => Before(out[i], out[j])

\* Nothing wanted is skipped: it is recorded, in the response, or to come.
Covered(a, s, out, r, to) ==
    \A o \in InRange(a, s) : \/ Before(to, o) \/ In(out, o)
                             \/ \E k \in 1..Len(r) : r[k] = [oid |-> o, end |-> FALSE]

Full(a, s, out) == \A o \in InRange(a, s) : In(out, o)

\* One var-bind of the response, and what is left of it.
LEMMA HeadAndTail ==
    ASSUME NEW r \in Seq(VarBinds), r # <<>>
    PROVE  /\ Head(r) = r[1] /\ r[1] \in VarBinds /\ 1 \in 1..Len(r)
           /\ Tail(r) \in Seq(VarBinds) /\ Len(Tail(r)) = Len(r) - 1 /\ Len(r) \in Nat
           /\ \A k \in 1..Len(Tail(r)) : /\ Tail(r)[k] = r[k + 1] /\ k + 1 \in 1..Len(r) /\ 1 < k + 1
                                         /\ r[k + 1] \in VarBinds
<1> DEFINE V == VarBinds
<1> HIDE DEF V
<1>1. r \in Seq(V) BY DEF V
<1>2. Head(r) = r[1] /\ r[1] \in V /\ 1 \in 1..Len(r) /\ Len(r) \in Nat BY <1>1
<1>3. Tail(r) \in Seq(V) /\ Len(Tail(r)) = Len(r) - 1 BY <1>1
<1>4. \A k \in 1..Len(Tail(r)) : /\ Tail(r)[k] = r[k + 1] /\ k + 1 \in 1..Len(r) /\ 1 < k + 1
                                 /\ r[k + 1] \in V
  BY <1>1, <1>3
<1> QED BY <1>2, <1>3, <1>4 DEF V

LEMMA PendingTail ==
    ASSUME NEW r \in Seq(VarBinds), r # <<>>, NEW a, NEW to, Pending(a, r, to)
    PROVE  Pending(a, Tail(r), to)
<1> DEFINE t == Tail(r)
<1>1. Len(t) \in Nat /\ \A k \in 1..Len(t) : t[k] = r[k + 1] /\ k + 1 \in 1..Len(r)
  BY HeadAndTail
<1> HIDE DEF t
<1>2. ASSUME NEW j \in 1..Len(t), NEW k \in 1..Len(t), j < k, ~t[k].end
      PROVE  ~t[j].end /\ Before(t[j].oid, t[k].oid)
  <2>1. j + 1 < k + 1 BY <1>1, <1>2
  <2>2. ~r[k + 1].end /\ j + 1 \in 1..Len(r) /\ k + 1 \in 1..Len(r) BY <1>1, <1>2
  <2>3. ~r[j + 1].end /\ Before(r[j + 1].oid, r[k + 1].oid) BY <2>1, <2>2 DEF Pending
  <2> QED BY <1>1, <2>3
<1>3. \A k \in 1..Len(t) : UpThrough(t[k].oid, to) /\ (t[k].end => {o \in a : Before(to, o)} = {})
  BY <1>1 DEF Pending
<1>4. Pending(a, t, to) BY <1>2, <1>3 DEF Pending
<1> QED BY <1>4 DEF t

LEMMA Appended ==
    ASSUME NEW out \in Seq(OIDs), NEW o \in OIDs
    PROVE  /\ Append(out, o) \in Seq(OIDs) /\ Len(Append(out, o)) = Len(out) + 1 /\ Len(out) \in Nat
           /\ Append(out, o)[Len(out) + 1] = o
           /\ \A i \in 1..Len(out) : Append(out, o)[i] = out[i] /\ out[i] \in OIDs
           /\ \A i \in 1..(Len(out) + 1) : i \in 1..Len(out) \/ i = Len(out) + 1
<1> DEFINE S == OIDs
<1> HIDE DEF S
<1>1. out \in Seq(S) /\ o \in S BY DEF S
<1>2. /\ Append(out, o) \in Seq(S) /\ Len(Append(out, o)) = Len(out) + 1 /\ Len(out) \in Nat
      /\ Append(out, o)[Len(out) + 1] = o
      /\ \A i \in 1..Len(out) : Append(out, o)[i] = out[i] /\ out[i] \in S
  BY <1>1
<1> QED BY <1>2 DEF S

\* What is recorded stays recorded.
LEMMA StillIn ==
    ASSUME NEW out \in Seq(OIDs), NEW new \in OIDs
    PROVE  /\ In(Append(out, new), new)
           /\ \A o : In(out, o) => In(Append(out, new), o)
           /\ \A a, s : Full(a, s, out) => Full(a, s, Append(out, new))
<1> DEFINE w == Append(out, new)
<1>1. /\ Len(w) = Len(out) + 1 /\ Len(out) \in Nat /\ w[Len(out) + 1] = new
      /\ \A i \in 1..Len(out) : w[i] = out[i]
  BY Appended
<1> HIDE DEF w
<1>2. Len(out) + 1 \in 1..Len(w) /\ \A i \in 1..Len(out) : i \in 1..Len(w) BY <1>1
<1>3. In(w, new) BY <1>1, <1>2 DEF In
<1>4. ASSUME NEW o, In(out, o) PROVE In(w, o)
  BY <1>1, <1>2, <1>4 DEF In
<1>5. ASSUME NEW a, NEW s, Full(a, s, out) PROVE Full(a, s, w)
  BY <1>4, <1>5 DEF Full
<1> QED BY <1>3, <1>4, <1>5 DEF w

\* Recording the first var-bind keeps the order.
LEMMA TakeInOrder ==
    ASSUME NEW a, a \subseteq OIDs, NEW s, NEW to \in OIDs, NEW out \in Seq(OIDs),
           NEW r \in Seq(VarBinds), r # <<>>, Pending(a, r, to),
           Ahead(a, out, r), Past(out, to), Ascending(a, s, out)
    PROVE  /\ Ahead(a, out, Tail(r))
           /\ ~Outside(s, Head(r)) => /\ Ahead(a, Append(out, Head(r).oid), Tail(r))
                                      /\ Past(Append(out, Head(r).oid), to)
                                      /\ Ascending(a, s, Append(out, Head(r).oid))
<1> DEFINE t == Tail(r)
           new == Head(r).oid
           w == Append(out, new)
           n == Len(out)
<1>1. /\ Head(r) = r[1] /\ r[1] \in VarBinds /\ 1 \in 1..Len(r)
      /\ Len(t) \in Nat /\ Len(r) \in Nat
      /\ \A k \in 1..Len(t) : t[k] = r[k + 1] /\ k + 1 \in 1..Len(r) /\ 1 < k + 1
  BY HeadAndTail
<1>2. new \in OIDs BY <1>1 DEF VarBinds
<1>3. /\ w \in Seq(OIDs) /\ Len(w) = n + 1 /\ n \in Nat /\ w[n + 1] = new
      /\ \A i \in 1..n : w[i] = out[i] /\ out[i] \in OIDs
      /\ \A i \in 1..(n + 1) : i \in 1..n \/ i = n + 1
  BY <1>2, Appended
<1>4. new = r[1].oid BY <1>1
<1> HIDE DEF t, w, new
<1>5. Ahead(a, out, t) BY <1>1 DEF Ahead
<1>6. ASSUME ~Outside(s, Head(r))
      PROVE  Ahead(a, w, t) /\ Past(w, to) /\ Ascending(a, s, w)
  <2>1. ~r[1].end /\ (s = NoStop \/ Before(new, s)) BY <1>1, <1>4, <1>6 DEF Outside
  <2>2. new \in a /\ Before(START, new) /\ \A i \in 1..n : Before(out[i], new)
    BY <1>1, <1>4, <2>1 DEF Ahead
  <2>3. new \in InRange(a, s) BY <2>1, <2>2 DEF InRange
  <2>4. Ahead(a, w, t)
    <3> SUFFICES ASSUME NEW k \in 1..Len(t), ~t[k].end
                 PROVE  /\ t[k].oid \in a /\ Before(START, t[k].oid)
                        /\ \A i \in 1..Len(w) : Before(w[i], t[k].oid)
        BY DEF Ahead
    <3>1. t[k] = r[k + 1] /\ k + 1 \in 1..Len(r) /\ 1 < k + 1 BY <1>1
    <3>2. Before(new, t[k].oid) BY <1>1, <1>4, <3>1 DEF Pending
    <3>3. /\ t[k].oid \in a /\ Before(START, t[k].oid)
          /\ \A i \in 1..n : Before(out[i], t[k].oid)
      BY <1>5 DEF Ahead
    <3> QED BY <1>3, <3>2, <3>3
  <2>5. Past(w, to)
    <3>1. UpThrough(new, to) BY <1>1, <1>4 DEF Pending
    <3> QED BY <1>3, <3>1 DEF Past
  <2>6. Ascending(a, s, w)
    <3>1. \A i \in 1..Len(w) : w[i] \in InRange(a, s) BY <1>3, <2>3 DEF Ascending
    <3>2. ASSUME NEW i \in 1..Len(w), NEW j \in 1..Len(w), i < j PROVE Before(w[i], w[j])
      <4>1. i \in 1..n /\ i # n + 1 BY <1>3, <3>2
      <4>2. CASE j \in 1..n BY <1>3, <3>2, <4>1, <4>2 DEF Ascending
      <4>3. CASE j = n + 1 BY <1>3, <2>2, <4>1, <4>3
      <4> QED BY <1>3, <4>2, <4>3
    <3> QED BY <3>1, <3>2 DEF Ascending
  <2> QED BY <2>4, <2>5, <2>6
<1> QED BY <1>5, <1>6 DEF t, w, new

(***************************************************************************)
(* Recording the first var-bind skips nothing; and when it is outside of   *)
(* the range, everything in the range has been recorded before.            *)
(***************************************************************************)
LEMMA TakeAll ==
    ASSUME NEW a, a \subseteq OIDs, NEW s, s \in Seq(Nat), NEW to \in OIDs, NEW out \in Seq(OIDs),
           NEW r \in Seq(VarBinds), r # <<>>, Pending(a, r, to), Covered(a, s, out, r, to)
    PROVE  /\ Covered(a, s, Append(out, Head(r).oid), Tail(r), to)
           /\ Outside(s, Head(r)) => Full(a, s, out)
<1> DEFINE t == Tail(r)
           new == Head(r).oid
           w == Append(out, new)
<1>1. /\ Head(r) = r[1] /\ r[1] \in VarBinds /\ 1 \in 1..Len(r)
      /\ Len(t) \in Nat /\ Len(r) \in Nat /\ Len(t) = Len(r) - 1
      /\ \A k \in 1..Len(t) : t[k] = r[k + 1] /\ k + 1 \in 1..Len(r) /\ 1 < k + 1
  BY HeadAndTail
<1>2. new \in OIDs BY <1>1 DEF VarBinds
<1>3. In(w, new) /\ \A o : In(out, o) => In(w, o) BY <1>2, StillIn
<1>4. new = r[1].oid BY <1>1
<1> HIDE DEF t, w, new
<1>5. Covered(a, s, w, t, to)
  <2> SUFFICES ASSUME NEW o \in InRange(a, s)
               PROVE  \/ Before(to, o) \/ In(w, o)
                      \/ \E k \in 1..Len(t) : t[k] = [oid |-> o, end |-> FALSE]
      BY DEF Covered
  <2>1. \/ Before(to, o) \/ In(out, o)
        \/ \E k \in 1..Len(r) : r[k] = [oid |-> o, end |-> FALSE]
    BY DEF Covered
  <2>2. ASSUME NEW k \in 1..Len(r), r[k] = [oid |-> o, end |-> FALSE]
        PROVE  In(w, o) \/ \E l \in 1..Len(t) : t[l] = [oid |-> o, end |-> FALSE]
    <3>1. CASE k = 1 BY <1>3, <1>4, <2>2, <3>1
    <3>2. CASE k # 1
      <4>1. k - 1 \in 1..Len(t) /\ (k - 1) + 1 = k BY <1>1, <3>2
      <4> QED BY <1>1, <2>2, <4>1
    <3> QED BY <3>1, <3>2
  <2> QED BY <1>3, <2>1, <2>2
<1>6. ASSUME Outside(s, Head(r)), NEW o \in InRange(a, s) PROVE In(out, o)
  <2>1. o \in a /\ o \in Seq(Nat) /\ (s = NoStop \/ Before(o, s)) BY DEF InRange, OIDs
  <2>2. \/ Before(to, o) \/ In(out, o)
        \/ \E k \in 1..Len(r) : r[k] = [oid |-> o, end |-> FALSE]
    BY DEF Covered
  <2>3. UpThrough(new, to) /\ (r[1].end => {x \in a : Before(to, x)} = {}) BY <1>1, <1>4 DEF Pending
  <2>4. new \in Seq(Nat) /\ to \in Seq(Nat) BY <1>2 DEF OIDs
  <2>5. ASSUME ~r[1].end, new = o \/ Before(new, o) PROVE FALSE
    <3>1. s # NoStop /\ ~Before(new, s) BY <1>1, <1>4, <1>6, <2>5 DEF Outside
    <3> QED BY <2>1, <2>4, <2>5, <3>1, Transitive
  <2>6. ASSUME Before(to, o) PROVE FALSE
    <3>1. ~r[1].end BY <2>1, <2>3, <2>6
    <3>2. Before(new, o) BY <2>1, <2>3, <2>4, <2>6, UpThroughTransitive
    <3> QED BY <2>5, <3>1, <3>2
  <2>7. ASSUME NEW k \in 1..Len(r), r[k] = [oid |-> o, end |-> FALSE] PROVE FALSE
    <3>1. ~r[k].end /\ r[k].oid = o BY <2>7
    <3>2. k = 1 \/ 1 < k BY <1>1
    <3>3. ~r[1].end /\ (new = o \/ Before(new, o)) BY <1>1, <1>4, <3>1, <3>2 DEF Pending
    <3> QED BY <2>5, <3>3
  <2> QED BY <2>2, <2>6, <2>7
<1>7. Outside(s, Head(r)) => Full(a, s, out) BY <1>6 DEF Full
<1> QED BY <1>5, <1>7 DEF t, w, new
---------------------------------------------------------------------------
(***************************************************************************)
(* The inductive invariant.  Of a module that keeps records elsewhere the  *)
(* data file gets none; the others are never asked for another pass.       *)
(***************************************************************************)
ELSEWHERE == {"sql", "multiplex", "redis"}

Types ==
    /\ agent \in Agents /\ stop \in Stops /\ repetitions \in Repetitions
    /\ "module" \in DOMAIN m /\ m.module \in MODULES
    /\ pc \in {"send", "await", "record", "close", "done"}
    /\ \A p \in {start_oid, lastOID, at} : p \in OIDs /\ UpThrough(START, p)
    /\ errors \in Nat /\ flags \in [stop : BOOLEAN, restarted : BOOLEAN]
    /\ output \in Seq(OIDs) /\ rsp \in Seq(VarBinds)

\* The exit code.
Told == (pc = "done" \/ rc = -1) /\ (rc = 0 => pc = "done" /\ errors = 0)

Elsewhere == m.module \in ELSEWHERE => output = <<>>

AtHand == pc = "record" => lastOID = at /\ Pending(agent, rsp, at)

\* Where the walk goes on from is behind what is recorded.
Forward ==
    m.module \in {"none", "delay"} =>
        /\ Ascending(agent, stop, output)
        /\ pc = "send" => Past(output, start_oid) /\ Past(output, lastOID)
        /\ pc \in {"await", "record"} => Past(output, at) /\ Past(output, lastOID)
        /\ pc = "record" => Ahead(agent, output, rsp)

\* A walk without an error skips nothing.
Unbroken ==
    m.module \notin ELSEWHERE =>
        /\ pc = "record" => ~flags.restarted
        /\ errors = 0 =>
              /\ pc = "send" => start_oid = START
              /\ pc = "await" => Covered(agent, stop, output, <<>>, at)
              /\ pc = "record" => /\ Covered(agent, stop, output, rsp, at)
                                  /\ flags.stop => Full(agent, stop, output)
              /\ pc \in {"close", "done"} => Full(agent, stop, output)

IInv == Types /\ Told /\ Elsewhere /\ AtHand /\ Forward /\ Unbroken

LEMMA Given ==
    Types => /\ agent \subseteq OIDs /\ stop \in Seq(Nat) /\ START \in OIDs
             /\ repetitions \in Nat \ {0}
<1> SUFFICES ASSUME Types
             PROVE  /\ agent \subseteq OIDs /\ stop \in Seq(Nat) /\ START \in OIDs
                    /\ repetitions \in Nat \ {0}
    OBVIOUS
<1>1. agent \in Agents /\ stop \in Stops /\ repetitions \in Repetitions BY DEF Types
<1>2. agent \subseteq OIDs BY <1>1, AgentWalkAssumption DEF OIDs, Arcs
<1>3. stop \in Seq(Nat)
  <2>1. NoStop \in Seq(Nat) BY DEF NoStop
  <2>2. stop = NoStop \/ Arcs(stop) BY <1>1, AgentWalkAssumption
  <2> QED BY <2>1, <2>2 DEF Arcs
<1>4. START \in OIDs BY AgentWalkAssumption DEF OIDs, Arcs
<1>5. repetitions \in Nat \ {0} BY <1>1, AgentWalkAssumption
<1> QED BY <1>2, <1>3, <1>4, <1>5

LEMMA InitInv == Init => IInv
<1> SUFFICES ASSUME Init PROVE IInv OBVIOUS
<1>1. START \in OIDs BY AgentWalkAssumption DEF OIDs, Arcs
<1>2. "module" \in DOMAIN m /\ m.module \in MODULES BY DEF Init, Fresh
<1>3. Types
  <2>1. \A p \in {start_oid, lastOID, at} : p = START BY DEF Init
  <2>2. \A p \in {start_oid, lastOID, at} : p \in OIDs /\ UpThrough(START, p)
    BY <1>1, <2>1 DEF UpThrough
  <2>3. output \in Seq(OIDs) /\ rsp \in Seq(VarBinds) BY DEF Init
  <2>4. flags \in [stop : BOOLEAN, restarted : BOOLEAN] BY DEF Init, NoFlags
  <2> QED BY <1>2, <2>2, <2>3, <2>4 DEF Init, Types
<1>4. Past(output, start_oid) /\ Past(output, lastOID) /\ Ascending(agent, stop, output)
  BY DEF Init, Past, Ascending
<1>5. pc = "send" /\ rc = -1 /\ output = <<>> /\ start_oid = START BY DEF Init
<1> QED BY <1>3, <1>4, <1>5 DEF IInv, Told, Elsewhere, AtHand, Forward, Unbroken

LEMMA SendInv == IInv /\ Send => IInv'
<1> SUFFICES ASSUME IInv, Send PROVE IInv' OBVIOUS
<1>1. /\ pc = "send" /\ pc' = "await" /\ at' = start_oid
      /\ UNCHANGED <<agent, stop, repetitions, m, start_oid, lastOID, errors, rsp, flags, output, rc>>
  BY DEF Send, options, counts
<1>2. Types' BY <1>1 DEF IInv, Types
<1>3. Told' /\ Elsewhere' /\ AtHand' BY <1>1 DEF IInv, Told, Elsewhere, AtHand
<1>4. Forward' BY <1>1 DEF IInv, Forward
<1>5. start_oid = START => Covered(agent, stop, output, <<>>, start_oid)
  BY DEF Covered, InRange
<1>6. Unbroken' BY <1>1, <1>5 DEF IInv, Unbroken
<1> QED BY <1>2, <1>3, <1>4, <1>6 DEF IInv

LEMMA AnswerInv == IInv /\ Answer => IInv'
<1> SUFFICES ASSUME IInv, Answer PROVE IInv' OBVIOUS
<1>1. /\ pc = "await" /\ pc' = "record" /\ flags' = NoFlags
      /\ lastOID' = at' /\ at' = rsp'[Len(rsp')].oid
      /\ UNCHANGED <<agent, stop, repetitions, m, start_oid, errors, output, rc>>
  BY DEF Answer, options
<1>2. PICK n \in 1..repetitions : rsp' = Served(at, n) BY DEF Answer
<1>3. /\ agent \in Agents /\ at \in OIDs /\ UpThrough(START, at) /\ n \in Nat \ {0}
      /\ START \in OIDs /\ agent \subseteq OIDs
  BY <1>2, Given DEF IInv, Types
<1> DEFINE r == Served(at, n)
           to == r[n].oid
<1>4. Len(r) = n /\ Passes(r, at, to) BY <1>3, ServedPasses
<1> HIDE DEF r
<1>5. rsp' = r /\ at' = to /\ lastOID' = to BY <1>1, <1>2, <1>4 DEF r
<1> HIDE DEF to
<1>6. r \in Seq(VarBinds) /\ to \in OIDs /\ UpThrough(at, to) BY <1>4 DEF Passes, VarBinds
<1>7. START \in Seq(Nat) /\ at \in Seq(Nat) /\ to \in Seq(Nat) BY <1>3, <1>6 DEF OIDs
<1>8. UpThrough(START, to) BY <1>3, <1>6, <1>7, UpThroughTransitive
<1>9. Pending(agent, r, to)
  BY <1>4 DEF Passes, Pending, Behind
<1>10. Types'
  <2>1. flags' \in [stop : BOOLEAN, restarted : BOOLEAN] BY <1>1 DEF NoFlags
  <2> QED BY <1>1, <1>5, <1>6, <1>8, <2>1 DEF IInv, Types
<1>11. Told' /\ Elsewhere' /\ AtHand' BY <1>1, <1>5, <1>9 DEF IInv, Told, Elsewhere, AtHand
<1>12. Forward'
  <2> SUFFICES ASSUME m.module \in {"none", "delay"}
               PROVE  /\ Ascending(agent, stop, output) /\ Past(output, to) /\ Ahead(agent, output, r)
      BY <1>1, <1>5 DEF Forward
  <2>1. Ascending(agent, stop, output) /\ Past(output, at) BY <1>1 DEF IInv, Forward
  <2>2. \A i \in 1..Len(output) : output[i] \in Seq(Nat) /\ UpThrough(output[i], at)
    BY <2>1 DEF IInv, Types, Past, OIDs
  <2>3. Past(output, to) BY <1>6, <1>7, <2>2, UpThroughTransitive DEF Past
  <2>4. ASSUME NEW k \in 1..Len(r), ~r[k].end
        PROVE  /\ r[k].oid \in agent /\ Before(START, r[k].oid)
               /\ \A i \in 1..Len(output) : Before(output[i], r[k].oid)
    <3>1. r[k].oid \in agent /\ Before(at, r[k].oid) BY <1>4, <2>4 DEF Passes
    <3>2. r[k].oid \in Seq(Nat) BY <1>3, <3>1 DEF OIDs
    <3> QED BY <1>3, <1>7, <2>2, <3>1, <3>2, UpThroughTransitive
  <2>5. Ahead(agent, output, r) BY <2>4 DEF Ahead
  <2> QED BY <2>1, <2>3, <2>5
<1>13. Unbroken'
  <2>1. ~flags'.restarted /\ ~flags'.stop BY <1>1 DEF NoFlags
  <2>2. ASSUME Covered(agent, stop, output, <<>>, at) PROVE Covered(agent, stop, output, r, to)
    <3> SUFFICES ASSUME NEW o \in InRange(agent, stop)
                 PROVE  \/ Before(to, o) \/ In(output, o)
                        \/ \E k \in 1..Len(r) : r[k] = [oid |-> o, end |-> FALSE]
        BY DEF Covered
    <3>1. Before(at, o) \/ In(output, o) BY <2>2 DEF Covered
    <3>2. o \in agent BY DEF InRange
    <3> QED BY <1>4, <3>1, <3>2 DEF Passes
  <2> QED BY <1>1, <1>5, <2>1, <2>2 DEF IInv, Unbroken
<1> QED BY <1>10, <1>11, <1>12, <1>13 DEF IInv

LEMMA WalkEndsInv == IInv /\ WalkEnds => IInv'
<1> SUFFICES ASSUME IInv, WalkEnds PROVE IInv' OBVIOUS
<1>1. /\ pc = "await" /\ pc' = "close" /\ Behind(at) = {}
      /\ UNCHANGED <<agent, stop, repetitions, m, start_oid, lastOID, errors, rsp, flags, at, output, rc>>
  BY DEF WalkEnds, options, counts
<1>2. Types' BY <1>1 DEF IInv, Types
<1>3. Told' /\ Elsewhere' /\ AtHand' BY <1>1 DEF IInv, Told, Elsewhere, AtHand
<1>4. Forward' BY <1>1 DEF IInv, Forward
<1>5. Covered(agent, stop, output, <<>>, at) => Full(agent, stop, output)
  BY <1>1 DEF Covered, Full, InRange, Behind
<1>6. Unbroken' BY <1>1, <1>5 DEF IInv, Unbroken
<1> QED BY <1>2, <1>3, <1>4, <1>6 DEF IInv

LEMMA BreakOffInv == IInv /\ BreakOff => IInv'
<1> SUFFICES ASSUME IInv, BreakOff PROVE IInv' OBVIOUS
<1>1. /\ pc = "await" /\ errors' = errors + 1
      /\ UNCHANGED <<agent, stop, repetitions, m, rsp, flags, at, output, rc>>
  BY DEF BreakOff, options
<1>2. errors' \in Nat /\ errors' # 0 BY <1>1 DEF IInv, Types
<1>3. \/ pc' = "close" /\ UNCHANGED <<start_oid, lastOID>>
      \/ /\ pc' = "send" /\ lastOID' = start_oid'
         /\ \E failed \in {at, lastOID} : start_oid' = oid_after_error(failed)
  BY DEF BreakOff
<1>4. CASE pc' = "close" /\ UNCHANGED <<start_oid, lastOID>>
  <2>1. Types' BY <1>1, <1>2, <1>4 DEF IInv, Types
  <2>2. Told' /\ Elsewhere' /\ AtHand' BY <1>1, <1>4 DEF IInv, Told, Elsewhere, AtHand
  <2>3. Forward' BY <1>1, <1>4 DEF IInv, Forward
  <2>4. Unbroken' BY <1>1, <1>2, <1>4 DEF IInv, Unbroken
  <2> QED BY <2>1, <2>2, <2>3, <2>4 DEF IInv
<1>5. CASE /\ pc' = "send" /\ lastOID' = start_oid'
           /\ \E failed \in {at, lastOID} : start_oid' = oid_after_error(failed)
  <2>1. PICK failed \in {at, lastOID} : start_oid' = oid_after_error(failed) BY <1>5
  <2>2. failed \in OIDs /\ UpThrough(START, failed) /\ START \in OIDs BY Given DEF IInv, Types
  <2>3. start_oid' \in OIDs /\ UpThrough(failed, start_oid') BY <2>1, <2>2, Resumes
  <2>4. START \in Seq(Nat) /\ failed \in Seq(Nat) /\ start_oid' \in Seq(Nat) BY <2>2, <2>3 DEF OIDs
  <2>5. UpThrough(START, start_oid') BY <2>2, <2>3, <2>4, UpThroughTransitive
  <2>6. Types' BY <1>1, <1>2, <1>5, <2>3, <2>5 DEF IInv, Types
  <2>7. Told' /\ Elsewhere' /\ AtHand' BY <1>1, <1>5 DEF IInv, Told, Elsewhere, AtHand
  <2>8. Forward'
    <3> SUFFICES ASSUME m.module \in {"none", "delay"}
                 PROVE  Ascending(agent, stop, output) /\ Past(output, start_oid')
        BY <1>1, <1>5 DEF Forward
    <3>1. Ascending(agent, stop, output) /\ Past(output, failed) BY <1>1 DEF IInv, Forward
    <3>2. \A i \in 1..Len(output) : output[i] \in Seq(Nat) BY DEF IInv, Types, OIDs
    <3>3. Past(output, start_oid') BY <2>3, <2>4, <3>1, <3>2, UpThroughTransitive DEF Past
    <3> QED BY <3>1, <3>3
  <2>9. Unbroken' BY <1>1, <1>2, <1>5 DEF IInv, Unbroken
  <2> QED BY <2>6, <2>7, <2>8, <2>9 DEF IInv
<1> QED BY <1>3, <1>4, <1>5

LEMMA RecordedInv == IInv /\ Recorded => IInv'
<1> SUFFICES ASSUME IInv, Recorded PROVE IInv' OBVIOUS
<1>1. /\ pc = "record" /\ rsp = <<>>
      /\ IF flags.restarted THEN pc' = "send" /\ start_oid' = START
         ELSE start_oid' = start_oid /\ pc' = IF flags.stop THEN "close" ELSE "await"
      /\ UNCHANGED <<agent, stop, repetitions, m, lastOID, errors, rsp, flags, at, output, rc>>
  BY DEF Recorded, options, counts
<1>2. START \in OIDs BY Given DEF IInv
<1>3. Types' BY <1>1, <1>2 DEF IInv, Types, UpThrough
<1>4. Told' /\ Elsewhere' /\ AtHand' BY <1>1 DEF IInv, Told, Elsewhere, AtHand
<1>5. m.module \in {"none", "delay"} => m.module \notin ELSEWHERE BY DEF ELSEWHERE
<1>6. Forward' BY <1>1, <1>5 DEF IInv, Forward, Unbroken
<1>7. Unbroken' BY <1>1 DEF IInv, Unbroken
<1> QED BY <1>3, <1>4, <1>6, <1>7 DEF IInv

LEMMA CloseInv == IInv /\ Close => IInv'
<1> SUFFICES ASSUME IInv, Close PROVE IInv' OBVIOUS
<1>1. /\ pc = "close" /\ pc' = "done" /\ m' = Shutdown(m) /\ rc' = IF errors > 0 THEN 1 ELSE 0
      /\ UNCHANGED <<agent, stop, repetitions, start_oid, lastOID, errors, rsp, flags, at, output>>
  BY DEF Close, options, counts
<1>2. "module" \in DOMAIN m' /\ m'.module = m.module BY <1>1 DEF Shutdown, IInv, Types
<1>3. Types' BY <1>1, <1>2 DEF IInv, Types
<1>4. Told' BY <1>1 DEF IInv, Told, Types
<1>5. Elsewhere' /\ AtHand' BY <1>1, <1>2 DEF IInv, Elsewhere, AtHand
<1>6. Forward' BY <1>1, <1>2 DEF IInv, Forward
<1>7. Unbroken' BY <1>1, <1>2 DEF IInv, Unbroken
<1> QED BY <1>3, <1>4, <1>5, <1>6, <1>7 DEF IInv

LEMMA RecordOneInv == IInv /\ RecordOne => IInv'
<1> SUFFICES ASSUME IInv, RecordOne PROVE IInv' OBVIOUS
<1> DEFINE vb == Head(rsp)
           stop_flag == flags.stop \/ OutOfRange(vb)
           c == [oid |-> vb.oid, stopFlag |-> stop_flag, count |-> count,
                 total |-> total, startOID |-> FALSE]
           done == Record(m, c)
<1>1. /\ pc = "record" /\ rsp # <<>> /\ rsp' = Tail(rsp)
      /\ UNCHANGED <<agent, stop, repetitions, start_oid, lastOID, errors, at, rc>>
  BY DEF RecordOne, options
<1>2. /\ m' = done.m
      /\ flags' = IF done.ctl = "moredata" THEN [stop |-> TRUE, restarted |-> TRUE]
                  ELSE [flags EXCEPT !.stop = stop_flag]
      /\ output' = IF done.ctl = "line" THEN Append(output, vb.oid) ELSE output
      /\ pc' = IF done.ctl = "raise" THEN "close" ELSE pc
  BY DEF RecordOne
<1>3. stop_flag \in BOOLEAN /\ (stop_flag <=> flags.stop \/ Outside(stop, vb))
  BY DEF OutOfRange, Outside, IInv, Types
<1>4. ~c.startOID /\ c.stopFlag = stop_flag OBVIOUS
<1> HIDE DEF stop_flag, c
<1>5. /\ "module" \in DOMAIN m' /\ m'.module = m.module
      /\ m.module \in {"none", "delay"} => done.ctl = IF stop_flag THEN "nodata" ELSE "line"
      /\ m.module = "numeric" => done.ctl = "line"
      /\ m.module \in {"sql", "multiplex", "redis"} => done.ctl # "line"
  BY <1>2, <1>3, <1>4, Recorded1 DEF IInv, Types
<1> HIDE DEF done
<1>6. rsp \in Seq(VarBinds) /\ Head(rsp) = rsp[1] /\ rsp[1] \in VarBinds /\ Tail(rsp) \in Seq(VarBinds)
  BY <1>1, HeadAndTail DEF IInv, Types
<1>7. vb.oid \in OIDs BY <1>6 DEF VarBinds
<1>8. /\ agent \subseteq OIDs /\ stop \in Seq(Nat) /\ at \in OIDs /\ output \in Seq(OIDs)
      /\ Pending(agent, rsp, at) /\ lastOID = at
  BY <1>1, Given DEF IInv, Types, AtHand
<1> HIDE DEF vb
<1>9. Types'
  <2>1. flags' \in [stop : BOOLEAN, restarted : BOOLEAN] BY <1>2, <1>3 DEF IInv, Types
  <2>2. output' \in Seq(OIDs) BY <1>2, <1>7, <1>8, Appended
  <2>3. pc' \in {"record", "close"} BY <1>1, <1>2
  <2> QED BY <1>1, <1>5, <1>6, <2>1, <2>2, <2>3 DEF IInv, Types
<1>10. Told' BY <1>1, <1>2 DEF IInv, Told
<1>11. Elsewhere' BY <1>2, <1>5 DEF IInv, Elsewhere, ELSEWHERE
<1>12. Pending(agent, Tail(rsp), at) BY <1>1, <1>6, <1>8, PendingTail
<1>13. AtHand' BY <1>1, <1>8, <1>12 DEF AtHand
<1>14. Forward'
  <2> SUFFICES ASSUME m.module \in {"none", "delay"}
               PROVE  /\ pc' = "record" /\ Ascending(agent, stop, output') /\ Past(output', at)
                      /\ Ahead(agent, output', Tail(rsp))
      BY <1>1, <1>5, <1>8 DEF Forward
  <2>1. Ahead(agent, output, rsp) /\ Past(output, at) /\ Ascending(agent, stop, output)
    BY <1>1 DEF IInv, Forward
  <2>2. done.ctl = IF stop_flag THEN "nodata" ELSE "line" BY <1>5
  <2>3. pc' = "record" BY <1>1, <1>2, <2>2
  <2>4. CASE stop_flag
    <3>1. output' = output BY <1>2, <2>2, <2>4
    <3>2. Ahead(agent, output, Tail(rsp)) BY <1>1, <1>6, <1>8, <2>1, TakeInOrder
    <3> QED BY <2>1, <2>3, <3>1, <3>2
  <2>5. CASE ~stop_flag
    <3>1. output' = Append(output, Head(rsp).oid) BY <1>2, <2>2, <2>5 DEF vb
    <3>2. ~Outside(stop, Head(rsp)) BY <1>3, <2>5 DEF vb
    <3>3. /\ Ahead(agent, Append(output, Head(rsp).oid), Tail(rsp))
          /\ Past(Append(output, Head(rsp).oid), at)
          /\ Ascending(agent, stop, Append(output, Head(rsp).oid))
      BY <1>1, <1>6, <1>8, <2>1, <3>2, TakeInOrder
    <3> QED BY <2>3, <3>1, <3>3
  <2> QED BY <1>3, <2>4, <2>5
<1>15. Unbroken'
  <2> SUFFICES ASSUME m.module \notin ELSEWHERE
               PROVE  /\ pc' = "record" /\ ~flags'.restarted
                      /\ errors = 0 => /\ Covered(agent, stop, output', Tail(rsp), at)
                                       /\ flags'.stop => Full(agent, stop, output')
      BY <1>1, <1>5 DEF Unbroken
  <2>1. m.module \in {"none", "delay", "numeric"} BY DEF IInv, Types, MODULES, ELSEWHERE
  <2>2. done.ctl \in {"nodata", "line"} /\ (~stop_flag => done.ctl = "line") BY <1>3, <1>5, <2>1
  <2>3. pc' = "record" /\ flags' = [flags EXCEPT !.stop = stop_flag] BY <1>1, <1>2, <2>2
  <2>4. ~flags'.restarted /\ flags'.stop = stop_flag
    BY <1>1, <2>3 DEF IInv, Types, Unbroken
  <2>5. ASSUME errors = 0
        PROVE  Covered(agent, stop, output', Tail(rsp), at) /\ (stop_flag => Full(agent, stop, output'))
    <3>1. Covered(agent, stop, output, rsp, at) /\ (flags.stop => Full(agent, stop, output))
      BY <1>1, <2>5 DEF IInv, Unbroken
    <3>2. /\ Covered(agent, stop, Append(output, Head(rsp).oid), Tail(rsp), at)
          /\ Outside(stop, Head(rsp)) => Full(agent, stop, output)
      BY <1>1, <1>6, <1>8, <3>1, TakeAll
    <3>3. stop_flag => Full(agent, stop, output) BY <1>3, <3>1, <3>2 DEF vb
    <3>4. Full(agent, stop, output) => Full(agent, stop, Append(output, vb.oid))
      BY <1>7, <1>8, StillIn
    <3>5. stop_flag => Full(agent, stop, output') BY <1>2, <3>3, <3>4
    <3>6. CASE stop_flag
      <4>1. Covered(agent, stop, output', Tail(rsp), at) BY <3>5, <3>6 DEF Full, Covered
      <4> QED BY <3>5, <4>1
    <3>7. CASE ~stop_flag
      <4>1. output' = Append(output, Head(rsp).oid) BY <1>2, <2>2, <3>7 DEF vb
      <4> QED BY <3>2, <3>7, <4>1
    <3> QED BY <1>3, <3>6, <3>7
  <2> QED BY <2>3, <2>4, <2>5
<1> QED BY <1>9, <1>10, <1>11, <1>13, <1>14, <1>15 DEF IInv

LEMMA NextInv == IInv /\ [Next]_vars => IInv'
<1> SUFFICES ASSUME IInv, [Next]_vars PROVE IInv' OBVIOUS
<1>1. CASE Next
  BY <1>1, SendInv, AnswerInv, WalkEndsInv, BreakOffInv, RecordOneInv, RecordedInv, CloseInv
     DEF Next
<1>2. CASE UNCHANGED vars
  BY <1>2 DEF vars, options, counts, IInv, Types, Told, Elsewhere, AtHand, Forward, Unbroken
<1> QED BY <1>1, <1>2

\* The invariant says what is promised of the data file.
LEMMA Promised == IInv => InOrder /\ SuccessIsComplete
<1> SUFFICES ASSUME IInv PROVE InOrder /\ SuccessIsComplete OBVIOUS
<1>1. InRange(agent, stop) = Wanted BY DEF InRange, Wanted
<1>2. InOrder
  <2>1. m.module \in {"none", "delay", "numeric"} \/ m.module \in ELSEWHERE
    BY DEF IInv, Types, MODULES, ELSEWHERE
  <2>2. CASE m.module \in ELSEWHERE
    <3>1. Len(output) = 0 BY <2>2 DEF IInv, Elsewhere
    <3> QED BY <3>1 DEF InOrder
  <2>3. CASE m.module \in {"none", "delay"}
    BY <1>1, <2>3 DEF IInv, Forward, Ascending, InOrder
  <2> QED BY <2>1, <2>2, <2>3 DEF InOrder
<1>3. SuccessIsComplete
  <2> SUFFICES ASSUME rc = 0, m.module \in {"none", "delay", "numeric"}, NEW o \in Wanted
               PROVE  Writes(o)
      BY DEF SuccessIsComplete
  <2>1. m.module \notin ELSEWHERE /\ pc = "done" /\ errors = 0 BY DEF ELSEWHERE, IInv, Told
  <2>2. Full(agent, stop, output) BY <2>1 DEF IInv, Unbroken
  <2> QED BY <1>1, <2>2 DEF Full, In, Writes
<1> QED BY <1>2, <1>3

(* Whatever agent is walked, however often it breaks off, and whatever its *)
(* responses are cut to, the data file has each OID once, in order, and    *)
(* none from outside of the range (cmd2rec.py:560-677).                    *)
THEOREM WalkInOrder == Spec => []InOrder
<1>1. IInv => InOrder BY Promised
<1> QED BY <1>1, InitInv, NextInv, PTL DEF Spec

(* A recorder that exits with 0 has recorded all that the agent has in the *)
(* range (cmd2rec.py:734-834).                                             *)
THEOREM WalkComplete == Spec => []SuccessIsComplete
<1>1. IInv => SuccessIsComplete BY Promised
<1> QED BY <1>1, InitInv, NextInv, PTL DEF Spec
=============================================================================
