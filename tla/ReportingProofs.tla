---------------------------- MODULE ReportingProofs ----------------------------
(***************************************************************************)
(* Reports, for any number of responders, however they are set up: every   *)
(* packet is counted in one of them, their counters agree with each other, *)
(* and those of one responder do not replace each other.                   *)
(***************************************************************************)
EXTENDS Reporting, FiniteSetTheorems, NaturalsInduction, WellFoundedInduction, TLAPS

Counters == [packets : Nat, pdus : Nat, varbinds : Nat, failures : Nat, calls : Nat,
             vfailures : Nat]

Counting == /\ setup \in Setups
            /\ metrics \in [Responders -> [used : BOOLEAN, n : Counters]]
            /\ \A r \in reports : r.by \in Responders /\ r.metrics \in Counters

IInv == Counting /\ CountersAgree

\* What is empty agrees, as a responder that has just started or dumped.
LEMMA EmptyAgrees == Empty \in [used : BOOLEAN, n : Counters] /\ \A k : Agreeing(Empty.n, k)
BY ReportingAssumption DEF Empty, Nothing, Counters, Agreeing, Unprocessed

\* An update keeps counters that agree in agreement.
LEMMA UpdateAgrees ==
    ASSUME setup \in Setups, NEW p \in Responders, NEW n \in Counters, NEW u \in Updates,
           Agreeing(n, setup[p].kind)
    PROVE  Updated(p, n, u) \in Counters /\ Agreeing(Updated(p, n, u), setup[p].kind)
<1> DEFINE m == Pdus([n EXCEPT !.packets = Add(@, IsPacket(u))], u)
<1>1. /\ u.of \in {"request", "unopened", "call", "missing"}
      /\ u.varbinds \in Nat /\ u.failures \in Nat /\ u.failures <= MaxErrors * u.varbinds
      /\ u.of # "request" => u.varbinds = 0 /\ u.failures = 0
  <2>1. CASE u.of = "request"
    BY <2>1, ReportingAssumption DEF Updates
  <2>2. CASE u.of # "request"
    <3>1. u.of \in {"unopened", "call", "missing"} /\ u.varbinds = 0 /\ u.failures = 0
      BY <2>2 DEF Updates
    <3> QED BY <3>1, ReportingAssumption
  <2> QED BY <2>1, <2>2
<1>2. setup[p].kind \in {"null", "minimal", "full"} BY ReportingAssumption
<1>3. m \in Counters /\ Agreeing(m, setup[p].kind)
  <2> DEFINE a == [n EXCEPT !.packets = Add(n.packets, IsPacket(u))]
             failed == a.failures + u.failures + IF u.of = "unopened" THEN 1 ELSE 0
  <2>1. Add(n.packets, IsPacket(u)) \in Nat
    BY DEF Add, Counters
  <2>2. /\ a \in Counters /\ a.packets = Add(n.packets, IsPacket(u)) /\ a.pdus = n.pdus
        /\ a.varbinds = n.varbinds /\ a.failures = n.failures
    BY <2>1 DEF Counters
  <2>3. m = [a EXCEPT !.pdus = Add(a.pdus, IsPdu(u)), !.varbinds = a.varbinds + u.varbinds,
                     !.failures = failed]
    BY DEF Pdus
  <2> HIDE DEF a, m
  <2>4. a.pdus \in Nat /\ a.varbinds \in Nat /\ a.failures \in Nat /\ a.packets \in Nat
    BY <2>2 DEF Counters
  <2>5. Add(a.pdus, IsPdu(u)) \in Nat /\ a.varbinds + u.varbinds \in Nat /\ failed \in Nat
    BY <1>1, <2>4 DEF Add
  <2> HIDE DEF failed
  <2>6. /\ m \in Counters /\ m.packets = a.packets /\ m.pdus = Add(a.pdus, IsPdu(u))
        /\ m.varbinds = a.varbinds + u.varbinds /\ m.failures = failed
    BY <2>2, <2>3, <2>5 DEF Counters
  <2>7. n.packets \in Nat /\ n.pdus \in Nat /\ n.failures \in Nat /\ n.varbinds \in Nat
    BY DEF Counters
  <2>8. /\ 0 <= m.packets - m.pdus /\ m.packets - m.pdus <= m.failures
        /\ setup[p].kind = "full" => m.failures <= m.packets - m.pdus + MaxErrors * m.varbinds
    <3> DEFINE before == MaxErrors * n.varbinds
               more == MaxErrors * u.varbinds
    <3>1. /\ 0 <= n.packets - n.pdus /\ n.packets - n.pdus <= n.failures
          /\ setup[p].kind = "full" => n.failures <= n.packets - n.pdus + before
      BY DEF Agreeing, Unprocessed
    <3>2. MaxErrors * m.varbinds = before + more
      BY <1>1, <2>2, <2>6, <2>7, ReportingAssumption
    <3>3. before \in Nat /\ more \in Nat /\ u.failures <= more
      BY <1>1, <2>7, ReportingAssumption
    <3> HIDE DEF before, more
    <3>4. CASE u.of = "request"
      <4>1. m.packets = n.packets + 1 /\ m.pdus = n.pdus + 1
        BY <2>2, <2>6, <3>4 DEF Add, IsPdu, IsPacket
      <4>2. m.failures = n.failures + u.failures
        BY <1>1, <2>2, <2>6, <2>7, <3>4 DEF failed
      <4> QED BY <1>1, <2>7, <3>1, <3>2, <3>3, <4>1, <4>2
    <3>5. CASE u.of = "unopened"
      <4>1. m.packets = n.packets + 1 /\ m.pdus = n.pdus
        BY <2>2, <2>6, <3>5 DEF Add, IsPdu, IsPacket
      <4>2. m.failures = n.failures + 1
        BY <1>1, <2>2, <2>6, <2>7, <3>5 DEF failed
      <4> QED BY <2>7, <3>1, <3>2, <3>3, <4>1, <4>2
    <3>6. CASE u.of \in {"call", "missing"}
      <4>1. m.packets = n.packets /\ m.pdus = n.pdus
        BY <2>2, <2>6, <3>6 DEF Add, IsPdu, IsPacket
      <4>2. m.failures = n.failures
        BY <1>1, <2>2, <2>6, <2>7, <3>6 DEF failed
      <4> QED BY <2>7, <3>1, <3>2, <3>3, <4>1, <4>2
    <3> QED BY <1>1, <3>4, <3>5, <3>6
  <2> QED BY <2>6, <2>8 DEF Agreeing, Unprocessed
<1>5. CASE ~Scoped(p) BY <1>5 DEF Updated
<1>6. CASE Scoped(p) /\ setup[p].kind = "full"
  <2>1. Updated(p, n, u) = Variations(m, u) BY <1>6 DEF Updated
  <2> HIDE DEF m
  <2>2. Variations(m, u) \in Counters /\ Agreeing(Variations(m, u), setup[p].kind)
    <3>1. CASE IsPacket(u) BY <1>3, <3>1 DEF Variations
    <3>2. CASE ~IsPacket(u)
      <4> DEFINE calls == IF u.of = "call" THEN 1 ELSE 0
                 vfailures == Add(m.vfailures, u.of = "missing")
      <4>1. Variations(m, u) = [m EXCEPT !.calls = calls, !.vfailures = vfailures]
        BY <3>2 DEF Variations
      <4>2. calls \in Nat /\ vfailures \in Nat BY <1>3 DEF Add, Counters
      <4> HIDE DEF calls, vfailures
      <4> QED BY <1>3, <4>1, <4>2 DEF Counters, Agreeing, Unprocessed
    <3> QED BY <3>1, <3>2
  <2> QED BY <2>1, <2>2
<1>7. CASE Scoped(p) /\ setup[p].kind # "full"
  <2>1. Updated(p, n, u) = [m EXCEPT !.varbinds = 0] BY <1>7 DEF Updated
  <2>2. [m EXCEPT !.varbinds = 0] \in Counters /\ Agreeing([m EXCEPT !.varbinds = 0], setup[p].kind)
    BY <1>3, <1>7 DEF Counters, Agreeing, Unprocessed
  <2> QED BY <2>1, <2>2
<1> QED BY <1>5, <1>6, <1>7

LEMMA InitInv == Init => IInv
BY EmptyAgrees DEF Init, IInv, Counting, CountersAgree

\* Clearing, by a crash or after a dump.
LEMMA EmptiedInv ==
    ASSUME IInv, NEW p \in Responders, UNCHANGED <<setup, reports>>,
           metrics' = [metrics EXCEPT ![p] = Empty]
    PROVE  IInv'
<1>1. \A q \in Responders : metrics'[q] = IF q = p THEN Empty ELSE metrics[q]
  BY DEF IInv, Counting
<1> QED BY <1>1, EmptyAgrees DEF IInv, Counting, CountersAgree

LEMMA NextInv == IInv /\ [Next]_vars => IInv'
<1> SUFFICES ASSUME IInv, [Next]_vars PROVE IInv'
    OBVIOUS
<1>0. ASSUME UNCHANGED <<setup, metrics, reports>> PROVE IInv'
  BY <1>0 DEF IInv, Counting, CountersAgree
<1>1. ASSUME NEW p \in Responders, Update(p) PROVE IInv'
  <2>1. PICK u \in Updates :
          metrics' = [metrics EXCEPT ![p] = [used |-> TRUE, n |-> Updated(p, @.n, u)]]
    BY <1>1 DEF Update
  <2>2. UNCHANGED <<setup, reports>> BY <1>1 DEF Update
  <2>3. /\ metrics[p].n \in Counters /\ Agreeing(metrics[p].n, setup[p].kind)
        /\ setup \in Setups
    BY DEF IInv, Counting, CountersAgree
  <2>4. /\ Updated(p, metrics[p].n, u) \in Counters
        /\ Agreeing(Updated(p, metrics[p].n, u), setup[p].kind)
    BY <2>3, UpdateAgrees
  <2>5. \A q \in Responders : metrics'[q] =
          IF q = p THEN [used |-> TRUE, n |-> Updated(p, metrics[p].n, u)] ELSE metrics[q]
    BY <2>1 DEF IInv, Counting
  <2>6. metrics' \in [Responders -> [used : BOOLEAN, n : Counters]]
    BY <2>1, <2>4 DEF IInv, Counting
  <2>7. \A q \in Responders : Agreeing(metrics'[q].n, setup[q].kind)
    BY <2>4, <2>5 DEF IInv, CountersAgree
  <2> QED BY <2>2, <2>6, <2>7 DEF IInv, Counting, CountersAgree
<1>2. ASSUME NEW p \in Responders, Rename(p) PROVE IInv'
  <2> DEFINE new == [dir |-> Dir(p), at |-> stamp[p], by |-> p, metrics |-> metrics[p].n]
  <2>1. reports' \subseteq reports \cup {new} BY <1>2 DEF Rename
  <2>2. UNCHANGED <<setup, metrics>> BY <1>2 DEF Rename
  <2>3. new.by = p /\ new.metrics = metrics[p].n OBVIOUS
  <2>4. metrics[p].n \in Counters BY DEF IInv, Counting
  <2> QED BY <2>1, <2>2, <2>3, <2>4 DEF IInv, Counting, CountersAgree
<1>3. ASSUME NEW p \in Responders, Clear(p) PROVE IInv'
  BY <1>3, EmptiedInv DEF Clear
<1>4. ASSUME NEW p \in Responders, Crash(p) PROVE IInv'
  BY <1>4, EmptiedInv DEF Crash
<1>5. ASSUME NEW p \in Responders,
             FlushNotDue(p) \/ FlushDue(p) \/ WriteTemporary(p) \/ FailToDump(p)
      PROVE  IInv'
  BY <1>0, <1>5 DEF FlushNotDue, FlushDue, WriteTemporary, FailToDump
<1>6. CASE Take
  <2>1. reports' \subseteq reports /\ UNCHANGED <<setup, metrics>> BY <1>6 DEF Take
  <2> QED BY <2>1 DEF IInv, Counting, CountersAgree
<1>7. CASE Tick BY <1>0, <1>7 DEF Tick
<1>8. CASE UNCHANGED vars BY <1>0, <1>8 DEF vars
<1> QED BY <1>1, <1>2, <1>3, <1>4, <1>5, <1>6, <1>7, <1>8 DEF Next, Flush

(* Packets, PDUs, var-binds and failures agree in memory and in every      *)
(* report, for requests of any number of var-binds, none included, and     *)
(* whatever is counted, dumped, lost and taken (alljson.py:239-422).       *)
THEOREM ReportsAgree == Spec => []CountersAgree
<1>1. IInv => CountersAgree BY DEF IInv
<1> QED BY InitInv, NextInv, <1>1, PTL DEF Spec

---------------------------------------------------------------------------
(***************************************************************************)
(* Reports are named after the second.  While a dump of p is under way its *)
(* name is younger than all reports of p, and the next dump has to wait    *)
(* for a later second still; that holds over crashes as no report is       *)
(* younger than the clock.                                                 *)
(***************************************************************************)
Ages ==
    \A p \in Responders :
        /\ stamp[p] <= clock /\ next_dump[p] \in Nat
        /\ \A r \in reports : r.by = p =>
              /\ r.dir = Dir(p) /\ r.at \in Nat /\ r.at <= clock
              /\ setup[p].period > 0 =>
                    /\ r.at < next_dump[p]
                    /\ pc[p] \in {"write", "rename"} => r.at < stamp[p]
        /\ pc[p] \in {"write", "rename"} /\ setup[p].period > 0 => stamp[p] < next_dump[p]

Shapes == /\ setup \in Setups /\ clock \in Nat
          /\ next_dump \in [Responders -> Nat] /\ stamp \in [Responders -> Nat]
          /\ DOMAIN pc = Responders /\ DOMAIN overwritten = Responders
          /\ \A r \in reports : r.by \in Responders

Kept == Shapes /\ Ages /\ NotOverwritten

LEMMA InitKept == Init => Kept
<1> SUFFICES ASSUME Init PROVE Kept
    OBVIOUS
<1>1. /\ setup \in Setups /\ clock = 0 /\ reports = {}
      /\ next_dump = [p \in Responders |-> setup[p].period]
      /\ stamp = Zero /\ overwritten = Zero /\ pc = [p \in Responders |-> "idle"]
  BY DEF Init
<1>2. \A p \in Responders : setup[p].period \in Nat BY <1>1, ReportingAssumption
<1> QED BY <1>1, <1>2 DEF Kept, Shapes, Ages, NotOverwritten, Zero

LEMMA NextKept == Kept /\ [Next]_vars => Kept'
<1> SUFFICES ASSUME Kept, [Next]_vars PROVE Kept'
    OBVIOUS
<1>a. \A p \in Responders : setup[p].period \in Nat
  BY ReportingAssumption DEF Kept, Shapes
\* Whatever leaves the reports, the times and the dump under way alone.
<1>b. ASSUME UNCHANGED <<setup, clock, next_dump, stamp, reports, overwritten>>, NEW p \in Responders,
             NEW at, pc' = [pc EXCEPT ![p] = at],
             at \in {"write", "rename"} => pc[p] \in {"write", "rename"}
      PROVE  Kept'
  <2>1. \A q \in Responders : pc'[q] \in {"write", "rename"} => pc[q] \in {"write", "rename"}
    BY <1>b DEF Kept, Shapes
  <2>2. DOMAIN pc' = Responders BY <1>b DEF Kept, Shapes
  <2> QED BY <1>b, <2>1, <2>2 DEF Kept, Shapes, Ages, NotOverwritten, Dir
<1>1. ASSUME NEW p \in Responders, Update(p) PROVE Kept'
  BY <1>1, <1>b DEF Update
<1>2. ASSUME NEW p \in Responders, FlushNotDue(p) PROVE Kept'
  BY <1>2, <1>b DEF FlushNotDue, counts
<1>3. ASSUME NEW p \in Responders, WriteTemporary(p) PROVE Kept'
  BY <1>3, <1>b DEF WriteTemporary, counts
<1>4. ASSUME NEW p \in Responders, FailToDump(p) PROVE Kept'
  BY <1>4, <1>b DEF FailToDump, counts
<1>5. ASSUME NEW p \in Responders, Clear(p) PROVE Kept'
  BY <1>5, <1>b DEF Clear, counts
\* The name of the dump is the present second, which is not before next_dump.
<1>6. ASSUME NEW p \in Responders, FlushDue(p) PROVE Kept'
  <2>1. /\ next_dump[p] <= clock /\ next_dump' = [next_dump EXCEPT ![p] = clock + setup[p].period]
        /\ stamp' = [stamp EXCEPT ![p] = clock] /\ pc' = [pc EXCEPT ![p] = "write"]
        /\ UNCHANGED <<setup, clock, reports, overwritten>>
    BY <1>6 DEF FlushDue, NotDue, counts, Kept, Shapes
  <2>2. /\ next_dump'[p] = clock + setup[p].period /\ stamp'[p] = clock
        /\ \A q \in Responders \ {p} : /\ next_dump'[q] = next_dump[q] /\ stamp'[q] = stamp[q]
                                       /\ pc'[q] = pc[q]
    BY <2>1 DEF Kept, Shapes
  <2>3. Shapes' BY <1>a, <2>1 DEF Kept, Shapes
  <2>4. Ages'
    <3> SUFFICES ASSUME NEW q \in Responders
                 PROVE  /\ stamp'[q] <= clock /\ next_dump'[q] \in Nat
                        /\ \A r \in reports : r.by = q =>
                              /\ r.dir = Dir(q) /\ r.at \in Nat /\ r.at <= clock
                              /\ setup[q].period > 0 =>
                                    /\ r.at < next_dump'[q]
                                    /\ pc'[q] \in {"write", "rename"} => r.at < stamp'[q]
                        /\ pc'[q] \in {"write", "rename"} /\ setup[q].period > 0
                              => stamp'[q] < next_dump'[q]
      BY <2>1 DEF Ages, Dir
    <3>1. CASE q = p BY <1>a, <2>1, <2>2, <3>1 DEF Kept, Shapes, Ages
    <3>2. CASE q # p BY <2>2, <3>2 DEF Kept, Shapes, Ages
    <3> QED BY <3>1, <3>2
  <2> QED BY <2>1, <2>3, <2>4 DEF Kept, NotOverwritten, Dir
\* No report of p has the name of its dump, and no other responder its directory.
<1>7. ASSUME NEW p \in Responders, Rename(p) PROVE Kept'
  <2> DEFINE old == {r \in reports : r.dir = Dir(p) /\ r.at = stamp[p]}
             new == [dir |-> Dir(p), at |-> stamp[p], by |-> p, metrics |-> metrics[p].n]
  <2>1. /\ pc[p] = "rename" /\ reports' = (reports \ old) \cup {new}
        /\ overwritten' = [q \in Responders |-> overwritten[q] + Sum(By(q, old))]
        /\ pc' = [pc EXCEPT ![p] = "clear"] /\ UNCHANGED <<setup, clock, next_dump, stamp>>
    BY <1>7 DEF Rename
  <2>2. new.dir = Dir(p) /\ new.at = stamp[p] /\ new.by = p OBVIOUS
  <2>3. Shapes' BY <2>1, <2>2 DEF Kept, Shapes
  <2>4. \A q \in Responders : pc'[q] \in {"write", "rename"} => pc[q] \in {"write", "rename"} /\ q # p
    BY <2>1 DEF Kept, Shapes
  <2>5. Ages'
    <3>1. \A q \in Responders :
             /\ stamp[q] <= clock /\ next_dump[q] \in Nat
             /\ pc'[q] \in {"write", "rename"} /\ setup[q].period > 0 => stamp[q] < next_dump[q]
      BY <2>4 DEF Kept, Ages
    <3>2. ASSUME NEW q \in Responders, NEW r \in reports, r.by = q
          PROVE  /\ r.dir = Dir(q) /\ r.at \in Nat /\ r.at <= clock
                 /\ setup[q].period > 0 =>
                       /\ r.at < next_dump[q]
                       /\ pc'[q] \in {"write", "rename"} => r.at < stamp[q]
      BY <2>4, <3>2 DEF Kept, Ages
    <3>3. /\ new.at \in Nat /\ new.at <= clock
          /\ setup[p].period > 0 => new.at < next_dump[p]
      BY <2>1, <2>2 DEF Kept, Shapes, Ages
    <3>4. pc'[p] \notin {"write", "rename"} BY <2>4
    <3> HIDE DEF new, old
    <3> QED BY <2>1, <2>2, <3>1, <3>2, <3>3, <3>4 DEF Ages, Dir
  <2>6. NotOverwritten'
    <3> SUFFICES ASSUME NEW q \in Responders, setup[q].period > 0,
                        \A s \in Responders \ {q} : Dir(s) # Dir(q)
                 PROVE  overwritten'[q] = 0
      BY <2>1 DEF NotOverwritten, Dir
    <3>1. overwritten[q] = 0 BY DEF Kept, NotOverwritten
    <3>2. By(q, old) = {}
      BY <2>1 DEF By, Kept, Shapes, Ages
    <3>3. overwritten'[q] = 0 + 0 BY <2>1, <3>1, <3>2 DEF Sum
    <3> QED BY <3>3
  <2> QED BY <2>3, <2>5, <2>6 DEF Kept
<1>8. ASSUME NEW p \in Responders, Crash(p) PROVE Kept'
  <2>1. /\ next_dump' = [next_dump EXCEPT ![p] = clock + setup[p].period]
        /\ pc' = [pc EXCEPT ![p] = "idle"]
        /\ UNCHANGED <<setup, clock, stamp, reports, overwritten>>
    BY <1>8 DEF Crash
  <2>2. Shapes' BY <1>a, <2>1 DEF Kept, Shapes
  <2>3. /\ next_dump'[p] = clock + setup[p].period /\ pc'[p] = "idle"
        /\ \A q \in Responders \ {p} : next_dump'[q] = next_dump[q] /\ pc'[q] = pc[q]
    BY <2>1 DEF Kept, Shapes
  <2>4. Ages' BY <1>a, <2>1, <2>3 DEF Kept, Shapes, Ages, Dir
  <2> QED BY <2>1, <2>2, <2>4 DEF Kept, NotOverwritten, Dir
<1>9. CASE Take
  <2>1. reports' \subseteq reports /\ UNCHANGED <<setup, clock, next_dump, stamp, pc, overwritten>>
    BY <1>9 DEF Take
  <2> QED BY <2>1 DEF Kept, Shapes, Ages, NotOverwritten, Dir
<1>10. CASE Tick
  <2>1. clock' = clock + 1 /\ UNCHANGED <<setup, next_dump, stamp, pc, reports, overwritten>>
    BY <1>10 DEF Tick, counts
  <2>2. Shapes' BY <2>1 DEF Kept, Shapes
  <2>3. Ages' BY <2>1 DEF Kept, Shapes, Ages, Dir
  <2> QED BY <2>1, <2>2, <2>3 DEF Kept, NotOverwritten, Dir
<1>11. CASE UNCHANGED vars
  BY <1>11 DEF vars, counts, Kept, Shapes, Ages, NotOverwritten, Dir
<1> QED BY <1>1, <1>2, <1>3, <1>4, <1>5, <1>6, <1>7, <1>8, <1>9, <1>10, <1>11 DEF Next, Flush

(* No report is overwritten before it was taken, over failures and crashes *)
(* of any number, if the directory is not shared and the period is not     *)
(* zero (alljson.py:146-196).                                              *)
THEOREM ReportsNotOverwritten == Spec => []NotOverwritten
<1>1. Kept => NotOverwritten BY DEF Kept
<1> QED BY InitKept, NextKept, <1>1, PTL DEF Spec

---------------------------------------------------------------------------
(***************************************************************************)
(* Sums over finite sets of reports.  Sum takes the reports in an order of *)
(* its own; what is shown of it, by looking at a smallest set for which it *)
(* would not be so, is that the order does not matter.                     *)
(***************************************************************************)
LEMMA LeastNat ==
    ASSUME NEW T \in SUBSET Nat, T # {}
    PROVE  \E m \in T : \A n \in T : m <= n
<1>1. PICK m \in T : \A n \in T : <<n, m>> \notin OpToRel(<, Nat)
  BY WFMin, NatLessThanWellFounded, Zenon
<1>2. \A n \in T : ~(n < m) BY <1>1 DEF OpToRel
<1> QED BY <1>2

\* Among finite sets there is one such that no smaller one is among them.
LEMMA SmallestSet ==
    ASSUME NEW Bad, Bad # {}, \A T \in Bad : IsFiniteSet(T)
    PROVE  \E T \in Bad : \A U \in Bad : U \subseteq T => U = T
<1> DEFINE sizes == {Cardinality(T) : T \in Bad}
<1>1. sizes \in SUBSET Nat /\ sizes # {} BY FS_CardinalityType
<1>2. PICK m \in sizes : \A n \in sizes : m <= n BY <1>1, LeastNat
<1>3. PICK T \in Bad : \A U \in Bad : Cardinality(T) <= Cardinality(U) BY <1>2
<1>4. ASSUME NEW U \in Bad, U \subseteq T PROVE U = T
  <2>1. /\ IsFiniteSet(T) /\ Cardinality(U) <= Cardinality(T)
        /\ Cardinality(T) = Cardinality(U) => T = U
    BY <1>4, FS_Subset
  <2>2. Cardinality(T) \in Nat /\ Cardinality(U) \in Nat BY FS_CardinalityType
  <2> QED BY <1>3, <2>1, <2>2
<1> QED BY <1>4

Pick(s) == CHOOSE x \in s : TRUE

\* f has the sums of all subsets of S.
Sums(f, S) ==
    f = [s \in SUBSET S |-> IF s = {} THEN 0 ELSE Packets(Pick(s)) + f[s \ {Pick(s)}]]

LEMMA SumsOf ==
    ASSUME NEW f, NEW S, Sums(f, S), NEW s \in SUBSET S
    PROVE  /\ s = {} => f[s] = 0
           /\ s # {} => /\ f[s] = Packets(Pick(s)) + f[s \ {Pick(s)}]
                        /\ Pick(s) \in s
<1>1. f[s] = IF s = {} THEN 0 ELSE Packets(Pick(s)) + f[s \ {Pick(s)}]
  <2> DEFINE F(u) == IF u = {} THEN 0 ELSE Packets(Pick(u)) + f[u \ {Pick(u)}]
  <2>1. f = [u \in SUBSET S |-> F(u)] BY DEF Sums
  <2> HIDE DEF F
  <2>2. f[s] = F(s) BY <2>1
  <2> QED BY <2>2 DEF F
<1>2. s # {} => Pick(s) \in s BY DEF Pick
<1> QED BY <1>1, <1>2

LEMMA SumsAgree ==
    ASSUME NEW f, NEW g, NEW S, NEW T, Sums(f, S), Sums(g, T), IsFiniteSet(S),
           NEW s, s \subseteq S, s \subseteq T
    PROVE  f[s] = g[s]
<1> DEFINE Bad == {u \in SUBSET s : f[u] # g[u]}
<1> SUFFICES ASSUME Bad # {} PROVE FALSE
    OBVIOUS
<1>1. \A u \in Bad : IsFiniteSet(u) BY FS_Subset
<1>2. PICK u \in Bad : \A v \in Bad : v \subseteq u => v = u
  <2> HIDE DEF Bad
  <2> QED BY <1>1, SmallestSet
<1>3. u \in SUBSET S /\ u \in SUBSET T OBVIOUS
<1>4. u # {} BY <1>3, SumsOf
<1>5. /\ f[u] = Packets(Pick(u)) + f[u \ {Pick(u)}] /\ g[u] = Packets(Pick(u)) + g[u \ {Pick(u)}]
      /\ Pick(u) \in u
  BY <1>3, <1>4, SumsOf
<1>6. u \ {Pick(u)} \notin Bad BY <1>2, <1>5
<1>7. f[u \ {Pick(u)}] = g[u \ {Pick(u)}] BY <1>6
<1> QED BY <1>5, <1>7

SumsFor(S) == CHOOSE f : Sums(f, S)

LEMMA SumsExist ==
    ASSUME NEW S, IsFiniteSet(S)
    PROVE  Sums(SumsFor(S), S)
<1> DEFINE Bad == {T \in SUBSET S : ~\E f : Sums(f, T)}
<1> SUFFICES ASSUME Bad # {} PROVE FALSE
    BY DEF SumsFor
<1>1. \A T \in Bad : IsFiniteSet(T) BY FS_Subset
<1>2. PICK T \in Bad : \A U \in Bad : U \subseteq T => U = T
  <2> HIDE DEF Bad
  <2> QED BY <1>1, SmallestSet
<1>3. ASSUME NEW U, U \subseteq T, U # T PROVE Sums(SumsFor(U), U)
  <2>1. U \in SUBSET S /\ U \notin Bad BY <1>2, <1>3
  <2> QED BY <2>1 DEF SumsFor
<1> DEFINE F(s) == IF s = {} THEN 0
                   ELSE Packets(Pick(s)) + SumsFor(s \ {Pick(s)})[s \ {Pick(s)}]
           g == [s \in SUBSET T |-> F(s)]
<1>4. ASSUME NEW s \in SUBSET T, s # {}
      PROVE  g[s \ {Pick(s)}] = SumsFor(s \ {Pick(s)})[s \ {Pick(s)}]
  <2> DEFINE u == s \ {Pick(s)}
             h == SumsFor(u)
  <2>1. Pick(s) \in s BY <1>4 DEF Pick
  <2>2. u \subseteq T /\ u # T BY <2>1
  <2>3. Sums(h, u) /\ IsFiniteSet(u) BY <1>1, <1>3, <2>2, FS_Subset
  <2>4. g[u] = F(u) BY <2>2
  <2>5. CASE u = {}
    <3>1. h[u] = 0 BY <2>3, <2>5, SumsOf
    <3> QED BY <2>4, <2>5, <3>1
  <2>6. CASE u # {}
    <3> DEFINE w == u \ {Pick(u)}
    <3>1. h[u] = Packets(Pick(u)) + h[w] /\ Pick(u) \in u BY <2>3, <2>6, SumsOf
    <3>2. w \subseteq T /\ w # T BY <2>2, <3>1
    <3>3. Sums(SumsFor(w), w) /\ IsFiniteSet(w) BY <1>1, <1>3, <3>2, FS_Subset
    <3>4. h[w] = SumsFor(w)[w]
      <4> HIDE DEF h, u, w
      <4>1. w \subseteq u BY DEF w
      <4> QED BY <2>3, <3>3, <4>1, SumsAgree
    <3>5. F(u) = Packets(Pick(u)) + SumsFor(w)[w] BY <2>6
    <3> QED BY <2>4, <3>1, <3>4, <3>5
  <2> QED BY <2>5, <2>6
<1>5. Sums(g, T)
  <2>1. \A s \in SUBSET T : F(s) = IF s = {} THEN 0 ELSE Packets(Pick(s)) + g[s \ {Pick(s)}]
    <3> HIDE DEF g
    <3> QED BY <1>4
  <2>2. g = [s \in SUBSET T |-> IF s = {} THEN 0 ELSE Packets(Pick(s)) + g[s \ {Pick(s)}]]
    BY <2>1
  <2> QED BY <2>2 DEF Sums
<1> QED BY <1>2, <1>5

\* The sum of a finite set, one report at a time.
LEMMA SumIs ==
    ASSUME NEW S, IsFiniteSet(S)
    PROVE  /\ S = {} => Sum(S) = 0
           /\ S # {} => /\ Pick(S) \in S
                        /\ Sum(S) = Packets(Pick(S)) + Sum(S \ {Pick(S)})
<1>1. ASSUME NEW T, IsFiniteSet(T) PROVE Sum(T) = SumsFor(T)[T]
  <2>1. CASE T = {}
    <3>1. SumsFor(T)[T] = 0 BY <1>1, <2>1, SumsExist, SumsOf
    <3> QED BY <2>1, <3>1 DEF Sum
  <2>2. CASE T # {}
    BY <2>2 DEF Sum, MapThenSumSet, MapThenFoldSet, SumsFor, Sums, Pick
  <2> QED BY <2>1, <2>2
<1>2. CASE S = {} BY <1>2 DEF Sum
<1>3. CASE S # {}
  <2> DEFINE T == S \ {Pick(S)}
  <2>1. /\ SumsFor(S)[S] = Packets(Pick(S)) + SumsFor(S)[T] /\ Pick(S) \in S
    BY <1>3, SumsExist, SumsOf
  <2>2. IsFiniteSet(T) /\ T \subseteq S BY FS_Subset
  <2>3. SumsFor(S)[T] = SumsFor(T)[T]
    <3> HIDE DEF T
    <3> QED BY <2>2, SumsExist, SumsAgree
  <2>4. Sum(T) = SumsFor(T)[T] /\ Sum(S) = SumsFor(S)[S] BY <1>1, <2>2
  <2> QED BY <1>3, <2>1, <2>3, <2>4
<1> QED BY <1>2, <1>3

Countable(S) == IsFiniteSet(S) /\ \A r \in S : Packets(r) \in Nat

LEMMA CountableSubset ==
    ASSUME NEW S, Countable(S), NEW T, T \subseteq S
    PROVE  Countable(T) /\ IsFiniteSet(T)
BY FS_Subset DEF Countable

LEMMA SumInNat == ASSUME NEW S, Countable(S) PROVE Sum(S) \in Nat
<1> DEFINE Bad == {T \in SUBSET S : Sum(T) \notin Nat}
<1> SUFFICES ASSUME Bad # {} PROVE FALSE
    OBVIOUS
<1>1. \A T \in Bad : IsFiniteSet(T) BY CountableSubset
<1>2. PICK T \in Bad : \A U \in Bad : U \subseteq T => U = T
  <2> HIDE DEF Bad
  <2> QED BY <1>1, SmallestSet
<1>3. T # {}
  <2>1. IsFiniteSet(T) /\ Sum(T) \notin Nat BY <1>1
  <2> HIDE DEF Bad
  <2>2. T = {} => Sum(T) = 0 BY <2>1, SumIs
  <2> QED BY <2>1, <2>2
<1>4. Pick(T) \in T /\ Sum(T) = Packets(Pick(T)) + Sum(T \ {Pick(T)})
  BY <1>1, <1>3, SumIs
<1>5. T \ {Pick(T)} \notin Bad BY <1>2, <1>4
<1>6. Sum(T \ {Pick(T)}) \in Nat BY <1>5
<1>7. Packets(Pick(T)) \in Nat BY <1>4 DEF Countable
<1> QED BY <1>4, <1>6, <1>7

\* Any report may be taken out first.
LEMMA SumWithout ==
    ASSUME NEW S, Countable(S), NEW r \in S
    PROVE  Sum(S) = Packets(r) + Sum(S \ {r})
<1> DEFINE Bad == {T \in SUBSET S : \E x \in T : Sum(T) # Packets(x) + Sum(T \ {x})}
<1> SUFFICES ASSUME Bad # {} PROVE FALSE
    OBVIOUS
<1>1. \A T \in Bad : IsFiniteSet(T) BY CountableSubset
<1>2. PICK T \in Bad : \A U \in Bad : U \subseteq T => U = T
  <2> HIDE DEF Bad
  <2> QED BY <1>1, SmallestSet
<1>3. PICK x \in T : Sum(T) # Packets(x) + Sum(T \ {x}) OBVIOUS
<1> DEFINE p == Pick(T)
<1>4. p \in T /\ Sum(T) = Packets(p) + Sum(T \ {p}) BY <1>1, SumIs
<1>5. p # x BY <1>3, <1>4
<1> HIDE DEF p
<1>6. T \ {p} \notin Bad /\ T \ {x} \notin Bad BY <1>2, <1>4
<1>7. Sum(T \ {p}) = Packets(x) + Sum((T \ {p}) \ {x}) BY <1>5, <1>6
<1>8. Sum(T \ {x}) = Packets(p) + Sum((T \ {x}) \ {p}) BY <1>4, <1>5, <1>6
<1>9. (T \ {p}) \ {x} = (T \ {x}) \ {p} OBVIOUS
<1>10. /\ Packets(p) \in Nat /\ Packets(x) \in Nat
       /\ Sum((T \ {p}) \ {x}) \in Nat
  <2>1. (T \ {p}) \ {x} \subseteq S BY <1>4
  <2> QED BY <1>4, <2>1, CountableSubset, SumInNat DEF Countable
<1> QED BY <1>3, <1>4, <1>7, <1>8, <1>9, <1>10

\* Sums of parts add up.
LEMMA SumOfParts ==
    ASSUME NEW S, Countable(S), NEW A, A \subseteq S
    PROVE  Sum(S) = Sum(S \ A) + Sum(A)
<1> DEFINE Bad == {B \in SUBSET A : Sum(S) # Sum(S \ B) + Sum(B)}
<1> SUFFICES ASSUME Bad # {} PROVE FALSE
    OBVIOUS
<1>0. \A B \in SUBSET A : /\ IsFiniteSet(B) /\ Sum(B) \in Nat /\ Countable(S \ B)
                          /\ Sum(S \ B) \in Nat
  BY CountableSubset, SumInNat
<1>1. \A B \in Bad : IsFiniteSet(B) BY <1>0
<1>2. PICK B \in Bad : \A U \in Bad : U \subseteq B => U = B
  <2> HIDE DEF Bad
  <2> QED BY <1>1, SmallestSet
<1>3. Sum(S) # Sum(S \ B) + Sum(B) BY <1>2
<1>4. B # {}
  <2>1. Sum({}) = 0 /\ S \ {} = S BY FS_EmptySet, SumIs
  <2>2. Sum(S) \in Nat BY SumInNat
  <2> QED BY <1>3, <2>1, <2>2
<1> DEFINE p == Pick(B)
           C == B \ {p}
<1>5. p \in B /\ Sum(B) = Packets(p) + Sum(C) BY <1>1, <1>4, SumIs
<1> HIDE DEF p
<1>6. C \in SUBSET A /\ C \notin Bad BY <1>2, <1>5
<1>7. Sum(S) = Sum(S \ C) + Sum(C) BY <1>6
<1>8. Sum(S \ C) = Packets(p) + Sum((S \ C) \ {p})
  <2>1. p \in S \ C BY <1>5
  <2> HIDE DEF C
  <2> QED BY <1>0, <1>6, <2>1, SumWithout
<1>9. (S \ C) \ {p} = S \ B BY <1>5
<1>10. Packets(p) \in Nat BY <1>5 DEF Countable
<1>11. Sum(C) \in Nat /\ Sum(S \ B) \in Nat BY <1>0, <1>6
<1>12. Sum(S \ C) = Packets(p) + Sum(S \ B) BY <1>8, <1>9
<1> DEFINE rest == Sum(C)
           others == Sum(S \ B)
<1>13. Sum(S) = (Packets(p) + others) + rest /\ Sum(B) = Packets(p) + rest
  BY <1>5, <1>7, <1>12
<1>14. Sum(S) # others + Sum(B) BY <1>3
<1>15. rest \in Nat /\ others \in Nat BY <1>11
<1> HIDE DEF rest, others
<1> QED BY <1>10, <1>13, <1>14, <1>15

---------------------------------------------------------------------------
(***************************************************************************)
(* Where the packets of a responder are: the reports are finite in number, *)
(* and whatever is counted is a number.                                    *)
(***************************************************************************)
Ledgers == /\ counted \in [Responders -> Nat] /\ taken \in [Responders -> Nat]
           /\ crashed \in [Responders -> Nat] /\ overwritten \in [Responders -> Nat]
           /\ DOMAIN pc = Responders /\ IsFiniteSet(reports)

Booked == IInv /\ Ledgers /\ Conserved

LEMMA InitBooked == Init => Booked
<1> SUFFICES ASSUME Init PROVE Booked
    OBVIOUS
<1>1. IInv BY InitInv
<1>2. Ledgers BY FS_EmptySet DEF Init, Ledgers, Zero
<1>3. Conserved
  <2>1. \A p \in Responders : By(p, reports) = {} BY DEF Init, By
  <2>2. Sum({}) = 0 BY DEF Sum
  <2>3. \A p \in Responders : Held(p) = 0
    BY DEF Init, Held, Empty, Nothing
  <2>4. \A p \in Responders :
           counted[p] = 0 /\ taken[p] = 0 /\ crashed[p] = 0 /\ overwritten[p] = 0
    BY DEF Init, Zero
  <2>5. \A p \in Responders : Sum(By(p, reports)) = 0 BY <2>1, <2>2
  <2> QED BY <2>3, <2>4, <2>5 DEF Conserved
<1> QED BY <1>1, <1>2, <1>3 DEF Booked

\* The reports of one responder are a countable set.
LEMMA ByCountable ==
    ASSUME Counting, IsFiniteSet(reports), NEW S, S \subseteq reports
    PROVE  /\ Countable(S) /\ Sum(S) \in Nat
           /\ \A p : By(p, S) \subseteq S /\ Countable(By(p, S)) /\ Sum(By(p, S)) \in Nat
<1>1. Countable(reports) BY DEF Countable, Counting, Packets, Counters
<1>2. \A p : By(p, S) \subseteq S BY DEF By
<1>3. \A T : T \subseteq S => Countable(T) /\ Sum(T) \in Nat BY <1>1, CountableSubset, SumInNat
<1> QED BY <1>2, <1>3

\* An update counts in memory what it counts at all.
LEMMA UpdatePackets ==
    ASSUME NEW p \in Responders, NEW n \in Counters, NEW u
    PROVE  Updated(p, n, u).packets = IF Scoped(p) THEN Add(n.packets, IsPacket(u)) ELSE n.packets
<1> DEFINE a == [n EXCEPT !.packets = Add(@, IsPacket(u))]
           m == Pdus(a, u)
<1>1. a.packets = Add(n.packets, IsPacket(u)) /\ DOMAIN a = DOMAIN n BY DEF Counters
<1>2. m.packets = a.packets /\ DOMAIN m = DOMAIN n
  <2> HIDE DEF a
  <2> QED BY <1>1 DEF Pdus, Counters
<1>3. Variations(m, u).packets = m.packets
  <2> HIDE DEF m
  <2> QED BY <1>2 DEF Variations, Counters
<1>4. [m EXCEPT !.varbinds = 0].packets = m.packets
  <2> HIDE DEF m
  <2> QED BY <1>2 DEF Counters
<1>5. Updated(p, n, u) = IF ~Scoped(p) THEN n
                         ELSE IF setup[p].kind = "full" THEN Variations(m, u)
                         ELSE [m EXCEPT !.varbinds = 0]
  BY DEF Updated
<1> HIDE DEF m, a
<1> QED BY <1>1, <1>2, <1>3, <1>4, <1>5

LEMMA NextLedgers == Booked /\ [Next]_vars => Ledgers'
<1> SUFFICES ASSUME Booked, [Next]_vars PROVE Ledgers'
    OBVIOUS
<1>1. ASSUME NEW p \in Responders, Update(p) PROVE Ledgers'
  <2>1. PICK u \in Updates :
          counted' = [counted EXCEPT ![p] = IF Scoped(p) THEN Add(@, IsPacket(u)) ELSE @]
    BY <1>1 DEF Update
  <2>2. counted' \in [Responders -> Nat] BY <2>1 DEF Booked, Ledgers, Add
  <2> QED BY <1>1, <2>2 DEF Update, Booked, Ledgers
<1>2. ASSUME NEW p \in Responders, Flush(p), ~Rename(p) PROVE Ledgers'
  BY <1>2 DEF Flush, FlushNotDue, FlushDue, WriteTemporary, FailToDump, Clear, counts, Booked, Ledgers
<1>3. ASSUME NEW p \in Responders, Rename(p) PROVE Ledgers'
  <2> DEFINE old == {r \in reports : r.dir = Dir(p) /\ r.at = stamp[p]}
             new == [dir |-> Dir(p), at |-> stamp[p], by |-> p, metrics |-> metrics[p].n]
  <2>1. /\ reports' = (reports \ old) \cup {new}
        /\ overwritten' = [q \in Responders |-> overwritten[q] + Sum(By(q, old))]
        /\ pc' = [pc EXCEPT ![p] = "clear"]
        /\ UNCHANGED <<counted, taken, crashed>>
    BY <1>3 DEF Rename
  <2>2. old \subseteq reports OBVIOUS
  <2> HIDE DEF old, new
  <2>3. IsFiniteSet(reports \ old) /\ \A q \in Responders : Sum(By(q, old)) \in Nat
    BY <2>2, ByCountable, FS_Subset DEF Booked, IInv, Ledgers
  <2>4. IsFiniteSet(reports') BY <2>1, <2>3, FS_AddElement
  <2>5. overwritten' \in [Responders -> Nat] BY <2>1, <2>3 DEF Booked, Ledgers
  <2> QED BY <2>1, <2>4, <2>5 DEF Booked, Ledgers
<1>4. ASSUME NEW p \in Responders, Crash(p) PROVE Ledgers'
  <2>1. Held(p) \in Nat BY DEF Held, Booked, IInv, Counting, Counters
  <2>2. /\ crashed' = [crashed EXCEPT ![p] = @ + Held(p)] /\ pc' = [pc EXCEPT ![p] = "idle"]
        /\ UNCHANGED <<reports, counted, taken, overwritten>>
    BY <1>4 DEF Crash
  <2> QED BY <2>1, <2>2 DEF Booked, Ledgers
<1>5. CASE Take
  <2>1. PICK r \in reports : /\ reports' = reports \ {r}
                             /\ taken' = [taken EXCEPT ![r.by] = @ + Packets(r)]
                             /\ UNCHANGED <<pc, counted, crashed, overwritten>>
    BY <1>5 DEF Take
  <2>2. r.by \in Responders /\ Packets(r) \in Nat BY DEF Booked, IInv, Counting, Packets, Counters
  <2>3. IsFiniteSet(reports') BY <2>1, FS_Subset DEF Booked, Ledgers
  <2> QED BY <2>1, <2>2, <2>3 DEF Booked, Ledgers
<1>6. CASE Tick BY <1>6 DEF Tick, counts, Booked, Ledgers
<1>7. CASE UNCHANGED vars BY <1>7 DEF vars, counts, Booked, Ledgers
<1> QED BY <1>1, <1>2, <1>3, <1>4, <1>5, <1>6, <1>7 DEF Next

LEMMA NextConserved == Booked /\ [Next]_vars => Conserved'
<1> SUFFICES ASSUME Booked, [Next]_vars PROVE Conserved'
    OBVIOUS
<1> DEFINE Books(q) ==
      counted[q] = Held(q) + Sum(By(q, reports)) + taken[q] + crashed[q] + overwritten[q]
<1>0. /\ \A q \in Responders : Books(q)
      /\ \A q \in Responders :
            /\ counted[q] \in Nat /\ taken[q] \in Nat /\ crashed[q] \in Nat
            /\ overwritten[q] \in Nat /\ Held(q) \in Nat /\ Sum(By(q, reports)) \in Nat
            /\ metrics[q].n \in Counters
  <2>1. \A q \in Responders : metrics[q].n \in Counters BY DEF Booked, IInv, Counting
  <2>2. \A q \in Responders : Held(q) \in Nat BY <2>1 DEF Held, Counters
  <2>3. \A q \in Responders : Sum(By(q, reports)) \in Nat
    BY ByCountable DEF Booked, IInv, Ledgers
  <2> QED BY <2>1, <2>2, <2>3 DEF Booked, Ledgers, Conserved
\* Nothing moves.
<1>1. ASSUME UNCHANGED <<reports, counted, taken, crashed, overwritten>>,
             \A q \in Responders : Held(q)' = Held(q)
      PROVE  Conserved'
  BY <1>0, <1>1 DEF Conserved
<1>2. ASSUME NEW p \in Responders, Update(p) PROVE Conserved'
  <2>1. PICK u \in Updates :
          /\ metrics' = [metrics EXCEPT ![p] = [used |-> TRUE, n |-> Updated(p, @.n, u)]]
          /\ counted' = [counted EXCEPT ![p] = IF Scoped(p) THEN Add(@, IsPacket(u)) ELSE @]
    BY <1>2 DEF Update
  <2>2. /\ pc[p] = "idle" /\ pc' = [pc EXCEPT ![p] = "flush"]
        /\ UNCHANGED <<reports, taken, crashed, overwritten>>
    BY <1>2 DEF Update
  <2> SUFFICES ASSUME NEW q \in Responders PROVE Books(q)'
    BY DEF Conserved
  <2>3. CASE q # p
    <3>1. counted'[q] = counted[q] /\ metrics'[q] = metrics[q] /\ pc'[q] = pc[q]
      BY <2>1, <2>2, <2>3 DEF Booked, IInv, Counting, Ledgers
    <3> QED BY <1>0, <2>2, <3>1 DEF Held
  <2>4. CASE q = p
    <3> DEFINE more == IF Scoped(p) /\ IsPacket(u) THEN 1 ELSE 0
    <3>1. counted'[p] = counted[p] + more
      BY <1>0, <2>1 DEF Booked, Ledgers, Add
    <3>2. metrics'[p].n = Updated(p, metrics[p].n, u) BY <2>1 DEF Booked, IInv, Counting
    <3>3. metrics'[p].n.packets = metrics[p].n.packets + more
      <4>1. metrics[p].n.packets \in Nat BY <1>0 DEF Counters
      <4> QED BY <1>0, <3>2, <4>1, UpdatePackets DEF Add
    <3>4. pc'[p] = "flush" BY <2>2 DEF Booked, Ledgers
    <3>5. Held(p) = metrics[p].n.packets /\ Held(p)' = metrics'[p].n.packets
      BY <2>2, <3>4 DEF Held
    <3>6. more \in Nat OBVIOUS
    <3>7. Held(p)' = Held(p) + more BY <3>3, <3>5
    <3> HIDE DEF more
    <3> QED BY <1>0, <2>2, <2>4, <3>1, <3>6, <3>7
  <2> QED BY <2>3, <2>4
<1>3. ASSUME NEW p \in Responders,
             FlushNotDue(p) \/ FlushDue(p) \/ WriteTemporary(p) \/ FailToDump(p)
      PROVE  Conserved'
  <2>1. /\ pc[p] # "clear" /\ \E at : at # "clear" /\ pc' = [pc EXCEPT ![p] = at]
        /\ UNCHANGED <<metrics, reports, counted, taken, crashed, overwritten>>
    BY <1>3 DEF FlushNotDue, FlushDue, WriteTemporary, FailToDump, counts
  <2>2. \A q \in Responders : Held(q)' = Held(q) BY <2>1 DEF Held, Booked, Ledgers
  <2> QED BY <1>1, <2>1, <2>2
<1>4. ASSUME NEW p \in Responders, Clear(p) PROVE Conserved'
  <2>1. /\ pc[p] = "clear" /\ pc' = [pc EXCEPT ![p] = "idle"]
        /\ metrics' = [metrics EXCEPT ![p] = Empty]
        /\ UNCHANGED <<reports, counted, taken, crashed, overwritten>>
    BY <1>4 DEF Clear, counts
  <2>2. ASSUME NEW q \in Responders PROVE Held(q)' = Held(q)
    <3>1. Empty.n.packets = 0 BY DEF Empty, Nothing
    <3>2. CASE q = p
      <4>1. metrics'[p] = Empty /\ pc'[p] = "idle"
        BY <2>1 DEF Booked, IInv, Counting, Ledgers
      <4> QED BY <2>1, <3>1, <3>2, <4>1 DEF Held
    <3>3. CASE q # p
      <4>1. metrics'[q] = metrics[q] /\ pc'[q] = pc[q]
        BY <2>1, <3>3 DEF Booked, IInv, Counting, Ledgers
      <4> QED BY <4>1 DEF Held
    <3> QED BY <3>2, <3>3
  <2> QED BY <1>1, <2>1, <2>2
\* What was in memory is in the new report, and the reports replaced are overwritten.
<1>5. ASSUME NEW p \in Responders, Rename(p) PROVE Conserved'
  <2> DEFINE old == {r \in reports : r.dir = Dir(p) /\ r.at = stamp[p]}
             new == [dir |-> Dir(p), at |-> stamp[p], by |-> p, metrics |-> metrics[p].n]
  <2>1. /\ pc[p] = "rename" /\ reports' = (reports \ old) \cup {new}
        /\ overwritten' = [q \in Responders |-> overwritten[q] + Sum(By(q, old))]
        /\ pc' = [pc EXCEPT ![p] = "clear"]
        /\ UNCHANGED <<metrics, counted, taken, crashed>>
    BY <1>5 DEF Rename
  <2>2. /\ old \subseteq reports /\ new \notin reports \ old
        /\ new.by = p /\ Packets(new) = metrics[p].n.packets
    BY DEF Packets
  <2> HIDE DEF old, new
  <2> SUFFICES ASSUME NEW q \in Responders PROVE Books(q)'
    BY DEF Conserved
  <2>3. /\ Countable(By(q, reports)) /\ By(q, old) \subseteq By(q, reports)
        /\ By(q, reports) \ By(q, old) = By(q, reports \ old)
    <3>1. Countable(By(q, reports)) BY ByCountable DEF Booked, IInv, Ledgers
    <3> QED BY <2>2, <3>1 DEF By
  <2>4. Sum(By(q, reports)) = Sum(By(q, reports \ old)) + Sum(By(q, old))
    BY <2>3, SumOfParts
  <2>5. Sum(By(q, old)) \in Nat /\ Sum(By(q, reports \ old)) \in Nat
        /\ Countable(By(q, reports \ old))
    <3>1. reports \ old \subseteq reports OBVIOUS
    <3> QED BY <2>2, <3>1, ByCountable DEF Booked, IInv, Ledgers
  <2>6. overwritten'[q] = overwritten[q] + Sum(By(q, old)) BY <2>1
  <2>7. CASE q # p
    <3>1. By(q, reports') = By(q, reports \ old) BY <2>1, <2>2, <2>7 DEF By
    <3>2. Held(q)' = Held(q) BY <2>1, <2>7 DEF Held, Booked, Ledgers
    <3> QED BY <1>0, <2>1, <2>4, <2>5, <2>6, <3>1, <3>2
  <2>8. CASE q = p
    <3>1. /\ new \in By(q, reports') /\ By(q, reports') \ {new} = By(q, reports \ old)
          /\ By(q, reports') = By(q, reports \ old) \cup {new}
      BY <2>1, <2>2, <2>8 DEF By
    <3>2. Packets(new) \in Nat BY <1>0, <2>2 DEF Counters
    <3>3. Countable(By(q, reports'))
      <4> DEFINE rest == By(q, reports \ old)
      <4>1. IsFiniteSet(rest) /\ \A r \in rest : Packets(r) \in Nat BY <2>5 DEF Countable
      <4> HIDE DEF rest
      <4>2. IsFiniteSet(rest \cup {new}) BY <4>1, FS_AddElement
      <4>3. By(q, reports') = rest \cup {new} BY <3>1 DEF rest
      <4> QED BY <3>2, <4>1, <4>2, <4>3 DEF Countable
    <3>4. Sum(By(q, reports')) = Packets(new) + Sum(By(q, reports \ old))
      BY <3>1, <3>3, SumWithout
    <3>5. pc'[p] = "clear" BY <2>1 DEF Booked, Ledgers
    <3>6. Held(q) = Packets(new) /\ Held(q)' = 0 BY <2>1, <2>2, <2>8, <3>5 DEF Held
    <3> QED BY <1>0, <2>1, <2>4, <2>5, <2>6, <3>2, <3>4, <3>6
  <2> QED BY <2>7, <2>8
<1>6. ASSUME NEW p \in Responders, Crash(p) PROVE Conserved'
  <2>1. /\ crashed' = [crashed EXCEPT ![p] = @ + Held(p)]
        /\ metrics' = [metrics EXCEPT ![p] = Empty] /\ pc' = [pc EXCEPT ![p] = "idle"]
        /\ UNCHANGED <<reports, counted, taken, overwritten>>
    BY <1>6 DEF Crash
  <2> SUFFICES ASSUME NEW q \in Responders PROVE Books(q)'
    BY DEF Conserved
  <2>2. CASE q = p
    <3>1. metrics'[p] = Empty /\ pc'[p] = "idle" /\ crashed'[p] = crashed[p] + Held(p)
      BY <2>1 DEF Booked, IInv, Counting, Ledgers
    <3>2. Held(p)' = 0 BY <3>1 DEF Held, Empty, Nothing
    <3> QED BY <1>0, <2>1, <2>2, <3>1, <3>2
  <2>3. CASE q # p
    <3>1. metrics'[q] = metrics[q] /\ pc'[q] = pc[q] /\ crashed'[q] = crashed[q]
      BY <2>1, <2>3 DEF Booked, IInv, Counting, Ledgers
    <3> QED BY <1>0, <2>1, <3>1 DEF Held
  <2> QED BY <2>2, <2>3
<1>7. CASE Take
  <2>1. PICK r \in reports : /\ reports' = reports \ {r}
                             /\ taken' = [taken EXCEPT ![r.by] = @ + Packets(r)]
                             /\ UNCHANGED <<metrics, pc, counted, crashed, overwritten>>
    BY <1>7 DEF Take
  <2>2. r.by \in Responders BY DEF Booked, IInv, Counting
  <2> SUFFICES ASSUME NEW q \in Responders PROVE Books(q)'
    BY DEF Conserved
  <2>3. Held(q)' = Held(q) BY <2>1 DEF Held
  <2>4. CASE q = r.by
    <3>1. /\ r \in By(q, reports) /\ By(q, reports') = By(q, reports) \ {r}
          /\ taken'[q] = taken[q] + Packets(r)
      BY <2>1, <2>2, <2>4 DEF By, Booked, Ledgers
    <3>2. Countable(By(q, reports)) /\ Sum(By(q, reports')) \in Nat
      BY <2>1, ByCountable DEF Booked, IInv, Ledgers
    <3>3. Sum(By(q, reports)) = Packets(r) + Sum(By(q, reports'))
      BY <3>1, <3>2, SumWithout
    <3>4. Packets(r) \in Nat BY <3>1, <3>2 DEF Countable
    <3> QED BY <1>0, <2>1, <2>3, <3>1, <3>2, <3>3, <3>4
  <2>5. CASE q # r.by
    <3>1. By(q, reports') = By(q, reports) /\ taken'[q] = taken[q]
      BY <2>1, <2>5 DEF By, Booked, Ledgers
    <3> QED BY <1>0, <2>1, <2>3, <3>1
  <2> QED BY <2>4, <2>5
<1>8. CASE Tick \/ UNCHANGED vars
  <2>1. UNCHANGED <<metrics, pc, reports, counted, taken, crashed, overwritten>>
    BY <1>8 DEF Tick, vars, counts
  <2>2. \A q \in Responders : Held(q)' = Held(q) BY <2>1 DEF Held
  <2> QED BY <1>1, <2>1, <2>2
<1> QED BY <1>2, <1>3, <1>4, <1>5, <1>6, <1>7, <1>8 DEF Next, Flush

(* Every packet counted is in one report, in memory or known to be lost,   *)
(* never in two, for any number of responders, dumps, failures, crashes    *)
(* and consumers (alljson.py:146-196).                                     *)
THEOREM ReportsConserve == Spec => []Conserved
<1>1. Booked => Conserved BY DEF Booked
<1>2. Booked /\ [Next]_vars => Booked' BY NextInv, NextLedgers, NextConserved DEF Booked
<1> QED BY InitBooked, <1>1, <1>2, PTL DEF Spec
=============================================================================
