---------------------------- MODULE ResponderProofs ----------------------------
(***************************************************************************)
(* What holds for any command line, file system and requests: the state of *)
(* a request is never kept for good, but that of a GETBULK that is         *)
(* dropped; a request can be answered from one data file only, and is      *)
(* answered from the one meant for it most specifically; every context     *)
(* engine serves the data files that the command line asks for there.      *)
(*                                                                         *)
(* The second and the third take MD5 sums to be no names of files          *)
(* (SumsApart), and need to know what the options leave to the directories *)
(* (Shape), what files are named (Named) and that a name is registered     *)
(* once (Distinct).  The last one follows the options into the lists of    *)
(* directories and contexts (Collected) and those into what is registered  *)
(* (Delivered).                                                            *)
(***************************************************************************)
EXTENDS Responder, SequenceTheorems, WellFoundedInduction, TLAPS

(***************************************************************************)
(* StateReleased with what it depends on: request is not None while one is *)
(* served, so that Answered takes back what Receive has added.             *)
(***************************************************************************)
Counting == held \in Int /\ bulks_dropped \in Int /\ request \in Requests \cup {None}

IInv == Counting /\ StateReleased

\* A request is never taken for the absence of one.
LEMMA RequestsAreSome == \A r \in Requests : r # None
<1>1. \A r \in Requests : r.pdu \in {"GET", "GETNEXT", "SET", "GETBULK"}
  BY ResponderAssumption, Zenon
<1> QED BY <1>1 DEF None

LEMMA InitInv == Init => IInv
<1>1. Init => request = None /\ held = 0 /\ bulks_dropped = 0 BY DEF Init
<1> QED BY <1>1 DEF IInv, Counting, StateReleased

\* Whoever answers a request accounts for its state reference.
LEMMA AnswerCounts ==
    ASSUME IInv, NEW path, NEW reply, NEW released \in BOOLEAN,
           Answered(path, reply, released), UNCHANGED line,
           full => (released <=> ~Unanswered(reply))
    PROVE  IInv'
<1>1. request' = None /\ request # None BY DEF Answered
<1>2. full' <=> full BY DEF full
<1>3. CASE ~full
  BY <1>1, <1>2, <1>3 DEF IInv, Counting, StateReleased, Answered, Unanswered
<1>4. CASE full
  BY <1>1, <1>2, <1>4 DEF IInv, Counting, StateReleased, Answered, Unanswered
<1> QED BY <1>3, <1>4

LEMMA NextInv == IInv /\ [Next]_vars => IInv'
<1> SUFFICES ASSUME IInv, [Next]_vars PROVE IInv'
    OBVIOUS
\* Starting up, and its failures, have no requests to count.
<1>1. ASSUME UNCHANGED <<line, serveVars>> PROVE IInv'
  BY <1>1 DEF IInv, Counting, StateReleased, serveVars, full
<1>2. CASE Fail BY <1>1, <1>2 DEF Fail
<1>3. CASE LoadModules BY <1>1, <1>3 DEF LoadModules, Fail
<1>4. CASE InitModules BY <1>1, <1>4 DEF InitModules
<1>5. CASE ReadOption
  BY <1>1, <1>5 DEF ReadOption, StartEngine, ContextEngine, DataDir, Endpoint, User, Key, Proto,
     CompleteEngine, TakeOption, Fail
<1>6. CASE Configure
  <2>1. ASSUME NEW f, Register(f) PROVE UNCHANGED <<line, serveVars>>
    BY <2>1 DEF Register
  <2>2. CASE Scan \/ EndFiles \/ EndContext \/ FinishEngine \/ FinishLite
    BY <1>1, <2>2 DEF Scan, EndFiles, EndContext, FinishEngine, FinishLite, Fail
  <2>3. CASE ConfigureDuplicate BY <1>1, <2>3 DEF ConfigureDuplicate
  <2>4. CASE ConfigureShared BY <1>1, <2>1, <2>4 DEF ConfigureShared, Fail
  <2>5. CASE ConfigureFile BY <1>1, <2>1, <2>5 DEF ConfigureFile, Fail
  <2> QED BY <1>6, <2>2, <2>3, <2>4, <2>5 DEF Configure
<1>7. CASE Receive
  <2>1. /\ request = None /\ request' \in Requests /\ UNCHANGED <<line, bulks_dropped>>
        /\ held' = IF full THEN held + 1 ELSE held
    BY <1>7 DEF Receive
  <2>2. request' # None BY <2>1, RequestsAreSome
  <2> QED BY <2>1, <2>2 DEF IInv, Counting, StateReleased, full
<1>8. CASE NotSelected
  <2>1. Answered(NoFile, IF full THEN "error" ELSE "dropped", TRUE) BY <1>8 DEF NotSelected
  <2>2. full => ~Unanswered(IF full THEN "error" ELSE "dropped") BY DEF Unanswered
  <2>3. UNCHANGED line BY <2>1 DEF Answered
  <2> QED BY <2>1, <2>2, <2>3, AnswerCounts
<1>9. CASE HandleFull
  <2>1. PICK path \in Selected(request) : \E outcome \in Outcomes(path, request.pdu) :
          \/ outcome \in {"values", "exception"} /\ Answered(path, outcome, TRUE)
          \/ outcome \in {"error", "empty"} /\ Answered(path, "error", TRUE)
          \/ outcome = "nodata" /\ Answered(path, "dropped", request.pdu # "GETBULK")
    BY <1>9 DEF HandleFull, Outcomes
  <2>2. ASSUME NEW reply \in {"values", "exception", "error"}, Answered(path, reply, TRUE)
        PROVE  IInv'
    <3>1. UNCHANGED line BY <2>2 DEF Answered
    <3>2. ~Unanswered(reply) BY DEF Unanswered
    <3> QED BY <2>2, <3>1, <3>2, AnswerCounts
  <2>3. CASE Answered(path, "dropped", request.pdu # "GETBULK")
    <3>1. UNCHANGED line BY <2>3 DEF Answered
    <3>2. full => ((request.pdu # "GETBULK") <=> ~Unanswered("dropped")) BY DEF Unanswered
    <3> QED BY <2>3, <3>1, <3>2, AnswerCounts
  <2> QED BY <2>1, <2>2, <2>3
<1>10. CASE HandleLite
  <2>1. PICK path, reply : ~full /\ Answered(path, reply, TRUE) BY <1>10 DEF HandleLite
  <2>2. UNCHANGED line BY <2>1 DEF Answered
  <2> QED BY <2>1, <2>2, AnswerCounts
<1>11. CASE Shutdown BY <1>1, <1>11 DEF Shutdown
<1>12. CASE UNCHANGED vars BY <1>1, <1>12 DEF vars
<1> QED BY <1>3, <1>4, <1>5, <1>6, <1>7, <1>8, <1>9, <1>10, <1>11, <1>12 DEF Next, Serve

(* The state of every request is released, but for GETBULK requests that   *)
(* are dropped: the handlers of responder.py account for each of them.     *)
THEOREM ResponderReleases == Spec => []StateReleased
<1>1. IInv => StateReleased BY DEF IInv
<1> QED BY InitInv, NextInv, <1>1, PTL DEF Spec

-----------------------------------------------------------------------------
(* Names, and the MD5 sums of names.                                       *)

LEMMA Wrapped ==
    ASSUME NEW S, NEW a \in S, NEW b \in S, NEW x \in Seq(S), NEW y, y = <<a>> \o x \o <<b>>
    PROVE  /\ y \in Seq(S) /\ Len(y) = Len(x) + 2 /\ y[1] = a /\ y[Len(x) + 2] = b
           /\ \A i \in 1..Len(x) : y[i + 1] = x[i]
<1>1. <<a>> \in Seq(S) /\ <<b>> \in Seq(S) /\ Len(x) \in Nat OBVIOUS
<1>2. Len(<<a>>) = 1 /\ <<a>>[1] = a /\ Len(<<b>>) = 1 /\ <<b>>[1] = b OBVIOUS
<1>3. PICK z : z = <<a>> \o x OBVIOUS
<1>4. /\ z \in Seq(S) /\ Len(z) = Len(x) + 1 /\ z[1] = a
      /\ \A i \in 1..Len(x) : z[i + 1] = x[i]
  BY <1>1, <1>2, <1>3, ConcatProperties
<1>5. y = z \o <<b>> BY <1>3
<1>6. /\ y \in Seq(S) /\ Len(y) = Len(x) + 2
      /\ y[Len(x) + 2] = b /\ \A i \in 1..(Len(x) + 1) : y[i] = z[i]
  BY <1>1, <1>2, <1>4, <1>5, ConcatProperties
<1>7. y[1] = a /\ \A i \in 1..Len(x) : y[i + 1] = x[i] BY <1>1, <1>4, <1>6
<1> QED BY <1>6, <1>7

\* y is x between a and b.
Wraps(y, S, a, x, b) ==
    /\ y \in Seq(S) /\ Len(y) = Len(x) + 2 /\ y[1] = a /\ y[Len(x) + 2] = b
    /\ \A i \in 1..Len(x) : y[i + 1] = x[i]

LEMMA WrappedWraps ==
    ASSUME NEW S, NEW a \in S, NEW b \in S, NEW x \in Seq(S)
    PROVE  Wraps(<<a>> \o x \o <<b>>, S, a, x, b)
<1>1. PICK y : y = <<a>> \o x \o <<b>> OBVIOUS
<1>2. Wraps(y, S, a, x, b) BY <1>1, Wrapped DEF Wraps
<1> QED BY <1>1, <1>2, Zenon

LEMMA Sums ==
    ASSUME NEW S, "md5 of" \in S, "!" \in S, NEW x \in Seq(S)
    PROVE  Wraps(Md5(x), S, "md5 of", x, "!")
BY WrappedWraps, Zenon DEF Md5

LEMMA SumsDiffer ==
    ASSUME NEW S, NEW x \in Seq(S), NEW y \in Seq(S), Md5(x) = Md5(y)
    PROVE  x = y
<1> DEFINE T == S \cup {"md5 of", "!"}
<1>1. "md5 of" \in T /\ "!" \in T /\ S \subseteq T OBVIOUS
<1> HIDE DEF T
<1>2. x \in Seq(T) /\ y \in Seq(T) BY <1>1, SeqMonotonic
<1>3. Len(x) \in Nat /\ Len(y) \in Nat BY LenProperties
<1>4. PICK a, b, m : Wraps(m, T, a, x, b) /\ Wraps(m, T, a, y, b) BY <1>1, <1>2, Sums, Zenon
<1>5. Len(x) = Len(y) /\ \A i \in 1..Len(x) : x[i] = y[i] BY <1>3, <1>4 DEF Wraps
<1> QED BY <1>5, SeqEqual

\* What probe_context shortens, without and with the context engine.
Inside(cn, dom, addr) == cn \o <<dom, addr>>
Below(eid, cn, dom, addr) == <<eid>> \o Inside(cn, dom, addr)

LEMMA Parts ==
    ASSUME NEW S, NEW eid \in S, NEW cn \in Seq(S), NEW dom \in S, NEW addr \in S
    PROVE  /\ Inside(cn, dom, addr) \in Seq(S) /\ Len(Inside(cn, dom, addr)) = Len(cn) + 2
           /\ \A i \in 1..Len(cn) : Inside(cn, dom, addr)[i] = cn[i]
           /\ Inside(cn, dom, addr)[Len(cn) + 1] = dom
           /\ Inside(cn, dom, addr)[Len(cn) + 2] = addr
           /\ Below(eid, cn, dom, addr) \in Seq(S) /\ Len(Below(eid, cn, dom, addr)) = Len(cn) + 3
           /\ Below(eid, cn, dom, addr)[1] = eid
           /\ \A i \in 1..(Len(cn) + 2) :
                 Below(eid, cn, dom, addr)[i + 1] = Inside(cn, dom, addr)[i]
<1>1. PICK e : e = <<dom, addr>> OBVIOUS
<1>2. e \in Seq(S) /\ Len(e) = 2 /\ e[1] = dom /\ e[2] = addr BY <1>1
<1>3. PICK f : f = <<eid>> OBVIOUS
<1>4. f \in Seq(S) /\ Len(f) = 1 /\ f[1] = eid BY <1>3
<1>5. Len(cn) \in Nat OBVIOUS
<1>6. PICK q : q = cn \o e OBVIOUS
<1>7. /\ q \in Seq(S) /\ Len(q) = Len(cn) + 2 /\ \A i \in 1..Len(cn) : q[i] = cn[i]
      /\ q[Len(cn) + 1] = dom /\ q[Len(cn) + 2] = addr
  BY <1>2, <1>5, <1>6, ConcatProperties
<1>8. PICK p : p = f \o q OBVIOUS
<1>9. /\ p \in Seq(S) /\ Len(p) = Len(cn) + 3 /\ p[1] = eid
      /\ \A i \in 1..(Len(cn) + 2) : p[i + 1] = q[i]
  <2>1. /\ p \in Seq(S) /\ Len(p) = Len(f) + Len(q)
        /\ \A i \in 1..(Len(f) + Len(q)) : p[i] = IF i <= Len(f) THEN f[i] ELSE q[i - Len(f)]
    BY <1>4, <1>7, <1>8, ConcatProperties
  <2> QED BY <1>4, <1>5, <1>7, <2>1
<1>10. q = Inside(cn, dom, addr) BY <1>1, <1>6 DEF Inside
<1>11. p = Below(eid, cn, dom, addr) BY <1>3, <1>8, <1>10 DEF Below
<1> QED BY <1>7, <1>9, <1>10, <1>11

\* probe_context: the names shortened one by one, below the context engine first.
LEMMA Shortened ==
    ASSUME NEW S, NEW p \in Seq(S)
    PROVE  /\ Shortening(p) \in Seq(Seq(S)) /\ Len(Shortening(p)) = Len(p) /\ Len(p) \in Nat
           /\ \A k \in 1..Len(p) : Shortening(p)[k] = SubSeq(p, 1, Len(p) - k + 1)
<1>0. Len(p) \in Nat /\ \A i \in 1..Len(p) : p[i] \in S BY ElementOfSeq
<1>1. ASSUME NEW k \in 1..Len(p) PROVE SubSeq(p, 1, Len(p) - k + 1) \in Seq(S)
  <2>1. Len(p) - k + 1 \in Int /\ \A i \in 1..(Len(p) - k + 1) : p[i] \in S BY <1>0
  <2> QED BY <2>1, SubSeqProperties
<1>2. Shortening(p) \in [1..Len(p) -> Seq(S)] BY <1>1 DEF Shortening
<1> QED BY <1>0, <1>2, IsASeq DEF Shortening

LEMMA Probes ==
    ASSUME NEW S, NEW eid \in S, NEW cn \in Seq(S), NEW dom \in S, NEW addr \in S
    PROVE  /\ Len(probe_context(eid, cn, dom, addr)) = 2 * Len(cn) + 5
           /\ \A k \in 1..(Len(cn) + 3) :
                 probe_context(eid, cn, dom, addr)[k]
                   = SubSeq(Below(eid, cn, dom, addr), 1, Len(cn) + 4 - k)
           /\ \A k \in 1..(Len(cn) + 2) :
                 probe_context(eid, cn, dom, addr)[Len(cn) + 3 + k]
                   = SubSeq(Inside(cn, dom, addr), 1, Len(cn) + 3 - k)
<1>1. PICK p, q : p = Below(eid, cn, dom, addr) /\ q = Inside(cn, dom, addr) OBVIOUS
<1>2. /\ p \in Seq(S) /\ q \in Seq(S) /\ Len(cn) \in Nat
      /\ Len(p) = Len(cn) + 3 /\ Len(q) = Len(cn) + 2
  BY <1>1, Parts
<1>3. <<eid>> \o cn \o <<dom, addr>> = p
  <2>1. <<eid>> \in Seq(S) /\ <<dom, addr>> \in Seq(S) OBVIOUS
  <2>2. (<<eid>> \o cn) \o <<dom, addr>> = <<eid>> \o (cn \o <<dom, addr>>)
    BY <2>1, ConcatAssociative
  <2> QED BY <1>1, <2>2, Zenon DEF Below, Inside
<1>4. probe_context(eid, cn, dom, addr) = Shortening(p) \o Shortening(q)
  BY <1>1, <1>3, Zenon DEF probe_context, Inside
<1>5. PICK s, t : s = Shortening(p) /\ t = Shortening(q) OBVIOUS
<1>6. /\ s \in Seq(Seq(S)) /\ Len(s) = Len(cn) + 3
      /\ \A k \in 1..(Len(cn) + 3) : s[k] = SubSeq(p, 1, Len(cn) + 4 - k)
  <2>1. Len(p) \in Nat /\ \A k \in 1..Len(p) : Len(p) - k + 1 = Len(cn) + 4 - k BY <1>2
  <2>2. /\ s \in Seq(Seq(S)) /\ Len(s) = Len(p)
        /\ \A k \in 1..Len(p) : s[k] = SubSeq(p, 1, Len(p) - k + 1)
    BY <1>2, <1>5, Shortened
  <2> QED BY <1>2, <2>1, <2>2
<1>7. /\ t \in Seq(Seq(S)) /\ Len(t) = Len(cn) + 2
      /\ \A k \in 1..(Len(cn) + 2) : t[k] = SubSeq(q, 1, Len(cn) + 3 - k)
  <2>1. Len(q) \in Nat /\ \A k \in 1..Len(q) : Len(q) - k + 1 = Len(cn) + 3 - k BY <1>2
  <2>2. /\ t \in Seq(Seq(S)) /\ Len(t) = Len(q)
        /\ \A k \in 1..Len(q) : t[k] = SubSeq(q, 1, Len(q) - k + 1)
    BY <1>2, <1>5, Shortened
  <2> QED BY <1>2, <2>1, <2>2
<1>8. PICK all : all = s \o t OBVIOUS
<1>9. /\ Len(all) = 2 * Len(cn) + 5
      /\ \A k \in 1..(Len(cn) + 3) : all[k] = s[k]
      /\ \A k \in 1..(Len(cn) + 2) : all[Len(cn) + 3 + k] = t[k]
  <2>1. /\ Len(all) = Len(s) + Len(t)
        /\ \A i \in 1..(Len(s) + Len(t)) : all[i] = IF i <= Len(s) THEN s[i] ELSE t[i - Len(s)]
    BY <1>6, <1>7, <1>8, ConcatProperties
  <2>2. Len(all) = 2 * Len(cn) + 5 BY <1>2, <1>6, <1>7, <2>1
  <2>3. \A k \in 1..(Len(cn) + 3) : all[k] = s[k] BY <1>2, <1>6, <1>7, <2>1
  <2>4. ASSUME NEW k \in 1..(Len(cn) + 2) PROVE all[Len(cn) + 3 + k] = t[k]
    <3>1. /\ Len(cn) + 3 + k \in 1..(Len(s) + Len(t)) /\ ~(Len(cn) + 3 + k <= Len(s))
          /\ Len(cn) + 3 + k - Len(s) = k
      BY <1>2, <1>6, <1>7
    <3> QED BY <2>1, <3>1
  <2> QED BY <2>2, <2>3, <2>4
<1>10. all = probe_context(eid, cn, dom, addr) BY <1>4, <1>5, <1>8
<1> QED BY <1>1, <1>6, <1>7, <1>9, <1>10

\* A nonempty name is meant when it is one of those a longer one shortens to.
LEMMA Prefixes ==
    ASSUME NEW S, NEW p \in Seq(S), NEW c \in Seq(S)
    PROVE  /\ Len(p) \in Nat /\ Len(c) \in Nat
           /\ (c # <<>> /\ Prefix(c, p)) => Len(c) \in 1..Len(p) /\ c = SubSeq(p, 1, Len(c))
           /\ \A m \in 1..Len(p) : /\ SubSeq(p, 1, m) \in Seq(S) /\ Len(SubSeq(p, 1, m)) = m
                                   /\ Prefix(SubSeq(p, 1, m), p) /\ SubSeq(p, 1, m) # <<>>
                                   /\ \A i \in 1..m : SubSeq(p, 1, m)[i] = p[i]
<1>1. Len(p) \in Nat /\ Len(c) \in Nat /\ \A i \in 1..Len(p) : p[i] \in S BY ElementOfSeq
<1>2. ASSUME c # <<>>, Prefix(c, p) PROVE Len(c) \in 1..Len(p) /\ c = SubSeq(p, 1, Len(c))
  <2>1. Len(c) # 0 BY <1>2, EmptySeq
  <2> QED BY <1>1, <1>2, <2>1 DEF Prefix
<1>3. ASSUME NEW m \in 1..Len(p)
      PROVE  /\ SubSeq(p, 1, m) \in Seq(S) /\ Len(SubSeq(p, 1, m)) = m
             /\ Prefix(SubSeq(p, 1, m), p) /\ SubSeq(p, 1, m) # <<>>
             /\ \A i \in 1..m : SubSeq(p, 1, m)[i] = p[i]
  <2>1. PICK t : t = SubSeq(p, 1, m) OBVIOUS
  <2>2. t \in Seq(S) /\ Len(t) = m /\ \A i \in 1..m : t[i] = p[i]
    <3>1. m \in Int /\ \A i \in 1..m : p[i] \in S BY <1>1
    <3> QED BY <1>1, <2>1, <3>1, SubSeqProperties
  <2>3. t # <<>> BY <2>2, EmptySeq
  <2>4. Prefix(t, p) BY <1>1, <2>1, <2>2 DEF Prefix
  <2> QED BY <2>1, <2>2, <2>3, <2>4
<1> QED BY <1>1, <1>2, <1>3

LEMMA LeastNat ==
    ASSUME NEW N \in SUBSET Nat, N # {}
    PROVE  \E n \in N : \A m \in N : n <= m
<1>1. PICK n \in N : \A m \in N : <<m, n>> \notin OpToRel(<, Nat)
  BY WFMin, NatLessThanWellFounded, Zenon
<1>2. \A m \in N : ~(m < n) BY <1>1 DEF OpToRel
<1> QED BY <1>2

(***************************************************************************)
(* Specific where names are looked up as they are, for the name <<>> of a  *)
(* file or any other.                                                      *)
(***************************************************************************)
Weight(c, eid, cn, dom, addr) ==
    IF c = <<>> THEN (IF cn = <<>> THEN 1 ELSE 0)
    ELSE IF Prefix(c, Below(eid, cn, dom, addr)) THEN 3 + Len(cn) + Len(c)
    ELSE IF Prefix(c, Inside(cn, dom, addr)) THEN 1 + Len(c) ELSE 0

(***************************************************************************)
(* The first name probed that is one of D: no other of D weighs more.      *)
(***************************************************************************)
Best(all, hits, D, eid, cn, dom, addr) ==
    /\ hits # {} =>
          LET k == CHOOSE i \in hits : \A j \in hits : i <= j
          IN  /\ k \in 1..Len(all) /\ all[k] \in D /\ Weight(all[k], eid, cn, dom, addr) > 0
              /\ \A c \in D : Weight(c, eid, cn, dom, addr) <= Weight(all[k], eid, cn, dom, addr)
    /\ hits = {} => /\ \A c \in D : Weight(c, eid, cn, dom, addr) <= (IF cn = <<>> THEN 1 ELSE 0)
                    /\ cn \in D => cn = <<>>

LEMMA FirstWeighsMost ==
    ASSUME NEW S, NEW eid \in S, NEW cn \in Seq(S), NEW dom \in S, NEW addr \in S,
           NEW D, D \subseteq Seq(S),
           NEW all, all = probe_context(eid, cn, dom, addr),
           NEW hits, hits = {k \in 1..Len(all) : all[k] \in D}
    PROVE  Best(all, hits, D, eid, cn, dom, addr)
<1> DEFINE W(c) == Weight(c, eid, cn, dom, addr)
<1>1. PICK p, q : p = Below(eid, cn, dom, addr) /\ q = Inside(cn, dom, addr) OBVIOUS
<1>2. PICK n \in Nat : n = Len(cn) BY ElementOfSeq
<1>3. p \in Seq(S) /\ q \in Seq(S) /\ Len(p) = n + 3 /\ Len(q) = n + 2
  BY <1>1, <1>2, Parts
<1>4. /\ Len(all) = 2 * n + 5
      /\ \A k \in 1..(n + 3) : all[k] = SubSeq(p, 1, n + 4 - k)
      /\ \A k \in 1..(n + 2) : all[n + 3 + k] = SubSeq(q, 1, n + 3 - k)
  <2>1. /\ Len(all) = 2 * Len(cn) + 5
        /\ \A k \in 1..(Len(cn) + 3) : all[k] = SubSeq(p, 1, Len(cn) + 4 - k)
        /\ \A k \in 1..(Len(cn) + 2) : all[Len(cn) + 3 + k] = SubSeq(q, 1, Len(cn) + 3 - k)
    <3>1. /\ Len(all) = 2 * Len(cn) + 5
          /\ \A k \in 1..(Len(cn) + 3) :
                 all[k] = SubSeq(Below(eid, cn, dom, addr), 1, Len(cn) + 4 - k)
          /\ \A k \in 1..(Len(cn) + 2) :
                 all[Len(cn) + 3 + k] = SubSeq(Inside(cn, dom, addr), 1, Len(cn) + 3 - k)
      BY Probes
    <3> QED BY <1>1, <3>1
  <2> QED BY <1>2, <2>1
\* What the weight of a name is, and where it is probed.
<1>5. W(<<>>) = IF cn = <<>> THEN 1 ELSE 0 BY Zenon DEF Weight
<1>6. ASSUME NEW c \in Seq(S), c # <<>>, Prefix(c, p)
      PROVE  /\ Len(c) \in 1..(n + 3) /\ W(c) = n + 3 + Len(c)
             /\ n + 4 - Len(c) \in 1..(n + 3) /\ c = all[n + 4 - Len(c)]
  <2>1. Len(c) \in 1..(n + 3) /\ c = SubSeq(p, 1, Len(c)) BY <1>3, <1>6, Prefixes
  <2>2. W(c) = 3 + n + Len(c) BY <1>1, <1>2, <1>6, Zenon DEF Weight
  <2>3. n + 4 - Len(c) \in 1..(n + 3) /\ n + 4 - (n + 4 - Len(c)) = Len(c) BY <2>1
  <2>4. all[n + 4 - Len(c)] = SubSeq(p, 1, n + 4 - (n + 4 - Len(c))) BY <1>4, <2>3
  <2>5. all[n + 4 - Len(c)] = c BY <2>1, <2>3, <2>4
  <2> QED BY <2>1, <2>2, <2>3, <2>5
<1>7. ASSUME NEW c \in Seq(S), c # <<>>, ~Prefix(c, p), Prefix(c, q)
      PROVE  /\ Len(c) \in 1..(n + 2) /\ W(c) = 1 + Len(c)
  <2>1. Len(c) \in 1..(n + 2) BY <1>3, <1>7, Prefixes
  <2>2. W(c) = 1 + Len(c) BY <1>1, <1>2, <1>7, Zenon DEF Weight
  <2> QED BY <2>1, <2>2
<1>8. ASSUME NEW c \in Seq(S), c # <<>>, Prefix(c, q)
      PROVE  Len(c) \in 1..(n + 2) /\ c = all[n + 3 + (n + 3 - Len(c))]
  <2>1. Len(c) \in 1..(n + 2) /\ c = SubSeq(q, 1, Len(c)) BY <1>3, <1>8, Prefixes
  <2>2. n + 3 - Len(c) \in 1..(n + 2) /\ n + 3 - (n + 3 - Len(c)) = Len(c) BY <2>1
  <2>3. all[n + 3 + (n + 3 - Len(c))] = SubSeq(q, 1, n + 3 - (n + 3 - Len(c))) BY <1>4, <2>2
  <2>4. all[n + 3 + (n + 3 - Len(c))] = c BY <2>1, <2>2, <2>3
  <2> QED BY <2>1, <2>4
<1>9. ASSUME NEW c \in Seq(S), c # <<>>, ~Prefix(c, p), ~Prefix(c, q) PROVE W(c) = 0
  BY <1>1, <1>9, Zenon DEF Weight
\* The weight of what is probed falls from each name to the next.
<1>10. ASSUME NEW k \in 1..(n + 3)
       PROVE  all[k] \in Seq(S) /\ W(all[k]) = 2 * n + 7 - k
  <2>1. n + 4 - k \in 1..Len(p) BY <1>3
  <2>2. PICK c : c = SubSeq(p, 1, n + 4 - k) OBVIOUS
  <2>3. c \in Seq(S) /\ Len(c) = n + 4 - k /\ Prefix(c, p) /\ c # <<>> BY <1>3, <2>1, <2>2, Prefixes
  <2>4. W(c) = n + 3 + Len(c) BY <1>6, <2>3
  <2>5. all[k] = c BY <1>4, <2>2
  <2>6. W(c) = 2 * n + 7 - k BY <2>3, <2>4
  <2> QED BY <2>3, <2>5, <2>6
<1>11. ASSUME NEW k \in 1..(n + 2)
       PROVE  /\ all[n + 3 + k] \in Seq(S) /\ W(all[n + 3 + k]) \in Int
              /\ W(all[n + 3 + k]) >= n + 4 - k
  <2>1. n + 3 - k \in 1..Len(q) BY <1>3
  <2>2. PICK c : c = SubSeq(q, 1, n + 3 - k) OBVIOUS
  <2>3. c \in Seq(S) /\ Len(c) = n + 3 - k /\ Prefix(c, q) /\ c # <<>> BY <1>3, <2>1, <2>2, Prefixes
  <2>4. all[n + 3 + k] = c BY <1>4, <2>2
  <2>5. W(c) \in Int /\ W(c) >= n + 4 - k
    <3>1. CASE Prefix(c, p)
      <4>1. W(c) = n + 3 + Len(c) BY <1>6, <2>3, <3>1
      <4> QED BY <2>3, <4>1
    <3>2. CASE ~Prefix(c, p)
      <4>1. W(c) = 1 + Len(c) BY <1>7, <2>3, <3>2
      <4> QED BY <2>3, <4>1
    <3> QED BY <3>1, <3>2
  <2> QED BY <2>3, <2>4, <2>5
<1> HIDE DEF W
<1>12. ASSUME hits # {}, NEW k \in hits, \A j \in hits : k <= j
       PROVE  /\ k \in 1..Len(all) /\ all[k] \in D /\ W(all[k]) > 0
              /\ \A c \in D : W(c) <= W(all[k])
  <2>1. k \in 1..(2 * n + 5) /\ all[k] \in D BY <1>4
  <2>2. W(all[k]) \in Int /\ W(all[k]) > 0 /\ (k > n + 3 => W(all[k]) >= 2 * n + 7 - k)
        /\ (k <= n + 3 => W(all[k]) = 2 * n + 7 - k)
    <3>1. CASE k <= n + 3 BY <1>10, <2>1, <3>1
    <3>2. CASE k > n + 3
      <4>1. PICK i \in 1..(n + 2) : k = n + 3 + i
        <5>1. k - (n + 3) \in 1..(n + 2) /\ k = n + 3 + (k - (n + 3)) BY <2>1, <3>2
        <5> QED BY <5>1
      <4>2. W(all[k]) \in Int /\ W(all[k]) >= n + 4 - i BY <1>11, <4>1
      <4> QED BY <2>1, <4>1, <4>2
    <3> QED BY <2>1, <3>1, <3>2
  <2>3. ASSUME NEW c \in D PROVE W(c) <= W(all[k])
    <3>0. c \in Seq(S) OBVIOUS
    <3>1. CASE c = <<>>
      <4>1. W(c) = 0 \/ W(c) = 1 BY <1>5, <3>1
      <4> QED BY <2>2, <4>1
    <3>2. CASE c # <<>> /\ Prefix(c, p)
      <4>1. /\ Len(c) \in 1..(n + 3) /\ W(c) = n + 3 + Len(c)
            /\ n + 4 - Len(c) \in 1..(n + 3) /\ c = all[n + 4 - Len(c)]
        BY <1>6, <3>0, <3>2
      <4>2. n + 4 - Len(c) \in hits BY <1>4, <4>1
      <4>3. k <= n + 4 - Len(c) BY <1>12, <4>2
      <4> QED BY <2>1, <2>2, <4>1, <4>3
    <3>3. CASE c # <<>> /\ ~Prefix(c, p) /\ Prefix(c, q)
      <4>1. Len(c) \in 1..(n + 2) /\ W(c) = 1 + Len(c) BY <1>7, <3>0, <3>3
      <4>2. c = all[n + 3 + (n + 3 - Len(c))] BY <1>8, <3>0, <3>3
      <4>3. n + 3 + (n + 3 - Len(c)) \in 1..Len(all) BY <1>4, <4>1
      <4>4. n + 3 + (n + 3 - Len(c)) \in hits BY <4>2, <4>3
      <4>5. k <= n + 3 + (n + 3 - Len(c)) BY <1>12, <4>4
      <4> QED BY <2>1, <2>2, <4>1, <4>5
    <3>4. CASE c # <<>> /\ ~Prefix(c, p) /\ ~Prefix(c, q)
      <4>1. W(c) = 0 BY <1>9, <3>0, <3>4
      <4> QED BY <2>2, <4>1
    <3> QED BY <3>1, <3>2, <3>3, <3>4
  <2> QED BY <1>4, <2>1, <2>2, <2>3
<1>13. ASSUME hits = {}
       PROVE  /\ \A c \in D : W(c) <= (IF cn = <<>> THEN 1 ELSE 0)
              /\ cn \in D => cn = <<>>
  <2>1. ASSUME NEW c \in D, c # <<>> PROVE ~Prefix(c, p) /\ ~Prefix(c, q)
    <3>0. c \in Seq(S) OBVIOUS
    <3>1. CASE Prefix(c, p)
      <4>1. n + 4 - Len(c) \in 1..(n + 3) /\ c = all[n + 4 - Len(c)]
        BY <1>6, <2>1, <3>0, <3>1
      <4>2. n + 4 - Len(c) \in hits BY <1>4, <4>1
      <4> QED BY <1>13, <4>2
    <3>2. CASE Prefix(c, q)
      <4>1. Len(c) \in 1..(n + 2) /\ c = all[n + 3 + (n + 3 - Len(c))]
        BY <1>8, <2>1, <3>0, <3>2
      <4>2. n + 3 + (n + 3 - Len(c)) \in 1..Len(all) BY <1>4, <4>1
      <4>3. n + 3 + (n + 3 - Len(c)) \in hits BY <4>1, <4>2
      <4> QED BY <1>13, <4>3
    <3> QED BY <3>1, <3>2
  <2>2. ASSUME NEW c \in D PROVE W(c) <= (IF cn = <<>> THEN 1 ELSE 0)
    <3>1. CASE c = <<>> BY <1>5, <3>1
    <3>2. CASE c # <<>>
      <4>1. W(c) = 0 BY <1>9, <2>1, <3>2
      <4> QED BY <4>1
    <3> QED BY <3>1, <3>2
  <2>3. ASSUME cn \in D, cn # <<>> PROVE FALSE
    <3>1. \A i \in 1..n : q[i] = cn[i]
      <4>1. \A i \in 1..Len(cn) : Inside(cn, dom, addr)[i] = cn[i] BY Parts
      <4> QED BY <1>1, <1>2, <4>1
    <3>2. n \in 1..Len(q) BY <1>2, <1>3, <2>3, EmptySeq
    <3>3. PICK t : t = SubSeq(q, 1, n) OBVIOUS
    <3>4. t \in Seq(S) /\ Len(t) = n /\ Prefix(t, q) /\ \A i \in 1..n : t[i] = q[i]
      BY <1>3, <3>2, <3>3, Prefixes
    <3>5. t = cn BY <1>2, <3>1, <3>4, SeqEqual
    <3> QED BY <2>1, <2>3, <3>4, <3>5
  <2> QED BY <2>2, <2>3
<1>14. ASSUME hits # {}
       PROVE  LET k == CHOOSE i \in hits : \A j \in hits : i <= j
              IN  k \in hits /\ \A j \in hits : k <= j
  <2>1. hits \in SUBSET Nat BY <1>4
  <2>2. \E i \in hits : \A j \in hits : i <= j BY <1>14, <2>1, LeastNat
  <2> QED BY <2>2
<1> QED BY <1>12, <1>13, <1>14 DEF W, Best

\* What is between a and b, neither of them a name, is no name itself.
LEMMA WrapsNoName ==
    ASSUME NEW N, NEW a, a \notin N, NEW b, NEW T, NEW x \in Seq(N), NEW c \in Seq(N)
    PROVE  ~Wraps(c, T, a, x, b)
<1>1. Len(x) \in Nat /\ \A i \in 1..Len(c) : c[i] \in N BY ElementOfSeq
<1> QED BY <1>1 DEF Wraps

\* What the names are shortened from, and a name of them.
Longest(p, q, eid, cn, S) ==
    /\ p \in Seq(S) /\ Len(p) = Len(cn) + 3 /\ p[1] = eid
    /\ \A i \in 1..(Len(cn) + 2) : p[i + 1] = q[i]
    /\ q \in Seq(S) /\ Len(q) = Len(cn) + 2 /\ \A i \in 1..Len(cn) : q[i] = cn[i]

ProbedFrom(c, p, q) == \/ \E j \in 1..Len(p) : c = SubSeq(p, 1, j)
                       \/ \E j \in 1..Len(q) : c = SubSeq(q, 1, j)

LEMMA Probed ==
    ASSUME NEW S, NEW eid \in S, NEW cn \in Seq(S), NEW dom \in S, NEW addr \in S
    PROVE  \E p, q : /\ Longest(p, q, eid, cn, S)
                     /\ \A k \in 1..Len(probe_context(eid, cn, dom, addr)) :
                           ProbedFrom(probe_context(eid, cn, dom, addr)[k], p, q)
<1>1. PICK p, q, all : /\ p = Below(eid, cn, dom, addr) /\ q = Inside(cn, dom, addr)
                       /\ all = probe_context(eid, cn, dom, addr)
  OBVIOUS
<1>2. PICK n \in Nat : n = Len(cn) BY ElementOfSeq
<1>3. /\ p \in Seq(S) /\ q \in Seq(S) /\ Len(p) = n + 3 /\ Len(q) = n + 2
      /\ Longest(p, q, eid, cn, S)
  <2>1. /\ Inside(cn, dom, addr) \in Seq(S) /\ Len(Inside(cn, dom, addr)) = Len(cn) + 2
        /\ \A i \in 1..Len(cn) : Inside(cn, dom, addr)[i] = cn[i]
        /\ Below(eid, cn, dom, addr) \in Seq(S) /\ Len(Below(eid, cn, dom, addr)) = Len(cn) + 3
        /\ Below(eid, cn, dom, addr)[1] = eid
        /\ \A i \in 1..(Len(cn) + 2) :
               Below(eid, cn, dom, addr)[i + 1] = Inside(cn, dom, addr)[i]
    <3>1. /\ Inside(cn, dom, addr) \in Seq(S) /\ Len(Inside(cn, dom, addr)) = Len(cn) + 2
          /\ \A i \in 1..Len(cn) : Inside(cn, dom, addr)[i] = cn[i]
      BY Parts
    <3>2. /\ Below(eid, cn, dom, addr) \in Seq(S) /\ Len(Below(eid, cn, dom, addr)) = Len(cn) + 3
          /\ Below(eid, cn, dom, addr)[1] = eid
      BY Parts
    <3>3. \A i \in 1..(Len(cn) + 2) :
               Below(eid, cn, dom, addr)[i + 1] = Inside(cn, dom, addr)[i]
      BY Parts
    <3> QED BY <3>1, <3>2, <3>3
  <2>2. Longest(p, q, eid, cn, S) BY <1>1, <2>1 DEF Longest
  <2> QED BY <1>2, <2>2 DEF Longest
<1>4. /\ Len(all) = 2 * n + 5
      /\ \A i \in 1..(n + 3) : all[i] = SubSeq(p, 1, n + 4 - i)
      /\ \A i \in 1..(n + 2) : all[n + 3 + i] = SubSeq(q, 1, n + 3 - i)
  <2>1. /\ Len(all) = 2 * Len(cn) + 5
        /\ \A k \in 1..(Len(cn) + 3) :
               all[k] = SubSeq(Below(eid, cn, dom, addr), 1, Len(cn) + 4 - k)
        /\ \A k \in 1..(Len(cn) + 2) :
               all[Len(cn) + 3 + k] = SubSeq(Inside(cn, dom, addr), 1, Len(cn) + 3 - k)
    BY <1>1, Probes
  <2> QED BY <1>1, <1>2, <2>1
<1>5. ASSUME NEW k \in 1..Len(all) PROVE ProbedFrom(all[k], p, q)
  <2>1. k \in 1..(2 * n + 5) BY <1>4
  <2>2. CASE k <= n + 3
    <3>1. n + 4 - k \in 1..Len(p) /\ all[k] = SubSeq(p, 1, n + 4 - k) BY <1>3, <1>4, <2>1, <2>2
    <3> QED BY <3>1 DEF ProbedFrom
  <2>3. CASE k > n + 3
    <3>1. PICK i \in 1..(n + 2) : k = n + 3 + i
      <4>1. k - (n + 3) \in 1..(n + 2) /\ k = n + 3 + (k - (n + 3)) BY <2>1, <2>3
      <4> QED BY <4>1
    <3>2. n + 3 - i \in 1..Len(q) /\ all[k] = SubSeq(q, 1, n + 3 - i) BY <1>3, <1>4, <3>1
    <3> QED BY <3>2 DEF ProbedFrom
  <2> QED BY <2>1, <2>2, <2>3
<1> QED BY <1>1, <1>3, <1>5

(***************************************************************************)
(* A request for a name by its MD5 sum m meets the file of that name only: *)
(* whatever is probed and is a name or the MD5 sum of one.                 *)
(***************************************************************************)
LEMMA ProbedBySum ==
    ASSUME NEW N, NEW a, a \notin N, NEW b, b \notin N, NEW T, N \subseteq T, a \in T, b \in T,
           NEW eid \in N, NEW name \in Seq(N), NEW m, Wraps(m, T, a, name, b),
           NEW ident \in Seq(N), ident # <<eid>>, NEW w, Wraps(w, T, a, ident, b),
           NEW p, NEW q, Longest(p, q, eid, m, T),
           NEW c, ProbedFrom(c, p, q), c = ident \/ c = w
    PROVE  ident = name
<1>2. PICK n \in Nat : n = Len(name) BY ElementOfSeq
<1>3. PICK l \in Nat : l = Len(ident) BY ElementOfSeq
<1>4. /\ m \in Seq(T) /\ Len(m) = n + 2 /\ m[1] = a /\ m[n + 2] = b
      /\ \A i \in 1..n : m[i + 1] = name[i]
  BY <1>2 DEF Wraps
<1>5. /\ w \in Seq(T) /\ Len(w) = l + 2 /\ w[1] = a /\ w[l + 2] = b
      /\ \A i \in 1..l : w[i + 1] = ident[i]
  BY <1>3 DEF Wraps
<1>6. /\ \A i \in 1..n : name[i] \in N
      /\ \A i \in 1..l : ident[i] \in N
  BY <1>2, <1>3, ElementOfSeq
<1>8. /\ p \in Seq(T) /\ Len(p) = n + 5 /\ p[1] = eid
      /\ \A i \in 1..(n + 4) : p[i + 1] = q[i]
      /\ q \in Seq(T) /\ Len(q) = n + 4
      /\ \A i \in 1..(n + 2) : q[i] = m[i]
  BY <1>2, <1>4 DEF Longest
<1>9. \/ \E j \in 1..(n + 5) : c = SubSeq(p, 1, j)
      \/ \E j \in 1..(n + 4) : c = SubSeq(q, 1, j)
  BY <1>8 DEF ProbedFrom
\* Below the context engine there is nothing to find.
<1>10. ASSUME NEW j \in 1..(n + 5), c = SubSeq(p, 1, j) PROVE FALSE
  <2>1. c \in Seq(T) /\ Len(c) = j /\ \A i \in 1..j : c[i] = p[i] BY <1>8, <1>10, Prefixes
  <2>2. CASE c = w BY <1>5, <1>8, <2>1, <2>2
  <2>3. CASE c = ident
    <3>1. j = l /\ c[1] = eid BY <1>3, <1>8, <2>1, <2>3
    <3>2. CASE j = 1
      <4>1. ident \in Seq(T) /\ <<eid>> \in Seq(T) /\ Len(<<eid>>) = 1 /\ <<eid>>[1] = eid
        BY <2>1, <2>3
      <4>2. Len(ident) = 1 /\ ident[1] = eid BY <2>1, <2>3, <3>1, <3>2
      <4>3. ident = <<eid>> BY <4>1, <4>2, SeqEqual
      <4> QED BY <4>3
    <3>3. CASE j >= 2
      <4>1. c[2] = p[2] /\ p[2] = q[1] /\ q[1] = a BY <1>4, <1>8, <2>1, <3>3
      <4>2. ident[2] \in N BY <1>6, <3>1, <3>3
      <4> QED BY <2>3, <4>1, <4>2
    <3> QED BY <3>2, <3>3
  <2> QED BY <2>2, <2>3
<1>11. ASSUME NEW j \in 1..(n + 4), c = SubSeq(q, 1, j) PROVE ident = name
  <2>1. c \in Seq(T) /\ Len(c) = j /\ \A i \in 1..j : c[i] = q[i] BY <1>8, <1>11, Prefixes
  <2>2. CASE c = ident
    <3>1. j = l /\ c[1] = a BY <1>3, <1>4, <1>8, <2>1, <2>2
    <3>2. ident[1] \in N BY <1>6, <3>1
    <3> QED BY <2>2, <3>1, <3>2
  <2>3. CASE c = w
    <3>1. j = l + 2 /\ \A i \in 1..(l + 2) : w[i] = q[i] BY <1>5, <2>1, <2>3
    <3>2. CASE l > n
      <4>1. w[n + 2] = ident[n + 1] /\ ident[n + 1] \in N BY <1>5, <1>6, <3>2
      <4>2. w[n + 2] = b BY <1>4, <1>8, <3>1, <3>2
      <4> QED BY <4>1, <4>2
    <3>3. CASE l < n
      <4>1. m[l + 2] = name[l + 1] /\ name[l + 1] \in N BY <1>4, <1>6, <3>3
      <4>2. m[l + 2] = b BY <1>5, <1>8, <3>1, <3>3
      <4> QED BY <4>1, <4>2
    <3>4. CASE l = n
      <4>1. \A i \in 1..n : w[i + 1] = m[i + 1] BY <1>8, <3>1, <3>4
      <4>2. \A i \in 1..n : ident[i] = name[i] BY <1>4, <1>5, <3>4, <4>1
      <4> QED BY <1>2, <1>3, <3>4, <4>2, SeqEqual
    <3> QED BY <3>2, <3>3, <3>4
  <2> QED BY <2>2, <2>3
<1> QED BY <1>9, <1>10, <1>11

\* Names are probed, and finitely many.
LEMMA ProbedNames ==
    ASSUME NEW S, NEW eid \in S, NEW cn \in Seq(S), NEW dom \in S, NEW addr \in S
    PROVE  /\ Len(probe_context(eid, cn, dom, addr)) \in Nat
           /\ \A k \in 1..Len(probe_context(eid, cn, dom, addr)) :
                 probe_context(eid, cn, dom, addr)[k] \in Seq(S)
<1>1. PICK all : all = probe_context(eid, cn, dom, addr) OBVIOUS
<1>2. PICK p, q : Longest(p, q, eid, cn, S) /\ \A k \in 1..Len(all) : ProbedFrom(all[k], p, q)
  BY <1>1, Probed, Zenon
<1>3. p \in Seq(S) /\ q \in Seq(S) BY <1>2 DEF Longest
<1>4. ASSUME NEW k \in 1..Len(all) PROVE all[k] \in Seq(S)
  <2>1. CASE \E j \in 1..Len(p) : all[k] = SubSeq(p, 1, j) BY <1>3, <2>1, Prefixes
  <2>2. CASE \E j \in 1..Len(q) : all[k] = SubSeq(q, 1, j) BY <1>3, <2>2, Prefixes
  <2> QED BY <1>2, <2>1, <2>2 DEF ProbedFrom
<1>5. Len(all) = 2 * Len(cn) + 5 BY <1>1, Probes
<1>6. Len(cn) \in Nat BY ElementOfSeq
<1>7. Len(all) \in Nat BY <1>5, <1>6
<1> QED BY <1>1, <1>4, <1>7

-----------------------------------------------------------------------------
(***************************************************************************)
(* What Unambiguous and MostSpecific rest on.  The options read so far     *)
(* have left lists of directories, each with its context engine; files are *)
(* registered once per engine, context engine and name; nothing is         *)
(* answered before the responder serves.                                   *)
(***************************************************************************)
Paths == Seq(STRING)

Values == {SELF_LABEL} \cup UNION {{c.options[i][2] : i \in DOMAIN c.options} : c \in CommandLines}

Shape ==
    /\ tree \in Trees /\ line \in CommandLines
    /\ option \in 1..Len(Options)
    /\ {"contexts", "dirs"} \subseteq DOMAIN acc
    /\ acc.dirs \in Seq(Paths) /\ acc.contexts \in Seq([id : Values, dirs : Seq(Paths)])
    /\ at \in (Nat \ {0}) \X (Nat \ {0})
    /\ pc \in {"load", "init"} => at = <<1, 1>>
    /\ pc \in {"scan", "files", "finish"} => at[1] <= Len(acc.contexts)

Named(Names) == \A d \in registered \cup todo : d.ident \in Seq(Names) /\ d.ident # <<SELF_LABEL>>

Distinct == \A d, e \in registered :
    (d.engine = e.engine /\ d.context = e.context /\ d.ident = e.ident) => d = e

Quiet == last.path # NoFile => pc \in {"serve", "ended"}

\* The options, with the engine and the end that are added to them.
Follows(y, s, t, z) ==
    /\ Len(y) \in Nat \ {0} /\ y[Len(y)] = z
    /\ \A i \in 1..Len(y) : \/ \E j \in 1..Len(s) : y[i] = s[j]
                            \/ \E j \in 1..Len(t) : y[i] = t[j]
                            \/ y[i] = z

LEMMA Following ==
    ASSUME NEW S, NEW s \in Seq(S), NEW t \in Seq(S), NEW z \in S
    PROVE  Follows(s \o t \o <<z>>, s, t, z)
<1>1. PICK y, u, e : u = s \o t /\ e = <<z>> /\ y = u \o e OBVIOUS
<1>2. e \in Seq(S) /\ Len(e) = 1 /\ e[1] = z BY <1>1
<1>3. Len(s) \in Nat /\ Len(t) \in Nat OBVIOUS
<1>4. /\ u \in Seq(S) /\ Len(u) = Len(s) + Len(t)
      /\ \A i \in 1..(Len(s) + Len(t)) : u[i] = IF i <= Len(s) THEN s[i] ELSE t[i - Len(s)]
  BY <1>1, ConcatProperties
<1>5. /\ Len(y) = Len(u) + 1
      /\ \A i \in 1..(Len(u) + 1) : y[i] = IF i <= Len(u) THEN u[i] ELSE e[i - Len(u)]
  BY <1>1, <1>2, <1>4, ConcatProperties
<1>6. Len(y) \in Nat \ {0} /\ y[Len(y)] = z BY <1>2, <1>3, <1>4, <1>5
<1>7. ASSUME NEW i \in 1..Len(y)
      PROVE  \/ \E j \in 1..Len(s) : y[i] = s[j]
             \/ \E j \in 1..Len(t) : y[i] = t[j]
             \/ y[i] = z
  <2>1. CASE i <= Len(s)
    <3>1. i \in 1..Len(s) /\ y[i] = s[i] BY <1>3, <1>4, <1>5, <2>1
    <3> QED BY <3>1
  <2>2. CASE i > Len(s) /\ i <= Len(u)
    <3>1. i - Len(s) \in 1..Len(t) /\ y[i] = t[i - Len(s)] BY <1>3, <1>4, <1>5, <2>2
    <3> QED BY <3>1
  <2>3. CASE i > Len(u)
    <3>1. i = Len(y) BY <1>3, <1>4, <1>5, <2>3
    <3> QED BY <1>6, <3>1
  <2> QED BY <1>3, <1>4, <2>1, <2>2, <2>3
<1>8. Follows(y, s, t, z) BY <1>6, <1>7 DEF Follows
<1> QED BY <1>1, <1>8, Zenon

LEMMA OptionList ==
    ASSUME line \in CommandLines
    PROVE  /\ Len(Options) \in Nat \ {0} /\ Options[Len(Options)][1] = "end-of-options"
           /\ \A i \in 1..Len(Options) :
                 /\ Options[i][1] = "data-dir" => Options[i][2] \in Paths
                 /\ Options[i][1] = "v3-context-engine-id" => Options[i][2] \in Values
<1> DEFINE O == {line.options[i] : i \in DOMAIN line.options}
           first == <<"v3-engine-id", "auto">>
           z == <<"end-of-options", "">>
           S == O \cup {first, z}
           s == IF line.options = <<>> \/ line.options[1][1] # "v3-engine-id"
                THEN <<first>> ELSE <<>>
<1>1. line.options \in Seq(O) BY ResponderAssumption, Zenon
<1>2. ASSUME NEW x \in O
      PROVE  (x[1] = "data-dir" => x[2] \in Paths) /\ x[2] \in Values
  <2>1. PICK i \in DOMAIN line.options : x = line.options[i] BY <1>2
  <2>2. line.options[i][1] = "data-dir" => line.options[i][2] \in Seq(STRING)
    BY ResponderAssumption
  <2>3. line.options[i][2] \in Values
    <3>1. PICK v : v = {line.options[j][2] : j \in DOMAIN line.options} OBVIOUS
    <3>2. line.options[i][2] \in v BY <3>1
    <3>3. v \in {{c.options[j][2] : j \in DOMAIN c.options} : c \in CommandLines} BY <3>1
    <3> QED BY <3>2, <3>3 DEF Values
  <2> QED BY <2>1, <2>2, <2>3 DEF Paths
<1>3. first[1] = "v3-engine-id" /\ z[1] = "end-of-options" OBVIOUS
<1>4. Options = s \o line.options \o <<z>> BY Zenon DEF Options
<1>5. first \in S /\ z \in S /\ O \subseteq S OBVIOUS
<1>6. s = <<first>> \/ s = <<>> OBVIOUS
<1> HIDE DEF O, first, z, S, s
<1>7. s \in Seq(S) /\ \A j \in 1..Len(s) : s[j] = first
  <2>1. CASE s = <<first>>
    <3>1. PICK x \in S : x = first BY <1>5
    <3>2. <<x>> \in Seq(S) /\ Len(<<x>>) = 1 /\ <<x>>[1] = x OBVIOUS
    <3> QED BY <2>1, <3>1, <3>2
  <2>2. CASE s = <<>> BY <2>2, EmptySeq
  <2> QED BY <1>6, <2>1, <2>2
<1>8. line.options \in Seq(S) BY <1>1, <1>5, SeqMonotonic
<1>9. Follows(Options, s, line.options, z) BY <1>4, <1>5, <1>7, <1>8, Following
<1>10. \A j \in 1..Len(line.options) : line.options[j] \in O BY <1>1, ElementOfSeq
<1>11. \A i \in 1..Len(Options) : Options[i] \in O \/ Options[i] = first \/ Options[i] = z
  BY <1>7, <1>9, <1>10 DEF Follows
<1>12. Len(Options) \in Nat \ {0} /\ Options[Len(Options)] = z BY <1>9 DEF Follows
<1> QED BY <1>2, <1>3, <1>11, <1>12

\* get_data_files names files by names of theirs, and none by the label of the engine.
LEMMA FileNames ==
    ASSUME NEW Names, SumsApart(Names), tree \in Trees, NEW dir \in Paths,
           NEW f \in DataFiles(dir, tree)
    PROVE  f.ident \in Seq(Names) /\ f.ident # <<SELF_LABEL>>
<1>1. PICK e \in tree : f.ident = WithoutSelf(SubSeq(e.to, Len(dir) + 1, Len(e.to)))
  BY DEF DataFiles, Listed, Ident
<1>2. e.to \in Seq(Names) BY DEF SumsApart
<1>3. Len(dir) \in Nat BY DEF Paths
<1>4. PICK s : s = SubSeq(e.to, Len(dir) + 1, Len(e.to)) OBVIOUS
<1>5. s \in Seq(Names)
  <2>1. PICK x, m, n : x = e.to /\ m = Len(dir) + 1 /\ n = Len(e.to) OBVIOUS
  <2>2. x \in Seq(Names) /\ m \in Int /\ m >= 1 /\ n = Len(x) /\ n \in Int
    BY <1>2, <1>3, <2>1, LenProperties
  <2>3. \A i \in m..n : x[i] \in Names BY <2>2, ElementOfSeq
  <2>4. SubSeq(x, m, n) \in Seq(Names) BY <2>2, <2>3, SubSeqProperties
  <2> QED BY <1>4, <2>1, <2>4
<1>6. PICK inside : inside = IF Len(s) > 1 /\ s[1] = SELF_LABEL THEN Tail(s) ELSE s OBVIOUS
<1>7. inside \in Seq(Names)
  <2>1. CASE Len(s) > 1
    <3>1. s # <<>> BY <2>1, EmptySeq
    <3>2. Tail(s) \in Seq(Names) BY <1>5, <3>1, HeadTailProperties
    <3> QED BY <1>5, <1>6, <3>2
  <2>2. CASE ~(Len(s) > 1) BY <1>5, <1>6, <2>2
  <2> QED BY <2>1, <2>2
<1>8. f.ident = IF inside = <<SELF_LABEL>> THEN <<>> ELSE inside
  BY <1>1, <1>4, <1>6, Zenon DEF WithoutSelf
<1>9. <<>> \in Seq(Names) /\ <<>> # <<SELF_LABEL>> BY EmptySeq
<1> QED BY <1>7, <1>8, <1>9

LEMMA ShapeInit ==
    ASSUME NEW Names, Init
    PROVE  Shape /\ Named(Names) /\ Distinct /\ Quiet
<1>1. /\ tree \in Trees /\ line \in CommandLines /\ option = 1 /\ acc = FreshEngine
      /\ at = <<1, 1>> /\ pc = "load" /\ todo = {} /\ registered = {} /\ last = Nothing
  BY DEF Init
<1>2. 1 \in 1..Len(Options) BY <1>1, OptionList
<1>3. /\ {"contexts", "dirs"} \subseteq DOMAIN acc /\ acc.dirs = <<>> /\ acc.contexts = <<>>
  BY <1>1 DEF FreshEngine
<1>4. acc.dirs \in Seq(Paths) /\ acc.contexts \in Seq([id : Values, dirs : Seq(Paths)])
  BY <1>3, EmptySeq
<1>5. at \in (Nat \ {0}) \X (Nat \ {0}) BY <1>1
<1>6. Shape BY <1>1, <1>2, <1>3, <1>4, <1>5 DEF Shape
<1>7. Named(Names) BY <1>1 DEF Named
<1>8. Distinct BY <1>1 DEF Distinct
<1>9. Quiet BY <1>1 DEF Quiet, Nothing
<1> QED BY <1>6, <1>7, <1>8, <1>9

\* A file that is registered, where its name may be.
LEMMA RegisterKeeps ==
    ASSUME NEW Names, Named(Names), Distinct,
           NEW ident \in Seq(Names), ident # <<SELF_LABEL>>, NEW path,
           ~(full /\ NameTaken(ident)),
           registered' = {r \in registered : full \/ r.ident # ident}
                            \cup {Registered(ident, path)},
           todo' \subseteq todo
    PROVE  Named(Names)' /\ Distinct'
<1>1. PICK n : n = Registered(ident, path) OBVIOUS
<1>2. n.engine = engine /\ n.context = Context.id /\ n.ident = ident BY <1>1 DEF Registered
<1>3. ASSUME NEW d \in registered'
      PROVE  d = n \/ (d \in registered /\ ~(d.engine = n.engine /\ d.context = n.context
                                              /\ d.ident = n.ident))
  BY <1>1, <1>2 DEF NameTaken
<1>4. Distinct' BY <1>3 DEF Distinct
<1>5. \A d \in registered \cup todo : d.ident \in Seq(Names) /\ d.ident # <<SELF_LABEL>>
  BY DEF Named
<1>6. \A d \in registered' \cup todo' : d.ident \in Seq(Names) /\ d.ident # <<SELF_LABEL>>
  BY <1>2, <1>3, <1>5
<1>7. Named(Names)' BY <1>6 DEF Named
<1> QED BY <1>4, <1>7

LEMMA ShapeNext ==
    ASSUME Shape, [Next]_vars
    PROVE  Shape'
<1>0. /\ tree \in Trees /\ line \in CommandLines /\ option \in 1..Len(Options)
      /\ {"contexts", "dirs"} \subseteq DOMAIN acc
      /\ acc.dirs \in Seq(Paths) /\ acc.contexts \in Seq([id : Values, dirs : Seq(Paths)])
      /\ at \in (Nat \ {0}) \X (Nat \ {0})
  BY DEF Shape
\* A step that leaves the options alone.
<1>3. ASSUME UNCHANGED <<tree, line, option, acc, at>>, pc' \in {"serve", "ended"}
      PROVE  Shape'
  BY <1>0, <1>3 DEF Shape, Options
<1>4. CASE Fail
  BY <1>3, <1>4 DEF Fail, startVars
<1>5. CASE LoadModules
  <2>1. CASE Fail BY <1>4, <2>1
  <2>2. CASE /\ pc = "load" /\ pc' = "init"
             /\ UNCHANGED <<tree, line, option, acc, at>>
    <3>1. Shape' BY <1>0, <2>2 DEF Shape, Options
    <3> QED BY <2>2, <3>1
  <2> QED BY <1>5, <2>1, <2>2 DEF LoadModules, contextVars, serveVars
<1>6. CASE InitModules
  <2>1. /\ pc = "init" /\ UNCHANGED <<tree, line, option, at>>
        /\ full => pc' = "options" /\ UNCHANGED acc
        /\ ~full => /\ pc' = "scan"
                    /\ acc' = [FreshEngine EXCEPT
                                  !.contexts = <<[id |-> SELF_LABEL, dirs |-> <<>>]>>,
                                  !.dirs = [i \in 1..Len(line.options) |-> line.options[i][2]]]
    BY <1>6 DEF InitModules, contextVars, serveVars
  <2>2. CASE full
    <3>1. Shape' BY <1>0, <2>1, <2>2 DEF Shape, Options
    <3> QED BY <2>1, <3>1
  <2>3. CASE ~full
    <3>1. PICK cs, ds : /\ cs = <<[id |-> SELF_LABEL, dirs |-> <<>>]>>
                        /\ ds = [i \in 1..Len(line.options) |-> line.options[i][2]]
      OBVIOUS
    <3>2. acc'.contexts = cs /\ acc'.dirs = ds /\ {"contexts", "dirs"} \subseteq DOMAIN acc'
      BY <2>1, <2>3, <3>1 DEF FreshEngine
    <3>3. cs \in Seq([id : Values, dirs : Seq(Paths)]) /\ Len(cs) = 1
      <4>1. PICK c : c = [id |-> SELF_LABEL, dirs |-> <<>>] OBVIOUS
      <4>2. c \in [id : Values, dirs : Seq(Paths)]
        <5>1. SELF_LABEL \in Values BY DEF Values
        <5>2. <<>> \in Seq(Paths) BY EmptySeq
        <5> QED BY <4>1, <5>1, <5>2
      <4>3. cs = <<c>> BY <3>1, <4>1, Zenon
      <4> QED BY <4>2, <4>3
    <3>4. ds \in Seq(Paths)
      <4>1. line.options \in Seq({line.options[i] : i \in DOMAIN line.options}) /\ line.arch = "lite"
        BY <1>0, <2>3, ResponderAssumption DEF full
      <4>2. Len(line.options) \in Nat /\ DOMAIN line.options = 1..Len(line.options)
        BY <4>1, LenProperties, Zenon
      <4>3. \A i \in DOMAIN line.options : line.options[i][2] \in Paths
        BY <1>0, <4>1, ResponderAssumption DEF Paths
      <4> QED BY <3>1, <4>2, <4>3, IsASeq
    <3>5. Len(cs) = 1 /\ at = <<1, 1>> /\ UNCHANGED at BY <2>1, <3>3 DEF Shape
    <3>6. option' \in 1..Len(Options') BY <1>0, <2>1 DEF Options
    <3>7. at' \in (Nat \ {0}) \X (Nat \ {0}) /\ at'[1] <= Len(acc'.contexts)
      BY <2>1, <3>2, <3>5
    <3>8. Shape' BY <1>0, <2>1, <2>3, <3>2, <3>3, <3>4, <3>6, <3>7 DEF Shape
    <3> QED BY <2>1, <2>3, <3>8
  <2> QED BY <2>2, <2>3
\* The options.
<1>7. ASSUME NEW new, acc' = new, option' = option + 1,
             UNCHANGED <<tree, line, pc, at>>,
             pc = "options", Opt[1] # "end-of-options",
             {"contexts", "dirs"} \subseteq DOMAIN new, new.dirs \in Seq(Paths),
             new.contexts \in Seq([id : Values, dirs : Seq(Paths)])
      PROVE  Shape'
  <2>1. option < Len(Options)
    <3>1. option # Len(Options) BY <1>0, <1>7, OptionList DEF Opt
    <3> QED BY <1>0, <3>1, OptionList
  <2>2. option' \in 1..Len(Options)
    <3>1. Len(Options) \in Nat BY <1>0, OptionList
    <3> QED BY <1>0, <1>7, <2>1, <3>1
  <2>3. Options' = Options BY <1>7 DEF Options
  <2>4. Shape' BY <1>0, <1>7, <2>2, <2>3 DEF Shape
  <2> QED BY <1>7, <2>4
<1>8. ASSUME NEW new, TakeOption(new), pc = "options", Opt[1] # "end-of-options",
             {"contexts", "dirs"} \subseteq DOMAIN new, new.dirs \in Seq(Paths),
             new.contexts \in Seq([id : Values, dirs : Seq(Paths)])
      PROVE  Shape'
  <2>1. /\ acc' = new /\ option' = option + 1
        /\ UNCHANGED <<tree, line, pc, at>>
    BY <1>8 DEF TakeOption, contextVars, serveVars
  <2>2. Shape' BY <1>7, <1>8, <2>1
  <2> QED BY <1>8, <2>2
<1>9. CASE StartEngine
  <2>1. /\ acc' = FreshEngine /\ option' = option + 1 /\ pc = "options" /\ Opt[1] = "v3-engine-id"
        /\ UNCHANGED <<tree, line, pc, at>>
    BY <1>9 DEF StartEngine, contextVars, serveVars
  <2>2. /\ {"contexts", "dirs"} \subseteq DOMAIN FreshEngine
        /\ FreshEngine.dirs = <<>> /\ FreshEngine.contexts = <<>>
    BY DEF FreshEngine
  <2>3. FreshEngine.dirs \in Seq(Paths) /\ FreshEngine.contexts \in Seq([id : Values, dirs : Seq(Paths)])
    BY <2>2, EmptySeq
  <2>4. Shape' BY <1>7, <2>1, <2>2, <2>3
  <2> QED BY <2>1, <2>4
<1>10. CASE ContextEngine
  <2> DEFINE new == [acc EXCEPT !.contexts = Append(@, [id |-> Opt[2], dirs |-> <<>>])]
  <2>1. pc = "options" /\ Opt[1] = "v3-context-engine-id" /\ TakeOption(new)
    BY <1>10 DEF ContextEngine
  <2>2. PICK c : c = [id |-> Opt[2], dirs |-> <<>>] OBVIOUS
  <2>3. Opt[2] \in Values BY <1>0, <2>1, OptionList DEF Opt
  <2>4. c \in [id : Values, dirs : Seq(Paths)]
    <3>1. <<>> \in Seq(Paths) BY EmptySeq
    <3> QED BY <2>2, <2>3, <3>1
  <2>5. /\ {"contexts", "dirs"} \subseteq DOMAIN new /\ new.dirs = acc.dirs
        /\ new.contexts = Append(acc.contexts, c)
    BY <1>0, <2>2
  <2>6. Append(acc.contexts, c) \in Seq([id : Values, dirs : Seq(Paths)])
    BY <1>0, <2>4, AppendProperties
  <2> HIDE DEF new
  <2> QED BY <1>0, <1>8, <2>1, <2>5, <2>6
<1>11. CASE DataDir
  <2>1. pc = "options" /\ Opt[1] = "data-dir" BY <1>11 DEF DataDir
  <2>2. Opt[2] \in Paths BY <1>0, <2>1, OptionList DEF Opt
  <2>3. CASE acc.contexts = <<>>
    <3> DEFINE new == [acc EXCEPT !.dirs = Append(@, Opt[2])]
    <3>1. TakeOption(new) BY <1>11, <2>3 DEF DataDir
    <3>2. /\ {"contexts", "dirs"} \subseteq DOMAIN new /\ new.dirs = Append(acc.dirs, Opt[2])
          /\ new.contexts = acc.contexts
      BY <1>0
    <3>3. Append(acc.dirs, Opt[2]) \in Seq(Paths) BY <1>0, <2>2, AppendProperties
    <3> HIDE DEF new
    <3> QED BY <1>0, <1>8, <2>1, <3>1, <3>2, <3>3
  <2>4. CASE acc.contexts # <<>>
    <3> DEFINE new == [acc EXCEPT !.contexts[Len(acc.contexts)].dirs = Append(@, Opt[2])]
    <3>1. TakeOption(new) BY <1>11, <2>4 DEF DataDir
    <3>2. PICK cs, n : cs = acc.contexts /\ n = Len(cs) OBVIOUS
    <3>3. cs \in Seq([id : Values, dirs : Seq(Paths)]) /\ n \in 1..Len(cs) BY <1>0, <2>4, <3>2, EmptySeq
    <3>4. cs[n] \in [id : Values, dirs : Seq(Paths)] BY <3>3, ElementOfSeq
    <3>5. Append(cs[n].dirs, Opt[2]) \in Seq(Paths) BY <2>2, <3>4, AppendProperties
    <3>6. [cs[n] EXCEPT !.dirs = Append(cs[n].dirs, Opt[2])] \in [id : Values, dirs : Seq(Paths)]
      BY <3>4, <3>5
    <3>7. PICK c : c = [cs[n] EXCEPT !.dirs = Append(cs[n].dirs, Opt[2])] OBVIOUS
    <3>8. [cs EXCEPT ![n] = c] \in Seq([id : Values, dirs : Seq(Paths)])
      BY <3>3, <3>6, <3>7, ExceptSeq
    <3>9. /\ {"contexts", "dirs"} \subseteq DOMAIN new /\ new.dirs = acc.dirs
          /\ new.contexts = [cs EXCEPT ![n] = c]
      BY <1>0, <3>2, <3>7
    <3> HIDE DEF new
    <3> QED BY <1>0, <1>8, <2>1, <3>1, <3>8, <3>9
  <2> QED BY <2>3, <2>4
\* Options that are about endpoints and users.
<1>12. ASSUME NEW new, TakeOption(new), pc = "options", Opt[1] # "end-of-options",
              DOMAIN new = DOMAIN acc, new.dirs = acc.dirs, new.contexts = acc.contexts
       PROVE  Shape'
  BY <1>0, <1>8, <1>12
<1>13. CASE Endpoint
  <2> DEFINE new == [acc EXCEPT !.endpoints = @ + 1]
  <2>1. TakeOption(new) /\ pc = "options" /\ Opt[1] # "end-of-options"
    BY <1>13 DEF Endpoint
  <2>2. DOMAIN new = DOMAIN acc /\ new.dirs = acc.dirs /\ new.contexts = acc.contexts BY <1>0
  <2> HIDE DEF new
  <2> QED BY <1>12, <2>1, <2>2
<1>14. CASE User
  <2> DEFINE new == [acc EXCEPT !.users = Append(@, Opt[2])]
  <2>1. TakeOption(new) /\ pc = "options" /\ Opt[1] # "end-of-options"
    BY <1>14 DEF User
  <2>2. DOMAIN new = DOMAIN acc /\ new.dirs = acc.dirs /\ new.contexts = acc.contexts BY <1>0
  <2> HIDE DEF new
  <2> QED BY <1>12, <2>1, <2>2
<1>15. CASE Key
  <2> DEFINE new == [acc EXCEPT !.keys = @ \cup {<<LastUser, Opt[1]>>}]
  <2>1. (Fail \/ TakeOption(new)) /\ pc = "options" /\ Opt[1] # "end-of-options"
    BY <1>15 DEF Key
  <2>2. DOMAIN new = DOMAIN acc /\ new.dirs = acc.dirs /\ new.contexts = acc.contexts BY <1>0
  <2> HIDE DEF new
  <2> QED BY <1>4, <1>12, <2>1, <2>2
<1>16. CASE Proto
  <2> DEFINE new == [acc EXCEPT !.protos = @ \cup {<<LastUser, Opt[1], Opt[2]>>}]
  <2>1. (Fail \/ TakeOption(new)) /\ pc = "options" /\ Opt[1] # "end-of-options"
    BY <1>16 DEF Proto
  <2>2. DOMAIN new = DOMAIN acc /\ new.dirs = acc.dirs /\ new.contexts = acc.contexts BY <1>0
  <2> HIDE DEF new
  <2> QED BY <1>4, <1>12, <2>1, <2>2
<1>17. CASE CompleteEngine
  <2>1. /\ pc = "options" /\ pc' = "scan" /\ at' = <<1, 1>>
        /\ UNCHANGED <<tree, line, option>>
        /\ acc' = IF acc.contexts = <<>>
                  THEN [acc EXCEPT !.contexts = <<[id |-> SELF_LABEL, dirs |-> <<>>]>>] ELSE acc
    BY <1>17 DEF CompleteEngine, contextVars, serveVars
  <2>2. PICK cs : cs = <<[id |-> SELF_LABEL, dirs |-> <<>>]>> OBVIOUS
  <2>3. cs \in Seq([id : Values, dirs : Seq(Paths)]) /\ Len(cs) = 1
    <3>1. PICK c : c = [id |-> SELF_LABEL, dirs |-> <<>>] OBVIOUS
    <3>2. c \in [id : Values, dirs : Seq(Paths)]
      <4>1. SELF_LABEL \in Values BY DEF Values
      <4>2. <<>> \in Seq(Paths) BY EmptySeq
      <4> QED BY <3>1, <4>1, <4>2
    <3>3. cs = <<c>> BY <2>2, <3>1, Zenon
    <3> QED BY <3>2, <3>3
  <2>4. /\ {"contexts", "dirs"} \subseteq DOMAIN acc' /\ acc'.dirs = acc.dirs
        /\ acc'.contexts = IF acc.contexts = <<>> THEN cs ELSE acc.contexts
    BY <1>0, <2>1, <2>2
  <2>5. acc'.contexts \in Seq([id : Values, dirs : Seq(Paths)]) /\ 1 <= Len(acc'.contexts)
    <3>1. CASE acc.contexts = <<>>
      <4>1. PICK d : d = acc'.contexts OBVIOUS
      <4>2. d = cs BY <2>4, <3>1, <4>1, Zenon
      <4>3. d \in Seq([id : Values, dirs : Seq(Paths)]) /\ Len(d) = 1 BY <2>3, <4>2, Zenon
      <4>4. 1 <= Len(d) BY <4>3
      <4> QED BY <4>1, <4>3, <4>4, Zenon
    <3>2. CASE acc.contexts # <<>>
      <4>1. PICK d : d = acc.contexts OBVIOUS
      <4>2. d \in Seq([id : Values, dirs : Seq(Paths)]) /\ d # <<>> BY <1>0, <3>2, <4>1
      <4>3. Len(d) \in Nat /\ Len(d) # 0 BY <4>2, EmptySeq
      <4> QED BY <2>4, <3>2, <4>1, <4>2, <4>3
    <3> QED BY <3>1, <3>2
  <2>6. option' \in 1..Len(Options') BY <1>0, <2>1 DEF Options
  <2>7. Shape' BY <1>0, <2>1, <2>4, <2>5, <2>6 DEF Shape
  <2> QED BY <2>1, <2>7
\* The data files.
<1>18. CASE Scan
  <2>1. CASE Fail BY <1>4, <2>1
  <2>2. CASE pc = "scan" /\ pc' = "files" /\ UNCHANGED <<tree, line, option, acc, at>>
    BY <1>0, <2>2 DEF Shape, Options
  <2> QED BY <1>18, <2>1, <2>2 DEF Scan
<1>19. ASSUME pc = "files", UNCHANGED <<tree, line, pc, option, acc, at>> PROVE Shape'
  BY <1>0, <1>19 DEF Shape, Options
<1>20. CASE ConfigureDuplicate BY <1>19, <1>20 DEF ConfigureDuplicate
<1>21. CASE ConfigureShared BY <1>4, <1>19, <1>21 DEF ConfigureShared, Register
<1>22. CASE ConfigureFile BY <1>4, <1>19, <1>22 DEF ConfigureFile, Register
<1>23. CASE EndFiles
  <2>1. /\ pc = "files" /\ pc' = "scan" /\ at' = <<at[1], at[2] + 1>>
        /\ UNCHANGED <<tree, line, option, acc>>
    BY <1>23 DEF EndFiles
  <2>2. at' \in (Nat \ {0}) \X (Nat \ {0}) /\ at'[1] = at[1] BY <1>0, <2>1
  <2>3. at[1] <= Len(acc.contexts) BY <2>1 DEF Shape
  <2>4. option' \in 1..Len(Options') BY <1>0, <2>1 DEF Options
  <2> QED BY <1>0, <2>1, <2>2, <2>3, <2>4 DEF Shape
<1>24. CASE EndContext
  <2>1. /\ pc = "scan" /\ pc' \in {"scan", "finish"}
        /\ \/ at[1] < Len(acc.contexts) /\ at' = <<at[1] + 1, 1>>
           \/ UNCHANGED at
        /\ UNCHANGED <<tree, line, option, acc>>
    BY <1>24 DEF EndContext
  <2>2. at[1] <= Len(acc.contexts) BY <2>1 DEF Shape
  <2>3. Len(acc.contexts) \in Nat
    <3>1. PICK cs : cs = acc.contexts OBVIOUS
    <3>2. cs \in Seq([id : Values, dirs : Seq(Paths)]) BY <1>0, <3>1
    <3> QED BY <3>1, <3>2, LenProperties
  <2>4. at' \in (Nat \ {0}) \X (Nat \ {0}) /\ at'[1] <= Len(acc.contexts) BY <1>0, <2>1, <2>2, <2>3
  <2>5. option' \in 1..Len(Options') BY <1>0, <2>1 DEF Options
  <2> QED BY <1>0, <2>1, <2>4, <2>5 DEF Shape
\* The data index, requests, and the end.
<1>25. ASSUME UNCHANGED <<tree, line, option, acc, at>>, pc' \in {"serve", "options", "ended"}
       PROVE  Shape'
  BY <1>0, <1>25 DEF Shape, Options
<1>26. CASE FinishEngine BY <1>4, <1>25, <1>26 DEF FinishEngine
<1>27. CASE FinishLite BY <1>25, <1>27 DEF FinishLite, startVars
<1>28. ASSUME NEW path, NEW reply, NEW released, Answered(path, reply, released) PROVE Shape'
  BY <1>25, <1>28 DEF Answered, startVars
<1>30. CASE Receive BY <1>25, <1>30 DEF Receive, startVars
<1>31. CASE NotSelected BY <1>28, <1>31 DEF NotSelected
<1>32. CASE HandleFull
  <2>1. \E path, reply, released : Answered(path, reply, released)
    BY <1>32 DEF HandleFull, Outcomes
  <2> QED BY <1>28, <2>1
<1>33. CASE HandleLite
  <2>1. \E path, reply, released : Answered(path, reply, released) BY <1>33 DEF HandleLite
  <2> QED BY <1>28, <2>1
<1>34. CASE Shutdown BY <1>25, <1>34 DEF Shutdown
<1>35. CASE UNCHANGED vars
  <2>1. UNCHANGED <<tree, line, pc, option, acc, at>> BY <1>35 DEF vars, startVars
  <2> QED BY <1>0, <2>1 DEF Shape, Options
<1> QED
  BY <1>5, <1>6, <1>9, <1>10, <1>11, <1>13, <1>14, <1>15, <1>16, <1>17, <1>18, <1>20, <1>21,
     <1>22, <1>23, <1>24, <1>26, <1>27, <1>30, <1>31, <1>32, <1>33, <1>34, <1>35
  DEF Next, ReadOption, Configure, Serve

\* The directory that is scanned.
LEMMA ScannedDir ==
    ASSUME Shape, pc \in {"scan", "files", "finish"}
    PROVE  /\ at[1] \in 1..Len(acc.contexts) /\ Context \in [id : Values, dirs : Seq(Paths)]
           /\ Dirs \in Seq(Paths)
           /\ at[2] <= Len(Dirs) => Dirs[at[2]] \in Paths
<1>1. PICK cs, n : cs = acc.contexts /\ n = at[1] OBVIOUS
<1>2. cs \in Seq([id : Values, dirs : Seq(Paths)]) /\ n \in 1..Len(cs)
  <2>1. /\ acc.contexts \in Seq([id : Values, dirs : Seq(Paths)]) /\ at[1] \in Nat \ {0}
        /\ at[1] <= Len(acc.contexts)
    BY DEF Shape
  <2>2. n \in Nat \ {0} /\ n <= Len(cs) /\ cs \in Seq([id : Values, dirs : Seq(Paths)]) BY <1>1, <2>1
  <2> QED BY <2>2, LenProperties
<1>3. cs[n] \in [id : Values, dirs : Seq(Paths)] BY <1>2, ElementOfSeq
<1>4. Context \in [id : Values, dirs : Seq(Paths)] /\ Context.dirs \in Seq(Paths)
  BY <1>1, <1>3 DEF Context
<1>5. DEFAULT_DIRS \in Seq(Paths) BY ResponderAssumption DEF Paths
<1>6. Dirs \in Seq(Paths) BY <1>4, <1>5 DEF Dirs, Shape
<1>7. ASSUME at[2] <= Len(Dirs) PROVE Dirs[at[2]] \in Paths
  <2>1. PICK ds, m : ds = Dirs /\ m = at[2] OBVIOUS
  <2>2. m \in Nat \ {0} /\ m <= Len(ds) BY <1>7, <2>1 DEF Shape
  <2>3. ds \in Seq(Paths) /\ m \in 1..Len(ds) BY <1>6, <2>1, <2>2
  <2> QED BY <2>1, <2>3, ElementOfSeq
<1> QED BY <1>1, <1>2, <1>4, <1>6, <1>7

LEMMA NamesNext ==
    ASSUME NEW Names, SumsApart(Names), Shape, Named(Names), Distinct, Quiet, [Next]_vars
    PROVE  Named(Names)' /\ Distinct' /\ Quiet'
\* A step that leaves the files alone, and answers nothing.
<1>1. ASSUME UNCHANGED registered, todo' \subseteq todo PROVE Named(Names)' /\ Distinct'
  BY <1>1 DEF Named, Distinct
<1>2. ASSUME UNCHANGED last, pc' \in {"serve", "ended"} \/ pc \notin {"serve", "ended"} PROVE Quiet'
  BY <1>2 DEF Quiet
<1>3. ASSUME UNCHANGED <<registered, last>>, todo' \subseteq todo,
             pc' \in {"serve", "ended"} \/ pc \notin {"serve", "ended"}
      PROVE  Named(Names)' /\ Distinct' /\ Quiet'
  BY <1>1, <1>2, <1>3
<1>4. CASE Fail BY <1>3, <1>4 DEF Fail, startVars, contextVars, serveVars
<1>5. CASE LoadModules \/ InitModules
  BY <1>3, <1>4, <1>5 DEF LoadModules, InitModules, contextVars, serveVars
<1>6. CASE ReadOption
  BY <1>3, <1>4, <1>6 DEF ReadOption, StartEngine, ContextEngine, DataDir, Endpoint, User, Key,
     Proto, CompleteEngine, TakeOption, contextVars, serveVars
<1>7. CASE Scan
  <2>1. CASE Fail BY <1>4, <2>1
  <2>2. CASE /\ pc = "scan" /\ pc' = "files" /\ at[2] <= Len(Dirs)
             /\ todo' = DataFiles(Dirs[at[2]], tree)
             /\ UNCHANGED <<registered, last>>
    <3>1. tree \in Trees /\ Dirs[at[2]] \in Paths BY <2>2, ScannedDir DEF Shape
    <3>2. \A f \in todo' : f.ident \in Seq(Names) /\ f.ident # <<SELF_LABEL>>
      BY <2>2, <3>1, FileNames
    <3>3. Named(Names)' /\ Distinct' BY <2>2, <3>2 DEF Named, Distinct
    <3> QED BY <1>2, <2>2, <3>3
  <2> QED BY <1>7, <2>1, <2>2 DEF Scan, contextVars, serveVars
\* A file that is registered, its directory being gone through.
<1>8. ASSUME NEW f \in todo, ~(full /\ NameTaken(f.ident)), Register(f), pc = "files",
             todo' = todo \ {f}
      PROVE  Named(Names)' /\ Distinct' /\ Quiet'
  <2>1. /\ UNCHANGED <<pc, last>>
        /\ registered' = {r \in registered : full \/ r.ident # f.ident}
                            \cup {Registered(f.ident, f.path)}
    BY <1>8 DEF Register, serveVars
  <2>2. f.ident \in Seq(Names) /\ f.ident # <<SELF_LABEL>> BY <1>8 DEF Named
  <2>3. todo' \subseteq todo BY <1>8
  <2>4. Named(Names)' /\ Distinct' BY <1>8, <2>1, <2>2, <2>3, RegisterKeeps
  <2> QED BY <1>2, <1>8, <2>1, <2>4
<1>9. CASE ConfigureDuplicate
  BY <1>3, <1>9 DEF ConfigureDuplicate, contextVars, serveVars
<1>10. CASE ConfigureShared BY <1>4, <1>8, <1>10 DEF ConfigureShared
<1>11. CASE ConfigureFile BY <1>4, <1>8, <1>11 DEF ConfigureFile
<1>12. CASE EndFiles \/ EndContext
  BY <1>3, <1>12 DEF EndFiles, EndContext, contextVars, serveVars
\* The data index.
<1>13. ASSUME pc = "finish", ~(full /\ NameTaken(INDEX)), UNCHANGED <<todo, last>>,
              registered' = {r \in registered : full \/ r.ident # INDEX} \cup {Registered(INDEX, INDEX)}
       PROVE  Named(Names)' /\ Distinct' /\ Quiet'
  <2>1. INDEX \in Seq(Names) /\ INDEX # <<SELF_LABEL>>
    <3>1. PICK x \in Names : x = "index" BY DEF SumsApart
    <3>2. <<x>> \in Seq(Names) OBVIOUS
    <3>3. INDEX = <<x>> BY <3>1 DEF INDEX
    <3>4. x # SELF_LABEL BY <3>1 DEF SELF_LABEL
    <3>5. <<x>>[1] = x /\ <<SELF_LABEL>>[1] = SELF_LABEL OBVIOUS
    <3> QED BY <3>2, <3>3, <3>4, <3>5
  <2>2. Named(Names)' /\ Distinct' BY <1>13, <2>1, RegisterKeeps
  <2> QED BY <1>2, <1>13, <2>2
<1>14. CASE FinishEngine
  <2>1. CASE Fail BY <1>4, <2>1
  <2>2. CASE /\ pc = "finish" /\ full /\ ~NameTaken(INDEX)
             /\ registered' = registered \cup {Registered(INDEX, INDEX)}
             /\ UNCHANGED <<todo, last>>
    <3>1. registered' = {r \in registered : full \/ r.ident # INDEX} \cup {Registered(INDEX, INDEX)}
      BY <2>2
    <3> QED BY <1>13, <2>2, <3>1
  <2> QED BY <1>14, <2>1, <2>2 DEF FinishEngine, serveVars
<1>15. CASE FinishLite
  <2>1. /\ pc = "finish" /\ ~full /\ UNCHANGED <<todo, last>>
        /\ registered' = {r \in registered : r.ident # INDEX} \cup {Registered(INDEX, INDEX)}
    BY <1>15 DEF FinishLite, startVars, serveVars
  <2>2. registered' = {r \in registered : full \/ r.ident # INDEX} \cup {Registered(INDEX, INDEX)}
    BY <2>1
  <2> QED BY <1>13, <2>1, <2>2
\* Requests, and the end.
<1>16. ASSUME NEW path, NEW reply, NEW released, Answered(path, reply, released)
       PROVE  Named(Names)' /\ Distinct' /\ Quiet'
  <2>1. pc' = "serve" /\ UNCHANGED <<registered, todo>> BY <1>16 DEF Answered, startVars, contextVars
  <2> QED BY <1>1, <2>1 DEF Quiet
<1>17. CASE Receive
  <2>1. pc' = "serve" /\ UNCHANGED <<registered, todo>> BY <1>17 DEF Receive, startVars, contextVars
  <2> QED BY <1>1, <2>1 DEF Quiet
<1>18. CASE NotSelected BY <1>16, <1>18 DEF NotSelected
<1>19. CASE HandleFull
  <2>1. \E path, reply, released : Answered(path, reply, released)
    BY <1>19 DEF HandleFull, Outcomes
  <2> QED BY <1>16, <2>1
<1>20. CASE HandleLite
  <2>1. \E path, reply, released : Answered(path, reply, released) BY <1>20 DEF HandleLite
  <2> QED BY <1>16, <2>1
<1>21. CASE Shutdown BY <1>3, <1>21 DEF Shutdown, contextVars, serveVars
<1>22. CASE UNCHANGED vars
  BY <1>1, <1>22 DEF vars, startVars, contextVars, serveVars, Quiet
<1> QED
  BY <1>5, <1>6, <1>7, <1>9, <1>10, <1>11, <1>12, <1>14, <1>15, <1>17, <1>18, <1>19, <1>20,
     <1>21, <1>22
  DEF Next, Configure, Serve

-----------------------------------------------------------------------------
\* Requests as the lookup sees them.

LEMMA RequestNames ==
    ASSUME NEW Names, SumsApart(Names), NEW r \in Requests
    PROVE  /\ r.name \in Seq(Names) /\ r.engine_id \in Names /\ r.domain \in Names /\ r.address \in Names
           /\ ~V3(r) => r.engine_id = SELF_LABEL
           /\ SELF_LABEL \in Names /\ "md5 of" \notin Names /\ "!" \notin Names
<1>1. ~V3(r) => r.engine_id = SELF_LABEL BY ResponderAssumption DEF V3
<1> QED BY <1>1 DEF SumsApart

\* The MD5 sum of a name is no name.
LEMMA SumNoName ==
    ASSUME NEW Names, "md5 of" \notin Names, NEW x \in Seq(Names), NEW c \in Seq(Names)
    PROVE  c # Md5(x)
<1> DEFINE T == Names \cup {"md5 of", "!"}
<1>1. "md5 of" \in T /\ "!" \in T /\ Names \subseteq T OBVIOUS
<1> HIDE DEF T
<1>2. x \in Seq(T) BY <1>1, SeqMonotonic
<1>3. Wraps(Md5(x), T, "md5 of", x, "!") BY <1>1, <1>2, Sums, Zenon
<1>4. ~Wraps(c, T, "md5 of", x, "!") BY WrapsNoName, Zenon
<1> QED BY <1>3, <1>4, Zenon

\* No two files answer to the same name.
LEMMA OneMatch ==
    ASSUME NEW Names, SumsApart(Names), Named(Names), Distinct, NEW r, NEW c,
           NEW d \in registered, NEW e \in registered, Matches(c, d, r), Matches(c, e, r)
    PROVE  d = e
<1>1. d.ident \in Seq(Names) /\ e.ident \in Seq(Names) BY DEF Named
<1>2. "md5 of" \notin Names BY DEF SumsApart
<1>3. d.engine = e.engine /\ d.context = e.context BY DEF Matches
<1>4. (c = d.ident \/ c = Md5(d.ident)) /\ (c = e.ident \/ c = Md5(e.ident)) BY DEF Matches
<1>5. d.ident # Md5(e.ident) /\ e.ident # Md5(d.ident) BY <1>1, <1>2, SumNoName
<1>6. Md5(d.ident) = Md5(e.ident) => d.ident = e.ident BY <1>1, SumsDiffer
<1>7. d.ident = e.ident BY <1>4, <1>5, <1>6
<1> QED BY <1>3, <1>7 DEF Distinct

LEMMA Unambiguity ==
    ASSUME NEW Names, SumsApart(Names), Named(Names), Distinct
    PROVE  Unambiguous
<1> SUFFICES ASSUME NEW r \in Requests, NEW p \in Selected(r), NEW q \in Selected(r) PROVE p = q
    BY DEF Unambiguous
<1> DEFINE all == Candidates(r)
           hits == {k \in 1..Len(all) : \E d \in registered : Matches(all[k], d, r)}
           first == CHOOSE i \in hits : \A j \in hits : i <= j
<1>1. PICK c : \A x \in Selected(r) : \E d \in registered : Matches(c, d, r) /\ x = d.path
  <2>1. CASE hits = {}
    <3>1. \A x \in Selected(r) : \E d \in registered : Matches(ContextName(r), d, r) /\ x = d.path
      BY <2>1 DEF Selected
    <3> QED BY <3>1
  <2>2. CASE hits # {}
    <3>1. \A x \in Selected(r) : \E d \in registered : Matches(all[first], d, r) /\ x = d.path
      BY <2>2 DEF Selected
    <3> QED BY <3>1
  <2> QED BY <2>1, <2>2
<1>2. PICK d \in registered, e \in registered : /\ Matches(c, d, r) /\ p = d.path
                                                /\ Matches(c, e, r) /\ q = e.path
  BY <1>1
<1> QED BY <1>2, OneMatch

(***************************************************************************)
(* What Specific says of a request, the kind of responder given.           *)
(***************************************************************************)
Hashed(f, r) == f /\ ~V3(r) /\ r.name # INDEX

Meant(f, ident, r) ==
    IF Hashed(f, r) THEN (IF ident = r.name THEN 1 ELSE 0)
    ELSE Weight(ident, r.engine_id, r.name, r.domain, r.address)

LEMMA SpecificMeant ==
    ASSUME NEW Names, SumsApart(Names), NEW r \in Requests, NEW ident
    PROVE  Specific(ident, r) = Meant(full, ident, r)
<1>1. PICK eid, cn, dom, addr : eid = r.engine_id /\ cn = r.name /\ dom = r.domain /\ addr = r.address
  OBVIOUS
<1>2. eid \in Names /\ cn \in Seq(Names) /\ dom \in Names /\ addr \in Names
  BY <1>1, RequestNames
<1>3. PICK q : q = cn \o <<dom, addr>> OBVIOUS
<1>4. q = Inside(cn, dom, addr) /\ <<eid>> \o q = Below(eid, cn, dom, addr)
  BY <1>3, Zenon DEF Inside, Below
<1>5. Len(Inside(cn, dom, addr)) = Len(cn) + 2 BY <1>2, Parts
<1>6. Len(q) = Len(cn) + 2 /\ Len(cn) \in Nat BY <1>2, <1>4, <1>5, LenProperties
<1>8. Specific(ident, r) = IF Hashed(full, r) THEN (IF ident = cn THEN 1 ELSE 0)
        ELSE IF ident = <<>> THEN (IF cn = <<>> THEN 1 ELSE 0)
        ELSE IF Prefix(ident, <<eid>> \o q) THEN 1 + Len(q) + Len(ident)
        ELSE IF Prefix(ident, q) THEN 1 + Len(ident) ELSE 0
  BY <1>1, <1>3, Zenon DEF Specific, Hashed
<1>9. 1 + Len(q) + Len(ident) = 3 + Len(cn) + Len(ident)
  <2>1. 1 + Len(q) = 3 + Len(cn) BY <1>6
  <2> QED BY <2>1, Zenon
<1>10. Meant(full, ident, r) = IF Hashed(full, r) THEN (IF ident = cn THEN 1 ELSE 0)
        ELSE IF ident = <<>> THEN (IF cn = <<>> THEN 1 ELSE 0)
        ELSE IF Prefix(ident, <<eid>> \o q) THEN 3 + Len(cn) + Len(ident)
        ELSE IF Prefix(ident, q) THEN 1 + Len(ident) ELSE 0
  BY <1>1, <1>4, Zenon DEF Meant, Weight
<1> QED BY <1>8, <1>9, <1>10

\* A request for a name as it is, and one for its MD5 sum.
LEMMA PlainMostSpecific ==
    ASSUME NEW Names, SumsApart(Names), Named(Names), NEW r \in Requests, ~Hashed(full, r),
           NEW path \in Selected(r),
           NEW mine, mine = {d \in registered : d.engine = r.at /\ d.context = r.engine_id}
    PROVE  \E d \in mine : /\ d.path = path /\ Meant(full, d.ident, r) > 0
                           /\ \A e \in mine : Meant(full, e.ident, r) <= Meant(full, d.ident, r)
<1>1. PICK eid, cn, dom, addr : eid = r.engine_id /\ cn = r.name /\ dom = r.domain /\ addr = r.address
  OBVIOUS
<1>2. eid \in Names /\ cn \in Seq(Names) /\ dom \in Names /\ addr \in Names /\ "md5 of" \notin Names
  BY <1>1, RequestNames
<1>3. ContextName(r) = cn BY <1>1 DEF ContextName, Hashed
<1>4. PICK all : all = Candidates(r) OBVIOUS
<1>5. all = probe_context(eid, cn, dom, addr) BY <1>1, <1>3, <1>4, Zenon DEF Candidates
<1>6. Len(all) \in Nat /\ \A k \in 1..Len(all) : all[k] \in Seq(Names)
  BY <1>2, <1>5, ProbedNames, Zenon
<1>7. PICK D : D = {d.ident : d \in mine} OBVIOUS
<1>8. D \subseteq Seq(Names) BY <1>7 DEF Named
<1>9. ASSUME NEW c \in Seq(Names), NEW d \in registered
      PROVE  Matches(c, d, r) <=> d \in mine /\ c = d.ident
  <2>1. d.ident \in Seq(Names) BY DEF Named
  <2>2. c # Md5(d.ident) BY <1>2, <2>1, SumNoName
  <2> QED BY <2>2 DEF Matches
<1>10. \A i : Meant(full, i, r) = Weight(i, eid, cn, dom, addr) BY <1>1, Zenon DEF Meant
<1>11. PICK hits : hits = {k \in 1..Len(all) : all[k] \in D} OBVIOUS
<1>12. hits = {k \in 1..Len(all) : \E d \in registered : Matches(all[k], d, r)}
  <2>1. ASSUME NEW k \in 1..Len(all)
        PROVE  all[k] \in D <=> \E d \in registered : Matches(all[k], d, r)
    <3>1. all[k] \in Seq(Names) BY <1>6
    <3> QED BY <1>7, <1>9, <3>1
  <2> QED BY <1>11, <2>1
<1>13. Best(all, hits, D, eid, cn, dom, addr)
  BY <1>2, <1>5, <1>8, <1>11, FirstWeighsMost, Zenon
<1>14. CASE hits # {}
  <2>1. PICK k : k = CHOOSE i \in hits : \A j \in hits : i <= j OBVIOUS
  <2>2. /\ k \in 1..Len(all) /\ all[k] \in D /\ Weight(all[k], eid, cn, dom, addr) > 0
        /\ \A c \in D : Weight(c, eid, cn, dom, addr) <= Weight(all[k], eid, cn, dom, addr)
    <3>1. LET x == CHOOSE i \in hits : \A j \in hits : i <= j
          IN  /\ x \in 1..Len(all) /\ all[x] \in D /\ Weight(all[x], eid, cn, dom, addr) > 0
              /\ \A c \in D : Weight(c, eid, cn, dom, addr) <= Weight(all[x], eid, cn, dom, addr)
      BY <1>14, <1>13, Zenon DEF Best
    <3> QED BY <2>1, <3>1, Zenon
  <2>3. Selected(r) = {d.path : d \in {e \in registered : Matches(all[k], e, r)}}
    BY <1>4, <1>12, <1>14, <2>1, Zenon DEF Selected
  <2>4. PICK d \in registered : Matches(all[k], d, r) /\ path = d.path BY <2>3
  <2>5. d \in mine /\ all[k] = d.ident BY <1>6, <1>9, <2>2, <2>4
  <2>6. \A e \in mine : Meant(full, e.ident, r) <= Meant(full, d.ident, r)
    <3>1. \A e \in mine : e.ident \in D BY <1>7
    <3> QED BY <1>10, <2>2, <2>5, <3>1, Zenon
  <2>7. Meant(full, d.ident, r) > 0 BY <1>10, <2>2, <2>5, Zenon
  <2> QED BY <2>4, <2>5, <2>6, <2>7
<1>15. CASE hits = {}
  <2>1. /\ \A c \in D : Weight(c, eid, cn, dom, addr) <= (IF cn = <<>> THEN 1 ELSE 0)
        /\ cn \in D => cn = <<>>
    BY <1>15, <1>13, Zenon DEF Best
  <2>2. Selected(r) = {d.path : d \in {d \in registered : full /\ Matches(ContextName(r), d, r)}}
    BY <1>4, <1>12, <1>15, Zenon DEF Selected
  <2>3. PICK d \in registered : Matches(cn, d, r) /\ path = d.path BY <1>3, <2>2
  <2>4. d \in mine /\ cn = d.ident BY <1>2, <1>9, <2>3
  <2>5. cn = <<>> BY <1>7, <2>1, <2>4
  <2>6. Meant(full, d.ident, r) = 1
    <3>1. Weight(d.ident, eid, cn, dom, addr) = 1 BY <2>4, <2>5, Zenon DEF Weight
    <3> QED BY <1>10, <3>1
  <2>7. \A e \in mine : Meant(full, e.ident, r) <= 1
    <3>1. \A e \in mine : e.ident \in D BY <1>7
    <3>2. \A c \in D : Weight(c, eid, cn, dom, addr) <= 1 BY <2>1, <2>5
    <3> QED BY <1>10, <3>1, <3>2, Zenon
  <2> QED BY <2>3, <2>4, <2>6, <2>7
<1> QED BY <1>14, <1>15

LEMMA HashedMostSpecific ==
    ASSUME NEW Names, SumsApart(Names), Named(Names), NEW r \in Requests, Hashed(full, r),
           NEW path \in Selected(r),
           NEW mine, mine = {d \in registered : d.engine = r.at /\ d.context = r.engine_id}
    PROVE  \E d \in mine : /\ d.path = path /\ Meant(full, d.ident, r) > 0
                           /\ \A e \in mine : Meant(full, e.ident, r) <= Meant(full, d.ident, r)
<1> DEFINE T == Names \cup {"md5 of", "!"}
<1>1. "md5 of" \in T /\ "!" \in T /\ Names \subseteq T OBVIOUS
<1> HIDE DEF T
<1>2. PICK eid, name, dom, addr : eid = r.engine_id /\ name = r.name /\ dom = r.domain /\ addr = r.address
  OBVIOUS
<1>3. /\ eid \in Names /\ name \in Seq(Names) /\ dom \in Names /\ addr \in Names
      /\ "md5 of" \notin Names /\ "!" \notin Names /\ eid = SELF_LABEL
  BY <1>2, RequestNames DEF Hashed
<1>4. PICK m : m = Md5(name) OBVIOUS
<1>5. ContextName(r) = m BY <1>2, <1>4 DEF ContextName, Hashed
<1>6. name \in Seq(T) BY <1>1, <1>3, SeqMonotonic
<1>7. Wraps(m, T, "md5 of", name, "!") BY <1>1, <1>4, <1>6, Sums, Zenon
<1>8. m \in Seq(T) /\ eid \in T /\ dom \in T /\ addr \in T
  <2>1. m \in Seq(T) BY <1>7, Zenon DEF Wraps
  <2> QED BY <1>1, <1>3, <2>1
<1>9. PICK all : all = Candidates(r) OBVIOUS
<1>10. all = probe_context(eid, m, dom, addr) BY <1>2, <1>5, <1>9, Zenon DEF Candidates
<1>11. Len(all) \in Nat BY <1>8, <1>10, ProbedNames, Zenon
<1>12. PICK p, q : Longest(p, q, eid, m, T) /\ \A k \in 1..Len(all) : ProbedFrom(all[k], p, q)
  BY <1>8, <1>10, Probed, Zenon
\* Whatever is selected is the file of that name.
<1>13. ASSUME NEW c, ProbedFrom(c, p, q) \/ c = m, NEW d \in registered, Matches(c, d, r)
       PROVE  d \in mine /\ d.ident = name
  <2>1. d.ident \in Seq(Names) /\ d.ident # <<eid>> BY <1>3, Zenon DEF Named
  <2>2. d \in mine /\ (c = d.ident \/ c = Md5(d.ident)) BY <1>13 DEF Matches
  <2>3. CASE c = m
    <3>1. d.ident # m BY <1>3, <1>4, <2>1, SumNoName
    <3>2. Md5(d.ident) = Md5(name) BY <1>4, <2>2, <2>3, <3>1
    <3> QED BY <1>3, <2>1, <2>2, <3>2, SumsDiffer
  <2>4. CASE ProbedFrom(c, p, q)
    <3>1. d.ident \in Seq(T) BY <1>1, <2>1, SeqMonotonic
    <3>2. Wraps(Md5(d.ident), T, "md5 of", d.ident, "!") BY <1>1, <3>1, Sums, Zenon
    <3>3. PICK a, b, i, w :
            /\ a \notin Names /\ b \notin Names /\ a \in T /\ b \in T
            /\ i = d.ident /\ Wraps(m, T, a, name, b) /\ Wraps(w, T, a, i, b)
            /\ c = i \/ c = w
      BY <1>1, <1>3, <1>7, <2>2, <3>2, Zenon
    <3>4. i \in Seq(Names) /\ i # <<eid>> /\ eid \in Names /\ name \in Seq(Names)
          /\ Names \subseteq T /\ Longest(p, q, eid, m, T) /\ ProbedFrom(c, p, q)
      BY <1>1, <1>3, <1>12, <2>1, <2>4, <3>3
    <3>5. i = name BY <3>3, <3>4, ProbedBySum
    <3> QED BY <2>2, <3>3, <3>5
  <2> QED BY <1>13, <2>3, <2>4
<1>14. PICK d \in mine : d.ident = name /\ d.path = path
  <2> DEFINE hits == {k \in 1..Len(all) : \E d \in registered : Matches(all[k], d, r)}
             first == CHOOSE i \in hits : \A j \in hits : i <= j
  <2>1. CASE hits = {}
    <3>1. PICK d \in registered : Matches(ContextName(r), d, r) /\ path = d.path
      BY <1>9, <2>1 DEF Selected
    <3> QED BY <1>5, <1>13, <3>1
  <2>2. CASE hits # {}
    <3>1. hits \in SUBSET Nat BY <1>11
    <3>2. \E i \in hits : \A j \in hits : i <= j BY <2>2, <3>1, LeastNat
    <3>3. first \in hits BY <3>2
    <3>4. PICK d \in registered : Matches(all[first], d, r) /\ path = d.path
      BY <1>9, <2>2 DEF Selected
    <3>5. ProbedFrom(all[first], p, q) BY <1>12, <3>3
    <3> QED BY <1>13, <3>4, <3>5
  <2> QED BY <2>1, <2>2
<1>15. \A i : Meant(full, i, r) = IF i = name THEN 1 ELSE 0 BY <1>2, Zenon DEF Meant
<1>16. Meant(full, d.ident, r) = 1 BY <1>14, <1>15
<1>17. \A e \in mine : Meant(full, e.ident, r) = 1 \/ Meant(full, e.ident, r) = 0 BY <1>15
<1>18. \A e \in mine : Meant(full, e.ident, r) <= Meant(full, d.ident, r) BY <1>16, <1>17
<1> QED BY <1>14, <1>16, <1>18

\* MostSpecific as a relation of what it reads.
Foremost(f, files, l) == l.path # NoFile =>
    LET mine == {d \in files : d.engine = l.request.at /\ d.context = l.request.engine_id}
    IN  \E d \in mine : /\ d.path = l.path /\ Meant(f, d.ident, l.request) > 0
                        /\ \A e \in mine : Meant(f, e.ident, l.request) <= Meant(f, d.ident, l.request)

LEMMA ForemostIs ==
    ASSUME NEW Names, SumsApart(Names), NEW f, NEW files, NEW l,
           f = full, files = registered, l = last, l.path # NoFile => l.request \in Requests
    PROVE  MostSpecific <=> Foremost(f, files, l)
<1>1. CASE l.path = NoFile BY <1>1 DEF MostSpecific, Foremost
<1>2. CASE l.path # NoFile
  <2>1. PICK r \in Requests : r = l.request BY <1>2
  <2>2. \A i : Specific(i, r) = Meant(f, i, r) BY SpecificMeant
  <2>3. Foremost(f, files, l) <=>
          LET mine == {d \in registered : d.engine = r.at /\ d.context = r.engine_id}
          IN  \E d \in mine : /\ d.path = l.path /\ Meant(f, d.ident, r) > 0
                              /\ \A e \in mine : Meant(f, e.ident, r) <= Meant(f, d.ident, r)
    BY <1>2, <2>1, Zenon DEF Foremost
  <2>4. MostSpecific <=>
          LET mine == {d \in registered : d.engine = r.at /\ d.context = r.engine_id}
          IN  \E d \in mine : /\ d.path = l.path /\ Specific(d.ident, r) > 0
                              /\ \A e \in mine : Specific(e.ident, r) <= Specific(d.ident, r)
    BY <1>2, <2>1, Zenon DEF MostSpecific
  <2> QED BY <2>2, <2>3, <2>4, Zenon
<1> QED BY <1>1, <1>2

(***************************************************************************)
(* The invariant of the lookup.                                            *)
(***************************************************************************)
LookupInv(Names) ==
    /\ IInv /\ Shape /\ Named(Names) /\ Distinct /\ Quiet
    /\ last.path # NoFile => last.request \in Requests
    /\ Foremost(full, registered, last)

LEMMA LookupInit == ASSUME NEW Names, Init PROVE LookupInv(Names)
<1>1. IInv BY InitInv
<1>2. last.path = NoFile BY DEF Init, Nothing
<1> QED BY <1>1, <1>2, ShapeInit DEF LookupInv, Foremost

\* Whoever answers from a file answers from one that was selected.
LEMMA AnswerIsSelected ==
    ASSUME NEW Names, SumsApart(Names), LookupInv(Names), NEW path, NEW reply, NEW released,
           path \in Selected(request) \cup {NoFile}, Answered(path, reply, released)
    PROVE  /\ last'.path # NoFile => last'.request \in Requests
           /\ Foremost(full', registered', last')
<1>1. /\ last' = [request |-> request, path |-> path, reply |-> reply] /\ request # None
      /\ UNCHANGED <<line, registered>>
  BY DEF Answered, contextVars
<1>2. request \in Requests BY <1>1 DEF LookupInv, IInv, Counting
<1>3. full' = full BY <1>1 DEF full
<1>4. last'.path = path /\ last'.request = request BY <1>1
<1>5. CASE path = NoFile BY <1>4, <1>5 DEF Foremost
<1>6. CASE path \in Selected(request)
  <2>1. PICK mine : mine = {d \in registered : d.engine = request.at /\ d.context = request.engine_id}
    OBVIOUS
  <2>2. Named(Names) BY DEF LookupInv
  <2>3. \E d \in mine : /\ d.path = path /\ Meant(full, d.ident, request) > 0
                        /\ \A e \in mine : Meant(full, e.ident, request) <= Meant(full, d.ident, request)
    BY <1>2, <1>6, <2>1, <2>2, PlainMostSpecific, HashedMostSpecific, Zenon
  <2>4. Foremost(full, registered, last') BY <1>4, <2>1, <2>3, Zenon DEF Foremost
  <2> QED BY <1>1, <1>2, <1>3, <1>4, <2>4
<1> QED BY <1>5, <1>6

LEMMA LookupNext ==
    ASSUME NEW Names, SumsApart(Names), LookupInv(Names), [Next]_vars
    PROVE  LookupInv(Names)'
<1>1. IInv' BY NextInv DEF LookupInv
<1>2. Shape' /\ Named(Names)' /\ Distinct' /\ Quiet' BY ShapeNext, NamesNext DEF LookupInv
<1> SUFFICES /\ last'.path # NoFile => last'.request \in Requests
             /\ Foremost(full', registered', last')
    BY <1>1, <1>2 DEF LookupInv, Foremost, full, Meant, Hashed
\* Nothing is answered, or the files do not matter yet.
<1>3. ASSUME UNCHANGED <<line, last>>, UNCHANGED registered \/ pc \notin {"serve", "ended"}
      PROVE  /\ last'.path # NoFile => last'.request \in Requests
             /\ Foremost(full', registered', last')
  <2>1. full' = full BY <1>3 DEF full
  <2>2. CASE last.path = NoFile BY <1>3, <2>2 DEF Foremost
  <2>3. CASE last.path # NoFile
    <3>1. UNCHANGED registered BY <1>3, <2>3 DEF LookupInv, Quiet
    <3> QED BY <1>3, <2>1, <3>1 DEF LookupInv
  <2> QED BY <2>2, <2>3
<1>4. CASE Fail BY <1>3, <1>4 DEF Fail, contextVars, serveVars
<1>5. CASE LoadModules BY <1>3, <1>4, <1>5 DEF LoadModules, contextVars, serveVars
<1>6. CASE InitModules BY <1>3, <1>6 DEF InitModules, serveVars
<1>7. CASE ReadOption
  BY <1>3, <1>4, <1>7 DEF ReadOption, StartEngine, ContextEngine, DataDir, Endpoint, User, Key,
     Proto, CompleteEngine, TakeOption, contextVars, serveVars
<1>8. CASE Configure
  <2>1. ASSUME NEW f, Register(f) PROVE UNCHANGED <<line, last, pc>>
    BY <2>1 DEF Register, serveVars
  <2>2. CASE Scan \/ EndFiles \/ EndContext
    BY <1>3, <1>4, <2>2 DEF Scan, EndFiles, EndContext, contextVars, serveVars
  <2>3. CASE FinishEngine \/ FinishLite
    BY <1>3, <1>4, <2>3 DEF FinishEngine, FinishLite, serveVars
  <2>4. CASE ConfigureDuplicate BY <1>3, <2>4 DEF ConfigureDuplicate, contextVars, serveVars
  <2>5. CASE ConfigureShared BY <1>3, <1>4, <2>1, <2>5 DEF ConfigureShared
  <2>6. CASE ConfigureFile BY <1>3, <1>4, <2>1, <2>6 DEF ConfigureFile
  <2> QED BY <1>8, <2>2, <2>3, <2>4, <2>5, <2>6 DEF Configure
<1>9. CASE Receive
  <2>1. last'.path = NoFile BY <1>9 DEF Receive, Nothing
  <2> QED BY <2>1 DEF Foremost
<1>10. CASE NotSelected
  <2>1. \E reply, released : Answered(NoFile, reply, released) BY <1>10 DEF NotSelected
  <2> QED BY <2>1, AnswerIsSelected
<1>11. CASE HandleFull
  <2>1. \E path \in Selected(request) : \E reply, released : Answered(path, reply, released)
    BY <1>11 DEF HandleFull, Outcomes
  <2> QED BY <2>1, AnswerIsSelected
<1>12. CASE HandleLite
  <2>1. \E path \in Selected(request) : \E reply, released : Answered(path, reply, released)
    BY <1>12 DEF HandleLite
  <2> QED BY <2>1, AnswerIsSelected
<1>13. CASE Shutdown BY <1>3, <1>13 DEF Shutdown, contextVars, serveVars
<1>14. CASE UNCHANGED vars BY <1>3, <1>14 DEF vars, contextVars, serveVars
<1> QED
  BY <1>5, <1>6, <1>7, <1>8, <1>9, <1>10, <1>11, <1>12, <1>13, <1>14 DEF Next, Serve

(* No request can be answered from two files, whatever directories, links, *)
(* options, engines and MD5 sums make names meet: configure_managed_objects*)
(* registers a name once for each context engine, or ends the start.       *)
THEOREM ResponderUnambiguous ==
    ASSUME NEW Names, SumsApart(Names)
    PROVE  Spec => []Unambiguous
<1>1. LookupInv(Names) => Unambiguous BY Unambiguity DEF LookupInv
<1>2. LookupInv(Names) /\ [Next]_vars => LookupInv(Names)' BY LookupNext
<1>3. Init => LookupInv(Names) BY LookupInit
<1> QED BY <1>1, <1>2, <1>3, PTL DEF Spec

(* A request is answered from the most specific of the data files meant    *)
(* for it: the order probe_context lists names in is the order of how      *)
(* specific they are.                                                      *)
THEOREM ResponderMostSpecific ==
    ASSUME NEW Names, SumsApart(Names)
    PROVE  Spec => []MostSpecific
<1>1. LookupInv(Names) => MostSpecific BY ForemostIs DEF LookupInv
<1>2. LookupInv(Names) /\ [Next]_vars => LookupInv(Names)' BY LookupNext
<1>3. Init => LookupInv(Names) BY LookupInit
<1> QED BY <1>1, <1>2, <1>3, PTL DEF Spec

-----------------------------------------------------------------------------
(***************************************************************************)
(* What DataWhereAsked rests on.  O stands for the options, k for where an *)
(* engine is named; what belongs to it is what follows up to the next one. *)
(***************************************************************************)
IsEngine(O, k, n) == /\ k \in 1..n /\ O[k][1] = "v3-engine-id"
                     /\ \A j \in (k + 1)..n : O[j][1] # "v3-engine-id"

OWNERS == {"v3-engine-id", "v3-context-engine-id"}

IsOwner(O, q, n) == /\ q \in 1..(n - 1) /\ O[q][1] \in OWNERS
                    /\ \A j \in (q + 1)..(n - 1) : O[j][1] \notin OWNERS

\* The directories given to the owner at q up to n, the context engines of engine k.
GivenTo(O, q, n) == {O[m][2] : m \in {j \in 1..n : O[j][1] = "data-dir" /\ IsOwner(O, q, j)}}

ContextsIn(O, k, n) == {m \in 1..n : O[m][1] = "v3-context-engine-id" /\ IsEngine(O, k, m)}

Ask(O, k, m) == [engine |-> O[k][2], context |-> O[m][2],
                 dirs |-> FirstGiven(GivenTo(O, m, Len(O)), GivenTo(O, k, Len(O)))]

AskDefault(O, k) == [engine |-> O[k][2], context |-> SELF_LABEL,
                     dirs |-> FirstGiven(GivenTo(O, k, Len(O)), {})]

AsksIn(O, k) == IF ContextsIn(O, k, Len(O)) = {} THEN {AskDefault(O, k)}
                ELSE {Ask(O, k, m) : m \in ContextsIn(O, k, Len(O))}

EnginesIn(O, n) == {k \in 1..n : O[k][1] = "v3-engine-id"}

Elements(s) == {s[i] : i \in 1..Len(s)}

\* The options of engine k up to n are in the lists of its directories and contexts,
\* the options of contexts being at p.
Collected(O, k, n, ds, cs) ==
    /\ Elements(ds) = GivenTo(O, k, n)
    /\ \E p \in [1..Len(cs) -> (k + 1)..n] :
          /\ \A i \in 1..Len(cs) : /\ O[p[i]][1] = "v3-context-engine-id"
                                   /\ cs[i].id = O[p[i]][2]
                                   /\ Elements(cs[i].dirs) = GivenTo(O, p[i], n)
          /\ \A m \in (k + 1)..n : O[m][1] = "v3-context-engine-id" => \E i \in 1..Len(cs) : p[i] = m
          /\ \A i, j \in 1..Len(cs) : i < j => p[i] < p[j]

\* What is asked for by the i-th of the contexts cs of engine e.
AskedAt(e, ds, cs, i) == [engine |-> e, context |-> cs[i].id,
                          dirs |-> FirstGiven(Elements(cs[i].dirs), Elements(ds))]

Held(g, e, c, ident) == \E r \in g : r.engine = e /\ r.context = c /\ r.ident = ident

\* Of the registered files g: those asked for are there, and there is no other.
Met(g, t, a) == \A d \in a.dirs : \A f \in DataFiles(d, t) : Held(g, a.engine, a.context, f.ident)

MetUpTo(g, t, O, n) == \A k \in EnginesIn(O, n) : \A a \in AsksIn(O, k) : Met(g, t, a)

AskedFor(r, t, a) == /\ r.engine = a.engine /\ r.context = a.context
                     /\ r.ident = INDEX \/ \E d \in a.dirs : \E f \in DataFiles(d, t) :
                                              f.ident = r.ident /\ f.path = r.path

NoOther(g, t, O) == \A r \in g : \E k \in EnginesIn(O, Len(O)) : \E a \in AsksIn(O, k) : AskedFor(r, t, a)

\* Between engines; while options are read; while directories are scanned.
Between ==
    (pc \in {"load", "init"} \/ (pc = "options" /\ engine = "")) =>
       /\ Options[option][1] = "v3-engine-id" /\ engine = "" /\ data_files = {}
       /\ MetUpTo(registered, tree, Options, option - 1)

Reading ==
    (pc = "options" /\ engine # "") =>
       /\ data_files = {}
       /\ \E k \in 1..(option - 1) : /\ IsEngine(Options, k, option - 1) /\ engine = Options[k][2]
                 /\ Collected(Options, k, option - 1, acc.dirs, acc.contexts)
                 /\ MetUpTo(registered, tree, Options, k - 1)

Scanning ==
    pc \in {"scan", "files", "finish"} =>
       /\ Options[option][1] \in {"v3-engine-id", "end-of-options"}
       /\ \E k \in 1..(option - 1) : /\ IsEngine(Options, k, option - 1) /\ engine = Options[k][2]
                 /\ {AskedAt(engine, acc.dirs, acc.contexts, i) : i \in 1..Len(acc.contexts)}
                       = AsksIn(Options, k)
                 /\ MetUpTo(registered, tree, Options, k - 1)
       /\ \A i \in 1..Len(acc.contexts) :
             i < at[1] \/ pc = "finish" =>
                Met(registered, tree, AskedAt(engine, acc.dirs, acc.contexts, i))

HeldHere(ident) == Held(registered, engine, Context.id, ident)

Listing ==
    pc \in {"scan", "files"} =>
       /\ \A j \in 1..(at[2] - 1) : j <= Len(Dirs) =>
             \A f \in DataFiles(Dirs[j], tree) : HeldHere(f.ident)
       /\ \A x \in data_files : HeldHere(x)
       /\ pc = "files" => /\ at[2] <= Len(Dirs) /\ todo \subseteq DataFiles(Dirs[at[2]], tree)
                          /\ \A f \in DataFiles(Dirs[at[2]], tree) : f \in todo \/ HeldHere(f.ident)

Finished == /\ pc = "finish" => data_files = {}
            /\ pc = "serve" => MetUpTo(registered, tree, Options, Len(Options))

Delivered == full => /\ Between /\ Reading /\ Scanning /\ Listing /\ Finished
                     /\ NoOther(registered, tree, Options)

\* What command lines have in common.
WellFormed(O) ==
    /\ Len(O) \in Nat /\ 1 < Len(O) /\ DOMAIN O = 1..Len(O)
    /\ O[1][1] = "v3-engine-id" /\ O[Len(O)][1] = "end-of-options"
    /\ \A i \in 1..(Len(O) - 1) : /\ O[i][1] \in OptionNames
                                  /\ O[i][1] = "v3-engine-id" => O[i][2] # ""
    /\ \A i, j \in 1..Len(O) :
          i < j /\ O[i][1] = O[j][1] /\ O[i][2] = O[j][2] =>
             /\ O[i][1] # "v3-engine-id"
             /\ O[i][1] = "v3-context-engine-id" =>
                   \E k \in (i + 1)..(j - 1) : O[k][1] = "v3-engine-id"

\* The options are those of the command line, behind an engine if there was none.
Placed(y, s, t, first, z, n) ==
    /\ n = 1 <=> s = <<first>>
    /\ Len(t) \in Nat /\ Len(y) = Len(t) + n + 1 /\ DOMAIN y = 1..Len(y)
    /\ n = 1 => y[1] = first
    /\ y[Len(y)] = z
    /\ \A i \in 1..Len(t) : y[i + n] = t[i]

LEMMA Places ==
    ASSUME NEW first, NEW s, NEW t, NEW z, NEW S, t \in Seq(S), first \in S, z \in S,
           s = <<first>> \/ s = <<>>
    PROVE  \E n \in {0, 1} : Placed(s \o t \o <<z>>, s, t, first, z, n)
<1>1. PICK y, u, e : u = s \o t /\ e = <<z>> /\ y = u \o e /\ y = s \o t \o <<z>> OBVIOUS
<1>2. e \in Seq(S) /\ Len(e) = 1 /\ e[1] = z BY <1>1
<1>3. s \in Seq(S)
  <2>1. CASE s = <<first>>
    <3>1. PICK x \in S : x = first OBVIOUS
    <3>2. <<x>> \in Seq(S) OBVIOUS
    <3> QED BY <2>1, <3>1, <3>2
  <2>2. CASE s = <<>> BY <2>2, EmptySeq
  <2> QED BY <2>1, <2>2
<1>4. /\ u \in Seq(S) /\ Len(u) = Len(s) + Len(t)
      /\ \A i \in 1..(Len(s) + Len(t)) : u[i] = IF i <= Len(s) THEN s[i] ELSE t[i - Len(s)]
  BY <1>1, <1>3, ConcatProperties
<1>5. /\ y \in Seq(S) /\ Len(y) = Len(u) + 1
      /\ \A i \in 1..(Len(u) + 1) : y[i] = IF i <= Len(u) THEN u[i] ELSE e[i - Len(u)]
  BY <1>1, <1>2, <1>4, ConcatProperties
<1>6. Len(t) \in Nat /\ DOMAIN y = 1..Len(y) BY <1>5, LenProperties
<1>7. PICK n \in {0, 1} : /\ n = Len(s) /\ (n = 1 <=> s = <<first>>)
                          /\ n = 1 => s[1] = first
  <2>1. CASE s = <<first>>
    <3>1. Len(<<first>>) = 1 /\ <<first>>[1] = first OBVIOUS
    <3> QED BY <2>1, <3>1
  <2>2. CASE s = <<>>
    <3>1. Len(<<>>) = 0 OBVIOUS
    <3>2. <<>> # <<first>>
      <4>1. Len(<<first>>) = 1 OBVIOUS
      <4> QED BY <3>1, <4>1
    <3> QED BY <2>2, <3>1, <3>2
  <2> QED BY <2>1, <2>2
<1>8. Len(u) = n + Len(t) BY <1>4, <1>7
<1>9. Len(y) = Len(t) + n + 1 /\ y[Len(y)] = z BY <1>2, <1>5, <1>6, <1>7, <1>8
<1>10. ASSUME n = 1 PROVE y[1] = first
  <2>1. y[1] = u[1] BY <1>5, <1>6, <1>8, <1>10
  <2>2. u[1] = s[1] BY <1>4, <1>6, <1>7, <1>10
  <2> QED BY <1>7, <1>10, <2>1, <2>2
<1>11. ASSUME NEW i \in 1..Len(t) PROVE y[i + n] = t[i]
  <2>1. y[i + n] = u[i + n] BY <1>5, <1>6, <1>7, <1>8
  <2>2. u[i + n] = t[(i + n) - n]
    <3>1. i + n \in 1..(Len(s) + Len(t)) /\ ~(i + n <= Len(s)) BY <1>6, <1>7
    <3> QED BY <1>4, <1>7, <3>1
  <2>3. (i + n) - n = i BY <1>6, <1>7
  <2> QED BY <2>1, <2>2, <2>3
<1>12. Placed(y, s, t, first, z, n) BY <1>6, <1>7, <1>9, <1>10, <1>11, Zenon DEF Placed
<1> QED BY <1>1, <1>12, Zenon

LEMMA OptionsWellFormed == ASSUME line \in CommandLines PROVE WellFormed(Options)
<1> DEFINE T == line.options
           E == {line.options[i] : i \in DOMAIN line.options}
           first == <<"v3-engine-id", "auto">>
           z == <<"end-of-options", "">>
           S == E \cup {first, z}
           s == IF line.options = <<>> \/ line.options[1][1] # "v3-engine-id"
                THEN <<first>> ELSE <<>>
<1>1. T \in Seq(E) BY ResponderAssumption, Zenon
<1>2. \A i \in DOMAIN T : /\ T[i][1] \in OptionNames
                          /\ T[i][1] = "v3-engine-id" => T[i][2] # "" /\ (T[i][2] = "auto" => i = 1)
  BY ResponderAssumption, Zenon
<1>3. Apart(T) BY ResponderAssumption, Zenon
<1>4. /\ first[1] = "v3-engine-id" /\ first[2] = "auto" /\ z[1] = "end-of-options"
      /\ first \in S /\ z \in S /\ E \subseteq S
  OBVIOUS
<1>5. Options = s \o T \o <<z>> BY Zenon DEF Options
<1>6. /\ s = <<first>> => T = <<>> \/ T[1][1] # "v3-engine-id"
      /\ s # <<first>> => T # <<>> /\ T[1][1] = "v3-engine-id"
  OBVIOUS
<1>7. s = <<first>> \/ s = <<>> OBVIOUS
<1> HIDE DEF T, E, first, z, S, s
<1>8. T \in Seq(S) BY <1>1, <1>4, SeqMonotonic
<1>9. PICK n \in {0, 1} :
         /\ n = 1 <=> s = <<first>>
         /\ Len(T) \in Nat /\ Len(Options) = Len(T) + n + 1 /\ DOMAIN Options = 1..Len(Options)
         /\ n = 1 => Options[1] = first
         /\ Options[Len(Options)] = z
         /\ \A i \in 1..Len(T) : Options[i + n] = T[i]
  <2>1. \E n \in {0, 1} : Placed(s \o T \o <<z>>, s, T, first, z, n)
    BY <1>4, <1>7, <1>8, Places, Zenon
  <2> QED BY <1>5, <2>1, Zenon DEF Placed
<1>10. DOMAIN T = 1..Len(T) /\ (T # <<>> => Len(T) # 0) BY <1>8, LenProperties, EmptySeq
<1>11. Options[1][1] = "v3-engine-id" /\ 1 < Len(Options)
  <2>1. CASE n = 1 BY <1>4, <1>9, <2>1
  <2>2. CASE n = 0
    <3>1. 1 \in 1..Len(T) /\ T[1][1] = "v3-engine-id" BY <1>6, <1>9, <1>10, <2>2
    <3>2. Options[1 + n] = T[1] /\ 1 + n = 1 BY <1>9, <2>2, <3>1
    <3> QED BY <1>9, <2>2, <3>1, <3>2
  <2> QED BY <2>1, <2>2
\* Where an option comes from.
<1>12. ASSUME NEW i \in 1..(Len(Options) - 1)
       PROVE  \/ n = 1 /\ i = 1 /\ Options[i] = first
              \/ i - n \in 1..Len(T) /\ Options[i] = T[i - n]
  <2>1. CASE n = 1 /\ i = 1 BY <1>9, <2>1
  <2>2. CASE ~(n = 1 /\ i = 1)
    <3>1. i - n \in 1..Len(T) /\ (i - n) + n = i BY <1>9, <2>2
    <3> QED BY <1>9, <3>1
  <2> QED BY <2>1, <2>2
<1>13. ASSUME NEW i \in 1..(Len(Options) - 1)
       PROVE  Options[i][1] \in OptionNames /\ (Options[i][1] = "v3-engine-id" => Options[i][2] # "")
  <2>1. CASE Options[i] = first BY <1>4, <2>1 DEF OptionNames
  <2>2. CASE i - n \in 1..Len(T) /\ Options[i] = T[i - n] BY <1>2, <1>10, <2>2
  <2> QED BY <1>12, <2>1, <2>2
<1>14. "end-of-options" \notin OptionNames BY DEF OptionNames
<1>15. ASSUME NEW i \in 1..Len(Options), NEW j \in 1..Len(Options), i < j,
              Options[i][1] = Options[j][1], Options[i][2] = Options[j][2]
       PROVE  /\ Options[i][1] # "v3-engine-id"
              /\ Options[i][1] = "v3-context-engine-id" =>
                    \E k \in (i + 1)..(j - 1) : Options[k][1] = "v3-engine-id"
  <2>1. i \in 1..(Len(Options) - 1) BY <1>9, <1>15
  <2>2. j \in 1..(Len(Options) - 1)
    <3>1. j # Len(Options) BY <1>4, <1>9, <1>13, <1>14, <1>15, <2>1
    <3> QED BY <1>9, <3>1
  <2>3. j - n \in 1..Len(T) /\ Options[j] = T[j - n] BY <1>9, <1>12, <1>15, <2>1, <2>2
  <2>4. CASE n = 1 /\ i = 1 /\ Options[i] = first
    <3>1. T[j - n][1] = "v3-engine-id" /\ T[j - n][2] = "auto" BY <1>4, <1>15, <2>3, <2>4
    <3>2. j - n = 1 BY <1>2, <1>10, <2>3, <3>1
    <3>3. T # <<>>
      <4>1. Len(<<>>) = 0 OBVIOUS
      <4> QED BY <2>3, <4>1
    <3> QED BY <1>6, <1>9, <2>4, <3>1, <3>2, <3>3
  <2>5. CASE i - n \in 1..Len(T) /\ Options[i] = T[i - n]
    <3>1. PICK x, y : x = i - n /\ y = j - n OBVIOUS
    <3>2. /\ x \in DOMAIN T /\ y \in DOMAIN T /\ x < y /\ T[x][1] = T[y][1] /\ T[x][2] = T[y][2]
          /\ x \in Int /\ y \in Int
      BY <1>9, <1>10, <1>15, <2>3, <2>5, <3>1
    <3>3. /\ T[x][1] # "v3-engine-id"
          /\ T[x][1] = "v3-context-engine-id" => \E k \in (x + 1)..(y - 1) : T[k][1] = "v3-engine-id"
      BY <1>3, <3>2 DEF Apart
    <3>4. ASSUME NEW k \in (x + 1)..(y - 1), T[k][1] = "v3-engine-id"
          PROVE  \E l \in (i + 1)..(j - 1) : Options[l][1] = "v3-engine-id"
      <4>1. k \in 1..Len(T) BY <1>9, <1>10, <3>2
      <4>2. k + n \in (i + 1)..(j - 1) /\ Options[k + n] = T[k] BY <1>9, <3>1, <4>1
      <4> QED BY <3>4, <4>2
    <3> QED BY <2>5, <3>1, <3>3, <3>4
  <2> QED BY <1>12, <2>1, <2>4, <2>5
<1>16. Options[Len(Options)][1] = "end-of-options" /\ Len(Options) \in Nat BY <1>4, <1>9
<1> QED BY <1>9, <1>11, <1>13, <1>15, <1>16, Zenon DEF WellFormed

\* The last one of a number of options.
LEMMA Latest ==
    ASSUME NEW n \in Nat, NEW T, T \subseteq 1..n, T # {}
    PROVE  \E m \in T : \A j \in T : j <= m
<1>1. PICK N : N = {n - m : m \in T} OBVIOUS
<1>2. N \in SUBSET Nat /\ N # {}
  <2>1. \A m \in T : n - m \in Nat OBVIOUS
  <2> QED BY <1>1, <2>1
<1>3. PICK x \in N : \A y \in N : x <= y BY <1>2, LeastNat
<1>4. PICK m \in T : x = n - m BY <1>1
<1>5. ASSUME NEW j \in T PROVE j <= m
  <2>1. n - j \in N BY <1>1
  <2>2. n - m <= n - j BY <1>3, <1>4, <2>1
  <2> QED BY <2>2
<1> QED BY <1>5

LEMMA EngineOfOption ==
    ASSUME NEW O, WellFormed(O), NEW n \in 1..Len(O)
    PROVE  \E k : IsEngine(O, k, n) /\ \A l : IsEngine(O, l, n) => l = k
<1>1. n \in Nat /\ O[1][1] = "v3-engine-id"
  <2>1. Len(O) \in Nat /\ O[1][1] = "v3-engine-id" BY Zenon DEF WellFormed
  <2> QED BY <2>1
<1>2. PICK T : T = {k \in 1..n : O[k][1] = "v3-engine-id"} OBVIOUS
<1>3. 1 \in T BY <1>1, <1>2
<1>4. PICK k \in T : \A j \in T : j <= k
  <2>1. T \subseteq 1..n /\ T # {} BY <1>2, <1>3
  <2> QED BY <1>1, <2>1, Latest
<1>5. ASSUME NEW j \in (k + 1)..n PROVE O[j][1] # "v3-engine-id"
  <2>1. j \in 1..n /\ j > k BY <1>1, <1>2, <1>5
  <2> QED BY <1>2, <1>4, <2>1
<1>6. IsEngine(O, k, n) BY <1>2, <1>5 DEF IsEngine
<1>7. ASSUME NEW l, IsEngine(O, l, n) PROVE l = k
  <2>1. l \in 1..n /\ O[l][1] = "v3-engine-id" /\ \A j \in (l + 1)..n : O[j][1] # "v3-engine-id"
    BY <1>7 DEF IsEngine
  <2>2. l \in T /\ l <= k BY <1>2, <1>4, <2>1
  <2>3. k \notin (l + 1)..n BY <1>2, <2>1
  <2> QED BY <1>1, <1>2, <2>1, <2>2, <2>3
<1> QED BY <1>6, <1>7

LEMMA OwnerOfOption ==
    ASSUME NEW O, WellFormed(O), NEW n \in 2..Len(O)
    PROVE  \E q : IsOwner(O, q, n) /\ \A l : IsOwner(O, l, n) => l = q
<1>1. n - 1 \in Nat /\ n \in Nat /\ 1 <= n - 1 /\ O[1][1] = "v3-engine-id"
  <2>1. Len(O) \in Nat /\ O[1][1] = "v3-engine-id" BY Zenon DEF WellFormed
  <2> QED BY <2>1
<1>2. PICK T : T = {k \in 1..(n - 1) : O[k][1] \in OWNERS} OBVIOUS
<1>3. 1 \in T BY <1>1, <1>2 DEF OWNERS
<1>4. PICK k \in T : \A j \in T : j <= k
  <2>1. T \subseteq 1..(n - 1) /\ T # {} BY <1>2, <1>3
  <2> QED BY <1>1, <2>1, Latest
<1>5. ASSUME NEW j \in (k + 1)..(n - 1) PROVE O[j][1] \notin OWNERS
  <2>1. j \in 1..(n - 1) /\ j > k BY <1>1, <1>2, <1>5
  <2> QED BY <1>2, <1>4, <2>1
<1>6. IsOwner(O, k, n) BY <1>2, <1>5 DEF IsOwner
<1>7. ASSUME NEW l, IsOwner(O, l, n) PROVE l = k
  <2>1. l \in 1..(n - 1) /\ O[l][1] \in OWNERS /\ \A j \in (l + 1)..(n - 1) : O[j][1] \notin OWNERS
    BY <1>7 DEF IsOwner
  <2>2. l \in T /\ l <= k BY <1>2, <1>4, <2>1
  <2>3. k \notin (l + 1)..(n - 1) BY <1>2, <2>1
  <2> QED BY <1>1, <1>2, <2>1, <2>2, <2>3
<1> QED BY <1>6, <1>7

\* Asked, without a choice of owners.
LEMMA AskedIs ==
    ASSUME line \in CommandLines
    PROVE  Asked = UNION {AsksIn(Options, k) : k \in EnginesIn(Options, Len(Options))}
<1>1. WellFormed(Options) BY OptionsWellFormed
<1>2. /\ Len(Options) \in Nat /\ DOMAIN Options = 1..Len(Options)
      /\ Options[1][1] = "v3-engine-id" /\ 1 < Len(Options)
  BY <1>1, Zenon DEF WellFormed
<1>3. ASSUME NEW n \in 2..Len(Options), NEW q PROVE IsOwner(Options, q, n) <=> Owner(n) = q
  <2>1. PICK o : IsOwner(Options, o, n) /\ \A l : IsOwner(Options, l, n) => l = o
    BY <1>1, OwnerOfOption
  <2>2. IsOwner(Options, Owner(n), n) BY <2>1, Zenon DEF IsOwner, OWNERS, Owner
  <2> QED BY <2>1, <2>2, Zenon
<1>4. ASSUME NEW n \in 1..Len(Options), NEW k PROVE IsEngine(Options, k, n) <=> EngineOf(n) = k
  <2>1. PICK o : IsEngine(Options, o, n) /\ \A l : IsEngine(Options, l, n) => l = o
    BY <1>1, EngineOfOption
  <2>2. IsEngine(Options, EngineOf(n), n) BY <2>1, Zenon DEF IsEngine, EngineOf
  <2> QED BY <2>1, <2>2, Zenon
<1>5. ASSUME NEW q PROVE DirsOf(q) = GivenTo(Options, q, Len(Options))
  <2>1. ASSUME NEW n \in 1..Len(Options), Options[n][1] = "data-dir"
        PROVE  IsOwner(Options, q, n) <=> Owner(n) = q
    <3>1. n \in 2..Len(Options) BY <1>2, <2>1
    <3> QED BY <1>3, <3>1
  <2>2. {n \in DOMAIN Options : Options[n][1] = "data-dir" /\ Owner(n) = q}
           = {n \in 1..Len(Options) : Options[n][1] = "data-dir" /\ IsOwner(Options, q, n)}
    BY <1>2, <2>1, Zenon
  <2> QED BY <2>2, Zenon DEF DirsOf, GivenTo
<1>6. ASSUME NEW k PROVE ContextsOf(k) = ContextsIn(Options, k, Len(Options))
  BY <1>2, <1>4, Zenon DEF ContextsOf, ContextsIn, OptionsNamed
<1>7. ASSUME NEW a \in Asked
      PROVE  \E k \in EnginesIn(Options, Len(Options)) : a \in AsksIn(Options, k)
  <2>1. CASE \E n \in OptionsNamed("v3-context-engine-id") :
                a = [engine |-> Options[EngineOf(n)][2], context |-> Options[n][2],
                     dirs |-> FirstGiven(DirsOf(n), DirsOf(EngineOf(n)))]
    <3>1. PICK n \in OptionsNamed("v3-context-engine-id") :
             a = [engine |-> Options[EngineOf(n)][2], context |-> Options[n][2],
                  dirs |-> FirstGiven(DirsOf(n), DirsOf(EngineOf(n)))]
      BY <2>1
    <3>2. n \in 1..Len(Options) /\ Options[n][1] = "v3-context-engine-id"
      BY <1>2 DEF OptionsNamed
    <3>3. PICK k : k = EngineOf(n) OBVIOUS
    <3>4. IsEngine(Options, k, n) BY <1>4, <3>2, <3>3
    <3>5. k \in EnginesIn(Options, Len(Options)) BY <1>2, <3>2, <3>4 DEF IsEngine, EnginesIn
    <3>6. n \in ContextsIn(Options, k, Len(Options)) BY <3>2, <3>4 DEF ContextsIn
    <3>7. a = Ask(Options, k, n) BY <1>5, <3>1, <3>3, Zenon DEF Ask
    <3>8. a \in AsksIn(Options, k) BY <3>6, <3>7, Zenon DEF AsksIn
    <3> QED BY <3>5, <3>8
  <2>2. CASE \E k \in {j \in OptionsNamed("v3-engine-id") : ContextsOf(j) = {}} :
                a = [engine |-> Options[k][2], context |-> SELF_LABEL, dirs |-> FirstGiven(DirsOf(k), {})]
    <3>1. PICK k \in OptionsNamed("v3-engine-id") :
             /\ ContextsOf(k) = {}
             /\ a = [engine |-> Options[k][2], context |-> SELF_LABEL, dirs |-> FirstGiven(DirsOf(k), {})]
      BY <2>2
    <3>2. k \in EnginesIn(Options, Len(Options)) BY <1>2 DEF OptionsNamed, EnginesIn
    <3>3. a \in AsksIn(Options, k) BY <1>5, <1>6, <3>1, Zenon DEF AsksIn, AskDefault
    <3> QED BY <3>2, <3>3
  <2> QED BY <2>1, <2>2, Zenon DEF Asked
<1>8. ASSUME NEW k \in EnginesIn(Options, Len(Options)), NEW a \in AsksIn(Options, k)
      PROVE  a \in Asked
  <2>1. CASE ContextsIn(Options, k, Len(Options)) = {}
    <3>1. a = [engine |-> Options[k][2], context |-> SELF_LABEL, dirs |-> FirstGiven(DirsOf(k), {})]
      BY <1>5, <2>1, Zenon DEF AsksIn, AskDefault
    <3>2. k \in OptionsNamed("v3-engine-id") BY <1>2 DEF OptionsNamed, EnginesIn
    <3>3. ContextsOf(k) = {} BY <1>6, <2>1
    <3> QED BY <3>1, <3>2, <3>3, Zenon DEF Asked
  <2>2. CASE ContextsIn(Options, k, Len(Options)) # {}
    <3>1. PICK n \in ContextsIn(Options, k, Len(Options)) : a = Ask(Options, k, n)
      BY <2>2, Zenon DEF AsksIn
    <3>2. n \in 1..Len(Options) /\ Options[n][1] = "v3-context-engine-id" /\ IsEngine(Options, k, n)
      BY DEF ContextsIn
    <3>3. EngineOf(n) = k /\ n \in OptionsNamed("v3-context-engine-id")
      BY <1>2, <1>4, <3>2 DEF OptionsNamed
    <3>4. a = [engine |-> Options[EngineOf(n)][2], context |-> Options[n][2],
               dirs |-> FirstGiven(DirsOf(n), DirsOf(EngineOf(n)))]
      BY <1>5, <3>1, <3>3, Zenon DEF Ask
    <3> QED BY <3>3, <3>4, Zenon DEF Asked
  <2> QED BY <2>1, <2>2
<1> QED BY <1>7, <1>8, Zenon

\* No context engine is asked for twice.
LEMMA AskedOnce ==
    ASSUME NEW O, WellFormed(O), NEW k \in EnginesIn(O, Len(O)), NEW l \in EnginesIn(O, Len(O)),
           NEW a \in AsksIn(O, k), NEW b \in AsksIn(O, l), a.engine = b.engine, a.context = b.context
    PROVE  a = b
<1>1. /\ Len(O) \in Nat
      /\ \A i, j \in 1..Len(O) :
            i < j /\ O[i][1] = O[j][1] /\ O[i][2] = O[j][2] =>
               /\ O[i][1] # "v3-engine-id"
               /\ O[i][1] = "v3-context-engine-id" =>
                     \E e \in (i + 1)..(j - 1) : O[e][1] = "v3-engine-id"
  BY Zenon DEF WellFormed
<1>2. ASSUME NEW x, NEW y \in AsksIn(O, x) PROVE y.engine = O[x][2]
  BY DEF AsksIn, Ask, AskDefault
<1>3. /\ k \in 1..Len(O) /\ l \in 1..Len(O) /\ O[k][1] = "v3-engine-id" /\ O[l][1] = "v3-engine-id"
      /\ O[k][2] = O[l][2]
  BY <1>2 DEF EnginesIn
<1>4. k = l
  <2>1. ~(k < l) /\ ~(l < k) BY <1>1, <1>3
  <2> QED BY <1>1, <1>3, <2>1
<1>5. CASE ContextsIn(O, k, Len(O)) = {} BY <1>4, <1>5, Zenon DEF AsksIn
<1>6. CASE ContextsIn(O, k, Len(O)) # {}
  <2>1. PICK m \in ContextsIn(O, k, Len(O)), n \in ContextsIn(O, k, Len(O)) :
           a = Ask(O, k, m) /\ b = Ask(O, k, n)
    BY <1>4, <1>6, Zenon DEF AsksIn
  <2>2. O[m][2] = O[n][2] BY <2>1 DEF Ask
  <2>3. /\ m \in 1..Len(O) /\ n \in 1..Len(O)
        /\ O[m][1] = "v3-context-engine-id" /\ O[n][1] = "v3-context-engine-id"
        /\ IsEngine(O, k, m) /\ IsEngine(O, k, n)
    BY DEF ContextsIn
  <2>4. ASSUME NEW i \in {m, n}, NEW j \in {m, n}, i < j PROVE FALSE
    <3>1. PICK e \in (i + 1)..(j - 1) : O[e][1] = "v3-engine-id" BY <1>1, <2>2, <2>3, <2>4
    <3>2. k <= i /\ \A x \in (k + 1)..j : O[x][1] # "v3-engine-id"
      BY <2>3, <2>4 DEF IsEngine
    <3>3. e \in (k + 1)..j BY <1>1, <1>3, <2>3, <2>4, <3>1, <3>2
    <3> QED BY <3>1, <3>2, <3>3
  <2>5. m = n BY <1>1, <2>3, <2>4
  <2> QED BY <2>1, <2>5
<1> QED BY <1>5, <1>6

-----------------------------------------------------------------------------
\* The lists of directories and contexts, one option after the other.

LEMMA GivenNext ==
    ASSUME NEW O, NEW q, NEW n \in Nat
    PROVE  GivenTo(O, q, n + 1) =
              GivenTo(O, q, n) \cup (IF O[n + 1][1] = "data-dir" /\ IsOwner(O, q, n + 1)
                                     THEN {O[n + 1][2]} ELSE {})
<1>1. PICK A, B : /\ A = {j \in 1..n : O[j][1] = "data-dir" /\ IsOwner(O, q, j)}
                  /\ B = {j \in 1..(n + 1) : O[j][1] = "data-dir" /\ IsOwner(O, q, j)}
  OBVIOUS
<1>2. \A j : j \in 1..(n + 1) <=> j \in 1..n \/ j = n + 1 OBVIOUS
<1>3. B = A \cup (IF O[n + 1][1] = "data-dir" /\ IsOwner(O, q, n + 1) THEN {n + 1} ELSE {})
  BY <1>1, <1>2, Zenon
<1>4. GivenTo(O, q, n + 1) = {O[m][2] : m \in B} /\ GivenTo(O, q, n) = {O[m][2] : m \in A}
  BY <1>1, Zenon DEF GivenTo
<1> QED BY <1>3, <1>4

LEMMA ElementsOf ==
    ASSUME NEW S, NEW s \in Seq(S), NEW x \in S
    PROVE  Elements(Append(s, x)) = Elements(s) \cup {x}
<1>1. PICK t : t = Append(s, x) OBVIOUS
<1>2. Len(t) = Len(s) + 1 /\ t[Len(s) + 1] = x /\ \A i \in 1..Len(s) : t[i] = s[i]
  BY <1>1, AppendProperties
<1>3. Len(s) \in Nat OBVIOUS
<1>4. \A i : i \in 1..Len(t) <=> i \in 1..Len(s) \/ i = Len(s) + 1 BY <1>2, <1>3
<1>5. Elements(t) = Elements(s) \cup {x} BY <1>2, <1>4 DEF Elements
<1> QED BY <1>1, <1>5

LEMMA NoElements == Elements(<<>>) = {}
<1>1. Len(<<>>) = 0 OBVIOUS
<1>2. 1..0 = {} OBVIOUS
<1> QED BY <1>1, <1>2 DEF Elements

LEMMA GivenSame ==
    ASSUME NEW O, NEW q, NEW n \in Nat, ~(O[n + 1][1] = "data-dir" /\ IsOwner(O, q, n + 1))
    PROVE  GivenTo(O, q, n + 1) = GivenTo(O, q, n)
<1>1. GivenTo(O, q, n + 1) =
         GivenTo(O, q, n) \cup (IF O[n + 1][1] = "data-dir" /\ IsOwner(O, q, n + 1)
                                THEN {O[n + 1][2]} ELSE {})
  BY GivenNext
<1> QED BY <1>1

LEMMA CollectedStart ==
    ASSUME NEW O, NEW n \in Nat \ {0}, O[n][1] = "v3-engine-id"
    PROVE  IsEngine(O, n, n) /\ Collected(O, n, n, <<>>, <<>>)
<1>1. IsEngine(O, n, n)
  <2>1. (n + 1)..n = {} OBVIOUS
  <2> QED BY <2>1 DEF IsEngine
<1>2. GivenTo(O, n, n) = {}
  <2>1. \A j \in 1..n : ~IsOwner(O, n, j) BY DEF IsOwner
  <2> QED BY <2>1, Zenon DEF GivenTo
<1>3. PICK s : s = <<>> OBVIOUS
<1>4. Len(s) = 0 /\ 1..0 = {} /\ (n + 1)..n = {} BY <1>3
<1>5. PICK p : p = [i \in 1..Len(s) |-> 0] OBVIOUS
<1>6. p \in [1..Len(s) -> (n + 1)..n] BY <1>4, <1>5
<1>7. Elements(s) = GivenTo(O, n, n) BY <1>2, <1>3, NoElements
<1>8. Collected(O, n, n, s, s) BY <1>4, <1>6, <1>7 DEF Collected
<1> QED BY <1>1, <1>3, <1>8

\* Where the options of the contexts are.
At(O, k, n, cs, p) ==
    /\ \A i \in 1..Len(cs) : /\ O[p[i]][1] = "v3-context-engine-id"
                             /\ cs[i].id = O[p[i]][2]
                             /\ Elements(cs[i].dirs) = GivenTo(O, p[i], n)
    /\ \A m \in (k + 1)..n : O[m][1] = "v3-context-engine-id" => \E i \in 1..Len(cs) : p[i] = m
    /\ \A i, j \in 1..Len(cs) : i < j => p[i] < p[j]

LEMMA CollectedAt ==
    ASSUME NEW O, NEW k, NEW n, NEW ds, NEW cs
    PROVE  Collected(O, k, n, ds, cs) <=>
              /\ Elements(ds) = GivenTo(O, k, n)
              /\ \E p \in [1..Len(cs) -> (k + 1)..n] : At(O, k, n, cs, p)
BY Zenon DEF Collected, At

LEMMA EngineNext ==
    ASSUME NEW O, NEW k, NEW n \in Nat, IsEngine(O, k, n), O[n + 1][1] # "v3-engine-id"
    PROVE  IsEngine(O, k, n + 1)
BY DEF IsEngine

LEMMA CollectedElse ==
    ASSUME NEW O, NEW k, NEW n \in Nat, IsEngine(O, k, n), NEW ds, NEW cs, Len(cs) \in Nat,
           Collected(O, k, n, ds, cs), O[n + 1][1] \notin OWNERS \cup {"data-dir"}
    PROVE  Collected(O, k, n + 1, ds, cs)
<1>1. ASSUME NEW q PROVE GivenTo(O, q, n + 1) = GivenTo(O, q, n)
  <2>1. O[n + 1][1] # "data-dir" OBVIOUS
  <2> QED BY <2>1, GivenSame
<1>2. Elements(ds) = GivenTo(O, k, n) BY CollectedAt
<1>3. PICK p \in [1..Len(cs) -> (k + 1)..n] : At(O, k, n, cs, p) BY CollectedAt
<1>4. k \in 1..n BY DEF IsEngine
<1>5. p \in [1..Len(cs) -> (k + 1)..(n + 1)]
  <2>1. (k + 1)..n \subseteq (k + 1)..(n + 1) BY <1>4
  <2> QED BY <2>1
<1>6. \A m \in (k + 1)..(n + 1) : O[m][1] = "v3-context-engine-id" => m \in (k + 1)..n
  BY <1>4 DEF OWNERS
<1>7. At(O, k, n + 1, cs, p) BY <1>1, <1>3, <1>6 DEF At
<1> QED BY <1>1, <1>2, <1>5, <1>7, CollectedAt

LEMMA CollectedContext ==
    ASSUME NEW O, NEW k, NEW n \in Nat, IsEngine(O, k, n), NEW ds, NEW cs, Len(cs) \in Nat,
           Collected(O, k, n, ds, cs), O[n + 1][1] = "v3-context-engine-id",
           NEW ct, Len(ct) = Len(cs) + 1, \A i \in 1..Len(cs) : ct[i] = cs[i],
           ct[Len(cs) + 1] = [id |-> O[n + 1][2], dirs |-> <<>>]
    PROVE  Collected(O, k, n + 1, ds, ct)
<1>1. ASSUME NEW q PROVE GivenTo(O, q, n + 1) = GivenTo(O, q, n)
  <2>1. O[n + 1][1] # "data-dir" OBVIOUS
  <2> QED BY <2>1, GivenSame
<1>2. Elements(ds) = GivenTo(O, k, n) BY CollectedAt
<1>3. PICK p \in [1..Len(cs) -> (k + 1)..n] : At(O, k, n, cs, p) BY CollectedAt
<1>4. k \in 1..n BY DEF IsEngine
<1>5. PICK L : L = Len(cs) OBVIOUS
<1>6. PICK f : f = [i \in 1..(L + 1) |-> IF i = L + 1 THEN n + 1 ELSE p[i]] OBVIOUS
<1>7. f \in [1..Len(ct) -> (k + 1)..(n + 1)]
  <2>1. ASSUME NEW i \in 1..(L + 1) PROVE f[i] \in (k + 1)..(n + 1)
    <3>1. CASE i = L + 1 BY <1>4, <1>6, <3>1
    <3>2. CASE i # L + 1
      <4>1. i \in 1..L BY <1>5, <3>2
      <4>2. f[i] = p[i] /\ p[i] \in (k + 1)..n BY <1>5, <1>6, <3>2, <4>1
      <4> QED BY <1>4, <4>2
    <3> QED BY <3>1, <3>2
  <2> QED BY <1>5, <1>6, <2>1
<1>8. GivenTo(O, n + 1, n + 1) = {}
  <2>1. \A j \in 1..(n + 1) : ~IsOwner(O, n + 1, j) BY DEF IsOwner
  <2> QED BY <2>1, Zenon DEF GivenTo
<1>9. ASSUME NEW i \in 1..Len(ct)
      PROVE  /\ O[f[i]][1] = "v3-context-engine-id" /\ ct[i].id = O[f[i]][2]
             /\ Elements(ct[i].dirs) = GivenTo(O, f[i], n + 1)
  <2>1. CASE i = L + 1
    <3>1. f[i] = n + 1 /\ ct[i].id = O[n + 1][2] /\ ct[i].dirs = <<>> BY <1>5, <1>6, <2>1
    <3> QED BY <1>8, <3>1, NoElements
  <2>2. CASE i # L + 1
    <3>1. i \in 1..L BY <1>5, <2>2
    <3>2. f[i] = p[i] /\ ct[i] = cs[i] BY <1>5, <1>6, <2>2, <3>1
    <3> QED BY <1>1, <1>3, <1>5, <3>1, <3>2 DEF At
  <2> QED BY <2>1, <2>2
<1>10. ASSUME NEW m \in (k + 1)..(n + 1), O[m][1] = "v3-context-engine-id"
       PROVE  \E i \in 1..Len(ct) : f[i] = m
  <2>1. CASE m = n + 1
    <3>1. L + 1 \in 1..Len(ct) /\ f[L + 1] = m BY <1>5, <1>6, <2>1
    <3> QED BY <3>1
  <2>2. CASE m # n + 1
    <3>1. m \in (k + 1)..n
      <4>1. k \in Int /\ m \in Int /\ k + 1 <= m /\ m <= n + 1 BY <1>4
      <4> QED BY <2>2, <4>1
    <3>2. PICK i \in 1..L : p[i] = m BY <1>3, <1>5, <1>10, <3>1 DEF At
    <3>3. i \in 1..Len(ct) /\ f[i] = m BY <1>5, <1>6, <3>2
    <3> QED BY <3>3
  <2> QED BY <2>1, <2>2
<1>11. ASSUME NEW i \in 1..Len(ct), NEW j \in 1..Len(ct), i < j PROVE f[i] < f[j]
  <2>1. i \in 1..L /\ f[i] = p[i] /\ p[i] \in (k + 1)..n BY <1>5, <1>6, <1>11
  <2>2. CASE j = L + 1
    <3>1. f[j] = n + 1 BY <1>5, <1>6, <2>2
    <3> QED BY <1>4, <2>1, <3>1
  <2>3. CASE j # L + 1
    <3>1. j \in 1..L /\ f[j] = p[j] BY <1>5, <1>6, <2>3
    <3> QED BY <1>3, <1>5, <1>11, <2>1, <3>1 DEF At
  <2> QED BY <2>2, <2>3
<1>12. At(O, k, n + 1, ct, f) BY <1>9, <1>10, <1>11 DEF At
<1> QED BY <1>1, <1>2, <1>7, <1>12, CollectedAt

LEMMA CollectedDir ==
    ASSUME NEW O, NEW k, NEW n \in Nat, IsEngine(O, k, n), NEW ds, NEW cs, Len(cs) = 0,
           Collected(O, k, n, ds, cs), O[n + 1][1] = "data-dir",
           NEW dt, Elements(dt) = Elements(ds) \cup {O[n + 1][2]}
    PROVE  Collected(O, k, n + 1, dt, cs)
<1>1. Elements(ds) = GivenTo(O, k, n) BY CollectedAt
<1>2. PICK p \in [1..Len(cs) -> (k + 1)..n] : At(O, k, n, cs, p) BY CollectedAt
<1>3. /\ k \in 1..n /\ O[k][1] = "v3-engine-id"
      /\ \A j \in (k + 1)..n : O[j][1] # "v3-engine-id"
  BY DEF IsEngine
<1>4. \A j \in (k + 1)..n : O[j][1] # "v3-context-engine-id" BY <1>2 DEF At
<1>5. IsOwner(O, k, n + 1)
  <2>1. (n + 1) - 1 = n OBVIOUS
  <2> QED BY <1>3, <1>4, <2>1 DEF IsOwner, OWNERS
<1>6. GivenTo(O, k, n + 1) = GivenTo(O, k, n) \cup {O[n + 1][2]} BY <1>5, GivenNext
<1>7. At(O, k, n + 1, cs, p)
  <2>1. \A m \in (k + 1)..(n + 1) : O[m][1] # "v3-context-engine-id"
    <3>1. \A m \in (k + 1)..(n + 1) : m \in (k + 1)..n \/ m = n + 1 BY <1>3
    <3> QED BY <1>4, <3>1
  <2> QED BY <2>1 DEF At
<1>8. p \in [1..Len(cs) -> (k + 1)..(n + 1)]
  <2>1. (k + 1)..n \subseteq (k + 1)..(n + 1) BY <1>3
  <2> QED BY <2>1
<1> QED BY <1>1, <1>6, <1>7, <1>8, CollectedAt

LEMMA CollectedContextDir ==
    ASSUME NEW O, NEW k, NEW n \in Nat, IsEngine(O, k, n), NEW ds, NEW cs, Len(cs) \in Nat \ {0},
           Collected(O, k, n, ds, cs), O[n + 1][1] = "data-dir",
           NEW ct, Len(ct) = Len(cs), \A i \in 1..Len(cs) : i # Len(cs) => ct[i] = cs[i],
           ct[Len(cs)].id = cs[Len(cs)].id,
           Elements(ct[Len(cs)].dirs) = Elements(cs[Len(cs)].dirs) \cup {O[n + 1][2]}
    PROVE  Collected(O, k, n + 1, ds, ct)
<1>1. Elements(ds) = GivenTo(O, k, n) BY CollectedAt
<1>2. PICK p \in [1..Len(cs) -> (k + 1)..n] : At(O, k, n, cs, p) BY CollectedAt
<1>3. /\ k \in 1..n /\ O[k][1] = "v3-engine-id"
      /\ \A j \in (k + 1)..n : O[j][1] # "v3-engine-id"
  BY DEF IsEngine
<1>4. PICK L : L = Len(cs) OBVIOUS
<1>5. PICK q : q = p[L] OBVIOUS
<1>6. q \in (k + 1)..n /\ O[q][1] = "v3-context-engine-id" BY <1>2, <1>4, <1>5 DEF At
<1>7. ASSUME NEW j \in (q + 1)..n PROVE O[j][1] \notin OWNERS
  <2>1. j \in (k + 1)..n /\ j > q BY <1>3, <1>6
  <2>2. ASSUME O[j][1] = "v3-context-engine-id" PROVE FALSE
    <3>1. PICK i \in 1..L : p[i] = j BY <1>2, <1>4, <2>1, <2>2 DEF At
    <3>2. i = L \/ p[i] < p[L] BY <1>2, <1>4, <3>1 DEF At
    <3> QED BY <1>3, <1>5, <1>6, <2>1, <3>1, <3>2
  <2> QED BY <1>3, <2>1, <2>2 DEF OWNERS
<1>8. IsOwner(O, q, n + 1)
  <2>1. (n + 1) - 1 = n /\ q \in 1..n BY <1>3, <1>6
  <2> QED BY <1>6, <1>7, <2>1 DEF IsOwner, OWNERS
<1>9. ASSUME NEW o \in 1..n, o < q PROVE ~IsOwner(O, o, n + 1)
  <2>1. q \in (o + 1)..((n + 1) - 1) /\ O[q][1] \in OWNERS BY <1>3, <1>6, <1>9 DEF OWNERS
  <2> QED BY <2>1 DEF IsOwner
<1>10. GivenTo(O, q, n + 1) = GivenTo(O, q, n) \cup {O[n + 1][2]} BY <1>8, GivenNext
<1>11. ASSUME NEW o \in 1..n, o < q PROVE GivenTo(O, o, n + 1) = GivenTo(O, o, n)
  <2>1. ~IsOwner(O, o, n + 1) BY <1>9, <1>11
  <2> QED BY <2>1, GivenSame
<1>12. k \in 1..n /\ k < q BY <1>3, <1>6
<1>13. ASSUME NEW i \in 1..Len(ct)
       PROVE  /\ O[p[i]][1] = "v3-context-engine-id" /\ ct[i].id = O[p[i]][2]
              /\ Elements(ct[i].dirs) = GivenTo(O, p[i], n + 1)
  <2>1. /\ O[p[i]][1] = "v3-context-engine-id" /\ cs[i].id = O[p[i]][2]
        /\ Elements(cs[i].dirs) = GivenTo(O, p[i], n) /\ p[i] \in (k + 1)..n
    BY <1>2 DEF At
  <2>2. CASE i = L BY <1>4, <1>5, <1>10, <2>1, <2>2
  <2>3. CASE i # L
    <3>1. ct[i] = cs[i] BY <1>4, <2>3
    <3>2. p[i] < q BY <1>2, <1>4, <1>5, <2>3 DEF At
    <3>3. p[i] \in 1..n BY <1>3, <2>1
    <3> QED BY <1>11, <2>1, <3>1, <3>2, <3>3
  <2> QED BY <2>2, <2>3
<1>14. \A m \in (k + 1)..(n + 1) : O[m][1] = "v3-context-engine-id" => m \in (k + 1)..n
  <2>1. \A m \in (k + 1)..(n + 1) : m \in (k + 1)..n \/ m = n + 1 BY <1>3
  <2> QED BY <2>1
<1>15. At(O, k, n + 1, ct, p) BY <1>2, <1>13, <1>14 DEF At
<1>16. p \in [1..Len(ct) -> (k + 1)..(n + 1)]
  <2>1. (k + 1)..n \subseteq (k + 1)..(n + 1) BY <1>3
  <2> QED BY <2>1
<1> QED BY <1>1, <1>11, <1>12, <1>15, <1>16, CollectedAt

\* What follows the next engine, or the end, adds nothing to this one.
LEMMA Collected1 ==
    ASSUME NEW O, WellFormed(O), NEW k, NEW n \in Nat, n + 1 \in 1..Len(O),
           O[n + 1][1] \in {"v3-engine-id", "end-of-options"}, IsEngine(O, k, n)
    PROVE  /\ \A q \in 1..n : GivenTo(O, q, Len(O)) = GivenTo(O, q, n)
           /\ ContextsIn(O, k, Len(O)) = {m \in (k + 1)..n : O[m][1] = "v3-context-engine-id"}
<1>1. Len(O) \in Nat /\ \A i \in 1..(Len(O) - 1) : O[i][1] \in OptionNames
  BY Zenon DEF WellFormed
<1>2. O[n + 1][1] = "v3-engine-id" \/ n + 1 = Len(O)
  <2>1. ASSUME O[n + 1][1] = "end-of-options" PROVE n + 1 = Len(O)
    <3>1. O[n + 1][1] \notin OptionNames BY <2>1 DEF OptionNames
    <3> QED BY <1>1, <3>1
  <2> QED BY <2>1
<1>3. /\ k \in 1..n /\ O[k][1] = "v3-engine-id"
      /\ \A j \in (k + 1)..n : O[j][1] # "v3-engine-id"
  BY DEF IsEngine
<1>4. ASSUME NEW q \in 1..n PROVE GivenTo(O, q, Len(O)) = GivenTo(O, q, n)
  <2>1. ASSUME NEW m \in 1..Len(O), O[m][1] = "data-dir", IsOwner(O, q, m) PROVE m \in 1..n
    <3>1. SUFFICES ASSUME m > n PROVE FALSE BY <1>1
    <3>2. m # n + 1 BY <2>1
    <3>3. O[n + 1][1] = "v3-engine-id" BY <1>1, <1>2, <3>1, <3>2
    <3>4. n + 1 \in (q + 1)..(m - 1) BY <1>1, <3>1, <3>2
    <3> QED BY <2>1, <3>3, <3>4 DEF IsOwner, OWNERS
  <2>2. \A m \in 1..n : m \in 1..Len(O) BY <1>1
  <2> QED BY <2>1, <2>2, Zenon DEF GivenTo
<1>5. ASSUME NEW m
      PROVE  m \in ContextsIn(O, k, Len(O)) <=> m \in (k + 1)..n /\ O[m][1] = "v3-context-engine-id"
  <2>1. ASSUME m \in ContextsIn(O, k, Len(O)) PROVE m \in (k + 1)..n /\ O[m][1] = "v3-context-engine-id"
    <3>1. /\ m \in 1..Len(O) /\ O[m][1] = "v3-context-engine-id"
          /\ k <= m /\ \A j \in (k + 1)..m : O[j][1] # "v3-engine-id"
      BY <2>1 DEF ContextsIn, IsEngine
    <3>2. m # k /\ m # n + 1 BY <1>3, <3>1
    <3>3. m <= n
      <4>1. SUFFICES ASSUME m > n PROVE FALSE BY <1>1, <3>1
      <4>2. O[n + 1][1] = "v3-engine-id" BY <1>1, <1>2, <3>1, <3>2, <4>1
      <4>3. n + 1 \in (k + 1)..m BY <1>1, <1>3, <3>1, <4>1
      <4> QED BY <3>1, <4>2, <4>3
    <3> QED BY <1>1, <1>3, <3>1, <3>2, <3>3
  <2>2. ASSUME m \in (k + 1)..n, O[m][1] = "v3-context-engine-id" PROVE m \in ContextsIn(O, k, Len(O))
    <3>1. m \in 1..Len(O) /\ k \in 1..m BY <1>1, <1>3, <2>2
    <3>2. \A j \in (k + 1)..m : O[j][1] # "v3-engine-id" BY <1>3, <2>2
    <3> QED BY <1>3, <2>2, <3>1, <3>2 DEF ContextsIn, IsEngine
  <2> QED BY <2>1, <2>2
<1> QED BY <1>4, <1>5

LEMMA Completed ==
    ASSUME NEW O, WellFormed(O), NEW k, NEW n \in Nat, n + 1 \in 1..Len(O),
           O[n + 1][1] \in {"v3-engine-id", "end-of-options"}, IsEngine(O, k, n),
           NEW ds, NEW cs, Len(cs) \in Nat, Collected(O, k, n, ds, cs)
    PROVE  /\ Len(cs) # 0 => {AskedAt(O[k][2], ds, cs, i) : i \in 1..Len(cs)} = AsksIn(O, k)
           /\ Len(cs) = 0 => \A one : Len(one) = 1 /\ one[1] = [id |-> SELF_LABEL, dirs |-> <<>>] =>
                 {AskedAt(O[k][2], ds, one, i) : i \in 1..Len(one)} = AsksIn(O, k)
<1>1. /\ \A q \in 1..n : GivenTo(O, q, Len(O)) = GivenTo(O, q, n)
      /\ ContextsIn(O, k, Len(O)) = {m \in (k + 1)..n : O[m][1] = "v3-context-engine-id"}
  BY Collected1
<1>2. k \in 1..n BY DEF IsEngine
<1>3. Elements(ds) = GivenTo(O, k, Len(O)) BY <1>1, <1>2, CollectedAt
<1>4. PICK p \in [1..Len(cs) -> (k + 1)..n] : At(O, k, n, cs, p) BY CollectedAt
<1>5. ASSUME Len(cs) # 0 PROVE {AskedAt(O[k][2], ds, cs, i) : i \in 1..Len(cs)} = AsksIn(O, k)
  <2>1. ASSUME NEW i \in 1..Len(cs)
        PROVE  /\ p[i] \in ContextsIn(O, k, Len(O))
               /\ AskedAt(O[k][2], ds, cs, i) = Ask(O, k, p[i])
    <3>1. /\ O[p[i]][1] = "v3-context-engine-id" /\ cs[i].id = O[p[i]][2]
          /\ Elements(cs[i].dirs) = GivenTo(O, p[i], n) /\ p[i] \in (k + 1)..n
      BY <1>4 DEF At
    <3>2. p[i] \in 1..n BY <1>2, <3>1
    <3>3. Elements(cs[i].dirs) = GivenTo(O, p[i], Len(O)) BY <1>1, <3>1, <3>2
    <3>4. AskedAt(O[k][2], ds, cs, i) = Ask(O, k, p[i])
      BY <1>3, <3>1, <3>3, Zenon DEF AskedAt, Ask
    <3> QED BY <1>1, <3>1, <3>4
  <2>2. ASSUME NEW m \in ContextsIn(O, k, Len(O)) PROVE \E i \in 1..Len(cs) : p[i] = m
    BY <1>1, <1>4, <2>2 DEF At
  <2>3. ContextsIn(O, k, Len(O)) # {}
    <3>1. 1 \in 1..Len(cs) BY <1>5
    <3> QED BY <2>1, <3>1
  <2>4. AsksIn(O, k) = {Ask(O, k, m) : m \in ContextsIn(O, k, Len(O))} BY <2>3, Zenon DEF AsksIn
  <2>5. \A a \in AsksIn(O, k) : \E i \in 1..Len(cs) : a = AskedAt(O[k][2], ds, cs, i)
    BY <2>1, <2>2, <2>4, Zenon
  <2>6. \A i \in 1..Len(cs) : AskedAt(O[k][2], ds, cs, i) \in AsksIn(O, k)
    BY <2>1, <2>4, Zenon
  <2> QED BY <2>5, <2>6, Zenon
<1>6. ASSUME Len(cs) = 0, NEW one, Len(one) = 1, one[1] = [id |-> SELF_LABEL, dirs |-> <<>>]
      PROVE  {AskedAt(O[k][2], ds, one, i) : i \in 1..Len(one)} = AsksIn(O, k)
  <2>1. ContextsIn(O, k, Len(O)) = {} BY <1>1, <1>4, <1>6 DEF At
  <2>2. AsksIn(O, k) = {AskDefault(O, k)} BY <2>1, Zenon DEF AsksIn
  <2>3. one[1].id = SELF_LABEL /\ one[1].dirs = <<>> BY <1>6
  <2>4. Elements(one[1].dirs) = {} BY <2>3, NoElements
  <2>5. FirstGiven(Elements(one[1].dirs), Elements(ds)) = FirstGiven(GivenTo(O, k, Len(O)), {})
    BY <1>3, <2>4, Zenon DEF FirstGiven
  <2>6. AskedAt(O[k][2], ds, one, 1) = AskDefault(O, k)
    BY <2>3, <2>5, Zenon DEF AskedAt, AskDefault
  <2>7. \A i : i \in 1..Len(one) <=> i = 1 BY <1>6
  <2> QED BY <2>2, <2>6, <2>7, Zenon
<1> QED BY <1>5, <1>6

-----------------------------------------------------------------------------
\* What is registered stays.

LEMMA Grows ==
    ASSUME NEW g, NEW h, g \subseteq h, NEW t
    PROVE  /\ \A e, c, i : Held(g, e, c, i) => Held(h, e, c, i)
           /\ \A a : Met(g, t, a) => Met(h, t, a)
           /\ \A O, n : MetUpTo(g, t, O, n) => MetUpTo(h, t, O, n)
<1>1. ASSUME NEW e, NEW c, NEW i, Held(g, e, c, i) PROVE Held(h, e, c, i)
  BY <1>1 DEF Held
<1>2. ASSUME NEW a, Met(g, t, a) PROVE Met(h, t, a)
  BY <1>1, <1>2, Zenon DEF Met
<1>3. ASSUME NEW O, NEW n, MetUpTo(g, t, O, n) PROVE MetUpTo(h, t, O, n)
  BY <1>2, <1>3, Zenon DEF MetUpTo
<1> QED BY <1>1, <1>2, <1>3, Zenon

LEMMA NoOtherGrows ==
    ASSUME NEW g, NEW h, NEW t, NEW O, NoOther(g, t, O), NEW n, h \subseteq g \cup {n},
           NEW k \in EnginesIn(O, Len(O)), NEW a \in AsksIn(O, k), AskedFor(n, t, a)
    PROVE  NoOther(h, t, O)
BY Zenon DEF NoOther

LEMMA MetThrough ==
    ASSUME NEW g, NEW t, NEW O, NEW n \in Nat, NEW k, IsEngine(O, k, n), MetUpTo(g, t, O, k - 1),
           \A a \in AsksIn(O, k) : Met(g, t, a)
    PROVE  MetUpTo(g, t, O, n)
<1>1. /\ k \in 1..n /\ \A j \in (k + 1)..n : O[j][1] # "v3-engine-id"
  BY DEF IsEngine
<1>2. ASSUME NEW j \in EnginesIn(O, n) PROVE j = k \/ j \in EnginesIn(O, k - 1)
  <2>1. j \in 1..n /\ O[j][1] = "v3-engine-id" BY DEF EnginesIn
  <2>2. j \notin (k + 1)..n BY <1>1, <2>1
  <2>3. j = k \/ j \in 1..(k - 1) BY <1>1, <2>1, <2>2
  <2> QED BY <2>1, <2>3 DEF EnginesIn
<1> QED BY <1>2, Zenon DEF MetUpTo

\* At the end of the options all engines are behind.
LEMMA AtEnd ==
    ASSUME NEW O, WellFormed(O), NEW o \in 1..Len(O), O[o][1] = "end-of-options",
           NEW g, NEW t, MetUpTo(g, t, O, o - 1)
    PROVE  MetUpTo(g, t, O, Len(O))
<1>1. Len(O) \in Nat /\ \A i \in 1..(Len(O) - 1) : O[i][1] \in OptionNames
  BY Zenon DEF WellFormed
<1>2. o = Len(O)
  <2>1. O[o][1] \notin OptionNames BY DEF OptionNames
  <2> QED BY <1>1, <2>1
<1>3. EnginesIn(O, Len(O)) \subseteq EnginesIn(O, o - 1)
  BY <1>1, <1>2 DEF EnginesIn
<1> QED BY <1>3, Zenon DEF MetUpTo

\* What is asked for where directories are being scanned.
AskedHere == AskedAt(engine, acc.dirs, acc.contexts, at[1])

LEMMA ElementsGiven ==
    ASSUME NEW S, NEW s \in Seq(S)
    PROVE  Elements(s) = {} <=> s = <<>>
<1>1. CASE s = <<>> BY <1>1, NoElements, Zenon
<1>2. CASE s # <<>>
  <2>1. Len(s) \in Nat /\ Len(s) # 0 BY <1>2, EmptySeq
  <2>2. s[1] \in Elements(s) BY <2>1 DEF Elements
  <2> QED BY <1>2, <2>2
<1> QED BY <1>1, <1>2

LEMMA AskedHereIs ==
    ASSUME Shape, Scanning, pc \in {"scan", "files", "finish"}
    PROVE  /\ AskedHere.engine = engine /\ AskedHere.context = Context.id
           /\ AskedHere.dirs = Elements(Dirs)
           /\ \E k \in EnginesIn(Options, Len(Options)) : AskedHere \in AsksIn(Options, k)
<1>1. /\ at[1] \in 1..Len(acc.contexts) /\ Context \in [id : Values, dirs : Seq(Paths)]
  BY ScannedDir
<1>2. acc.dirs \in Seq(Paths) /\ option \in 1..Len(Options) /\ line \in CommandLines BY DEF Shape
<1>3. AskedHere = [engine |-> engine, context |-> Context.id,
                   dirs |-> FirstGiven(Elements(Context.dirs), Elements(acc.dirs))]
  BY Zenon DEF AskedHere, AskedAt, Context
<1>4. FirstGiven(Elements(Context.dirs), Elements(acc.dirs)) = Elements(Dirs)
  <2>1. PICK c, d : c = Context.dirs /\ d = acc.dirs OBVIOUS
  <2>2. c \in Seq(Paths) /\ d \in Seq(Paths) BY <1>1, <1>2, <2>1
  <2>3. (Elements(c) = {} <=> c = <<>>) /\ (Elements(d) = {} <=> d = <<>>)
    BY <2>2, ElementsGiven
  <2>4. Dirs = IF c # <<>> THEN c ELSE IF d # <<>> THEN d ELSE DEFAULT_DIRS
    BY <2>1, Zenon DEF Dirs
  <2>5. FirstGiven(Elements(c), Elements(d)) = IF Elements(c) # {} THEN Elements(c)
           ELSE IF Elements(d) # {} THEN Elements(d) ELSE Elements(DEFAULT_DIRS)
    BY Zenon DEF FirstGiven, Elements
  <2> QED BY <2>1, <2>3, <2>4, <2>5, Zenon
<1>5. PICK k \in 1..(option - 1) :
         /\ IsEngine(Options, k, option - 1)
         /\ {AskedAt(engine, acc.dirs, acc.contexts, i) : i \in 1..Len(acc.contexts)}
               = AsksIn(Options, k)
  BY Zenon DEF Scanning
<1>6. k \in EnginesIn(Options, Len(Options))
  <2>1. Options[k][1] = "v3-engine-id" BY <1>5 DEF IsEngine
  <2>2. Len(Options) \in Nat BY <1>2, OptionList
  <2>3. k \in 1..Len(Options) BY <1>2, <2>2
  <2> QED BY <2>1, <2>3 DEF EnginesIn
<1>7. AskedHere \in AsksIn(Options, k) BY <1>1, <1>5, Zenon DEF AskedHere
<1> QED BY <1>3, <1>4, <1>6, <1>7

-----------------------------------------------------------------------------
\* Every step delivers what it is about.

LEMMA DeliveredInit == ASSUME Init PROVE Delivered
<1>1. /\ line \in CommandLines /\ pc = "load" /\ option = 1 /\ engine = ""
      /\ data_files = {} /\ registered = {}
  BY DEF Init
<1>2. Options[1][1] = "v3-engine-id"
  <2>1. WellFormed(Options) BY <1>1, OptionsWellFormed
  <2> QED BY <2>1, Zenon DEF WellFormed
<1>3. EnginesIn(Options, option - 1) = {}
  <2>1. option = 1 BY <1>1, Zenon
  <2>2. 1..(option - 1) = {} BY <2>1
  <2> QED BY <2>2, Zenon DEF EnginesIn
<1>4. MetUpTo(registered, tree, Options, option - 1) BY <1>3, Zenon DEF MetUpTo
<1>5. Between BY <1>1, <1>2, <1>4 DEF Between
<1>6. Reading /\ Scanning /\ Listing /\ Finished BY <1>1 DEF Reading, Scanning, Listing, Finished
<1>7. NoOther(registered, tree, Options) BY <1>1, Zenon DEF NoOther
<1> QED BY <1>5, <1>6, <1>7 DEF Delivered

LEMMA SameOptions == ASSUME UNCHANGED line PROVE Options' = Options /\ full' = full
BY DEF Options, full

\* The parts of Delivered, and those that a step leaves.
LEMMA DeliveredParts ==
    ASSUME full, Delivered
    PROVE  /\ Between /\ Reading /\ Scanning /\ Listing /\ Finished
           /\ NoOther(registered, tree, Options)
BY DEF Delivered

LEMMA DeliveredIf ==
    ASSUME (Between /\ Reading /\ Scanning /\ Listing /\ Finished)',
           NoOther(registered, tree, Options)'
    PROVE  Delivered'
BY DEF Delivered

LEMMA NoOtherStays ==
    ASSUME full, Delivered, UNCHANGED <<tree, line, registered>>
    PROVE  NoOther(registered, tree, Options)'
<1>1. NoOther(registered, tree, Options) BY DeliveredParts
<1> QED BY <1>1, SameOptions

\* The end, and requests.
LEMMA DeliveredEnd ==
    ASSUME full, Delivered, UNCHANGED <<tree, line, registered>>,
           pc' = "ended" \/ (pc = "serve" /\ pc' = "serve")
    PROVE  Delivered'
<1>1. NoOther(registered, tree, Options)' BY NoOtherStays
<1>2. (Between /\ Reading /\ Scanning /\ Listing)' BY DEF Between, Reading, Scanning, Listing
<1>3. Finished'
  <2>1. Options' = Options BY SameOptions
  <2>2. Finished BY DeliveredParts
  <2> QED BY <2>1, <2>2 DEF Finished
<1> QED BY <1>1, <1>2, <1>3, DeliveredIf

\* Modules.
LEMMA DeliveredModules ==
    ASSUME full, Delivered, UNCHANGED <<tree, line, registered, engine, option, data_files>>,
           pc \in {"load", "init"}, pc' \in {"init", "options"}
    PROVE  Delivered'
<1>1. NoOther(registered, tree, Options)' BY NoOtherStays
<1>2. /\ Options[option][1] = "v3-engine-id" /\ engine = "" /\ data_files = {}
      /\ MetUpTo(registered, tree, Options, option - 1)
  BY DeliveredParts DEF Between
<1>3. Options' = Options BY SameOptions
<1>4. Between' BY <1>2, <1>3 DEF Between
<1>5. (Reading /\ Scanning /\ Listing /\ Finished)'
  BY <1>2 DEF Reading, Scanning, Listing, Finished
<1> QED BY <1>1, <1>4, <1>5, DeliveredIf

\* Options.
LEMMA DeliveredStart ==
    ASSUME Shape, full, Delivered, StartEngine
    PROVE  Delivered'
<1>1. /\ pc = "options" /\ pc' = "options" /\ Opt[1] = "v3-engine-id" /\ engine = ""
      /\ engine' = Opt[2] /\ acc' = FreshEngine /\ option' = option + 1
      /\ UNCHANGED <<tree, line, data_files, registered>>
  BY DEF StartEngine, contextVars
<1>2. Options' = Options BY <1>1, SameOptions
<1>3. Options[option][1] = "v3-engine-id" /\ data_files = {} /\ engine' = Options[option][2]
      /\ MetUpTo(registered, tree, Options, option - 1)
  BY <1>1, DeliveredParts DEF Between, Opt
<1>4. option \in Nat \ {0} /\ Options[option][2] # ""
  <2>1. WellFormed(Options) /\ option \in 1..Len(Options) BY OptionsWellFormed DEF Shape
  <2>2. /\ Len(Options) \in Nat /\ Options[Len(Options)][1] = "end-of-options"
        /\ \A i \in 1..(Len(Options) - 1) : Options[i][1] = "v3-engine-id" => Options[i][2] # ""
    BY <2>1, Zenon DEF WellFormed
  <2>3. option # Len(Options) BY <1>3, <2>2
  <2>4. PICK o, n : o = option /\ n = Len(Options) OBVIOUS
  <2>5. n \in Nat /\ o \in 1..n /\ o # n BY <2>1, <2>2, <2>3, <2>4, Zenon
  <2>6. o \in Nat \ {0} /\ o \in 1..(n - 1) BY <2>5
  <2> QED BY <1>3, <2>2, <2>4, <2>6, Zenon
<1>5. acc'.dirs = <<>> /\ acc'.contexts = <<>> BY <1>1 DEF FreshEngine
<1>6. IsEngine(Options, option, option) /\ Collected(Options, option, option, <<>>, <<>>)
  BY <1>3, <1>4, CollectedStart
<1>7. Reading'
  <2>1. option' = option + 1 /\ option \in Nat \ {0} BY <1>1, <1>4, Zenon
  <2>2. option \in 1..(option' - 1) /\ option' - 1 = option BY <2>1
  <2> QED BY <1>1, <1>2, <1>3, <1>5, <1>6, <2>2 DEF Reading
<1>8. (Between /\ Scanning /\ Listing /\ Finished)'
  BY <1>1, <1>3, <1>4 DEF Between, Scanning, Listing, Finished
<1>9. NoOther(registered, tree, Options)' BY <1>1, NoOtherStays
<1> QED BY <1>7, <1>8, <1>9, DeliveredIf

\* An option that is read into what is collected.
LEMMA DeliveredOption ==
    ASSUME Shape, full, Delivered, NEW new, TakeOption(new), pc = "options",
           Opt[1] \notin {"v3-engine-id", "end-of-options"},
           \A k \in 1..(option - 1) :
              /\ IsEngine(Options, k, option - 1)
              /\ Collected(Options, k, option - 1, acc.dirs, acc.contexts)
              => Collected(Options, k, option, new.dirs, new.contexts)
    PROVE  Delivered'
<1>1. /\ pc' = "options" /\ acc' = new /\ option' = option + 1
      /\ UNCHANGED <<tree, line, engine, data_files, registered>>
  BY DEF TakeOption, contextVars
<1>2. Options' = Options BY <1>1, SameOptions
<1>3. engine # "" BY DeliveredParts DEF Between, Opt
<1>4. option \in Nat \ {0} BY DEF Shape
<1>5. PICK k \in 1..(option - 1) : /\ IsEngine(Options, k, option - 1) /\ engine = Options[k][2]
                                   /\ Collected(Options, k, option - 1, acc.dirs, acc.contexts)
                                   /\ MetUpTo(registered, tree, Options, k - 1)
  BY <1>3, DeliveredParts, Zenon DEF Reading
<1>6. data_files = {} BY <1>3, DeliveredParts DEF Reading
<1>7. IsEngine(Options, k, option)
  <2>1. option - 1 \in Nat /\ (option - 1) + 1 = option BY <1>4
  <2>2. Options[option][1] # "v3-engine-id" BY DEF Opt
  <2> QED BY <1>5, <2>1, <2>2, EngineNext
<1>8. Collected(Options, k, option, new.dirs, new.contexts) BY <1>5
<1>9. Reading'
  <2>1. k \in 1..(option' - 1) /\ option' - 1 = option BY <1>1, <1>4
  <2> QED BY <1>1, <1>2, <1>5, <1>6, <1>7, <1>8, <2>1 DEF Reading
<1>10. (Between /\ Scanning /\ Listing /\ Finished)'
  BY <1>1, <1>3 DEF Between, Scanning, Listing, Finished
<1>11. NoOther(registered, tree, Options)' BY <1>1, NoOtherStays
<1> QED BY <1>9, <1>10, <1>11, DeliveredIf

\* The options that lists are made of.
LEMMA DeliveredOptions ==
    ASSUME Shape, full, Delivered,
           ContextEngine \/ DataDir \/ Endpoint \/ User \/ Key \/ Proto
    PROVE  Delivered'
<1>0. /\ {"contexts", "dirs"} \subseteq DOMAIN acc /\ line \in CommandLines
      /\ option \in 1..Len(Options)
      /\ acc.dirs \in Seq(Paths) /\ acc.contexts \in Seq([id : Values, dirs : Seq(Paths)])
  BY DEF Shape
<1>1. option - 1 \in Nat /\ (option - 1) + 1 = option BY <1>0, OptionList
<1>2. PICK cs, ds, L : cs = acc.contexts /\ ds = acc.dirs /\ L = Len(cs) OBVIOUS
<1>3. cs \in Seq([id : Values, dirs : Seq(Paths)]) /\ ds \in Seq(Paths) /\ L \in Nat
  BY <1>0, <1>2
<1>4. CASE Fail
  <2>1. pc' = "ended" /\ UNCHANGED <<tree, line, registered>> BY <1>4 DEF Fail, contextVars
  <2> QED BY <2>1, DeliveredEnd
<1>5. CASE ContextEngine
  <2> DEFINE new == [acc EXCEPT !.contexts = Append(@, [id |-> Opt[2], dirs |-> <<>>])]
  <2>1. pc = "options" /\ Opt[1] = "v3-context-engine-id" /\ TakeOption(new)
    BY <1>5 DEF ContextEngine
  <2>2. PICK c : c = [id |-> Opt[2], dirs |-> <<>>] OBVIOUS
  <2>3. new.dirs = ds /\ new.contexts = Append(cs, c) BY <1>0, <1>2, <2>2
  <2>4. c \in [id : Values, dirs : Seq(Paths)]
    <3>1. <<>> \in Seq(Paths) BY EmptySeq
    <3>2. Opt[2] \in Values BY <1>0, <2>1, OptionList DEF Opt
    <3> QED BY <2>2, <3>1, <3>2
  <2>5. PICK ct : ct = Append(cs, c) OBVIOUS
  <2>6. Len(ct) = Len(cs) + 1 /\ ct[Len(cs) + 1] = c /\ \A i \in 1..Len(cs) : ct[i] = cs[i]
    BY <1>3, <2>4, <2>5, AppendProperties
  <2>7. ASSUME NEW k \in 1..(option - 1), IsEngine(Options, k, option - 1),
               Collected(Options, k, option - 1, ds, cs)
        PROVE  Collected(Options, k, option, ds, ct)
    <3>1. PICK n, o : n \in Nat /\ n = option - 1 /\ o = n + 1 /\ o = option BY <1>1
    <3>2. Collected(Options, k, n + 1, ds, ct)
      <4>1. ct[Len(cs) + 1] = [id |-> Options[n + 1][2], dirs |-> <<>>]
        BY <2>2, <2>6, <3>1, Zenon DEF Opt
      <4>2. Options[n + 1][1] = "v3-context-engine-id" BY <2>1, <3>1, Zenon DEF Opt
      <4>3. IsEngine(Options, k, n) /\ Collected(Options, k, n, ds, cs) BY <2>7, <3>1, Zenon
      <4>4. Len(cs) \in Nat BY <1>2, <1>3
      <4> QED BY <3>1, <2>6, <4>1, <4>2, <4>3, <4>4, CollectedContext
    <3> QED BY <3>1, <3>2, Zenon
  <2> HIDE DEF new
  <2>8. \A k \in 1..(option - 1) :
           /\ IsEngine(Options, k, option - 1)
           /\ Collected(Options, k, option - 1, acc.dirs, acc.contexts)
           => Collected(Options, k, option, new.dirs, new.contexts)
    BY <1>2, <2>3, <2>5, <2>7, Zenon
  <2>9. Opt[1] \notin {"v3-engine-id", "end-of-options"} BY <2>1
  <2> QED BY <2>1, <2>8, <2>9, DeliveredOption
<1>6. CASE DataDir
  <2>1. pc = "options" /\ Opt[1] = "data-dir" BY <1>6 DEF DataDir
  <2>2. Opt[2] \in Paths BY <1>0, <2>1, OptionList DEF Opt
  <2>3. PICK n, o : n \in Nat /\ n = option - 1 /\ o = n + 1 /\ o = option BY <1>1
  <2>4. Options[n + 1][1] = "data-dir" /\ Options[n + 1][2] = Opt[2] BY <2>1, <2>3, Zenon DEF Opt
  <2>5. Opt[1] \notin {"v3-engine-id", "end-of-options"} BY <2>1
  <2>6. CASE acc.contexts = <<>>
    <3> DEFINE new == [acc EXCEPT !.dirs = Append(@, Opt[2])]
    <3>1. TakeOption(new) BY <1>6, <2>6 DEF DataDir
    <3>2. PICK dt : dt = Append(ds, Opt[2]) OBVIOUS
    <3>3. new.dirs = dt /\ new.contexts = cs BY <1>0, <1>2, <3>2
    <3>4. Elements(dt) = Elements(ds) \cup {Opt[2]} BY <1>3, <2>2, <3>2, ElementsOf
    <3>5. Len(cs) = 0
      <4>1. Len(<<>>) = 0 OBVIOUS
      <4> QED BY <1>2, <2>6, <4>1
    <3>6. ASSUME NEW k \in 1..(option - 1), IsEngine(Options, k, option - 1),
                 Collected(Options, k, option - 1, ds, cs)
          PROVE  Collected(Options, k, option, dt, cs)
      <4>1. IsEngine(Options, k, n) /\ Collected(Options, k, n, ds, cs) BY <2>3, <3>6, Zenon
      <4>2. Elements(dt) = Elements(ds) \cup {Options[n + 1][2]} BY <2>4, <3>4, Zenon
      <4>3. Collected(Options, k, n + 1, dt, cs) BY <2>3, <2>4, <3>5, <4>1, <4>2, CollectedDir
      <4> QED BY <2>3, <4>3, Zenon
    <3> HIDE DEF new
    <3>7. \A k \in 1..(option - 1) :
             /\ IsEngine(Options, k, option - 1)
             /\ Collected(Options, k, option - 1, acc.dirs, acc.contexts)
             => Collected(Options, k, option, new.dirs, new.contexts)
      BY <1>2, <3>3, <3>6, Zenon
    <3> QED BY <2>1, <2>5, <3>1, <3>7, DeliveredOption
  <2>7. CASE acc.contexts # <<>>
    <3> DEFINE new == [acc EXCEPT !.contexts[Len(acc.contexts)].dirs = Append(@, Opt[2])]
    <3>1. TakeOption(new) BY <1>6, <2>7 DEF DataDir
    <3>2. L \in 1..Len(cs)
      <4>1. cs # <<>> BY <1>2, <2>7
      <4>2. Len(cs) # 0 BY <1>3, <4>1, EmptySeq
      <4> QED BY <1>2, <1>3, <4>2
    <3>3. cs[L] \in [id : Values, dirs : Seq(Paths)] BY <1>3, <3>2, ElementOfSeq
    <3>4. PICK c : c = [cs[L] EXCEPT !.dirs = Append(cs[L].dirs, Opt[2])] OBVIOUS
    <3>5. c.id = cs[L].id /\ c.dirs = Append(cs[L].dirs, Opt[2]) BY <3>3, <3>4
    <3>6. PICK ct : ct = [cs EXCEPT ![L] = c] OBVIOUS
    <3>7. new.dirs = ds /\ new.contexts = ct BY <1>0, <1>2, <3>4, <3>6
    <3>8. c \in [id : Values, dirs : Seq(Paths)]
      <4>1. Append(cs[L].dirs, Opt[2]) \in Seq(Paths) BY <2>2, <3>3, AppendProperties
      <4> QED BY <3>3, <3>4, <4>1
    <3>9. /\ Len(ct) = Len(cs) /\ ct[L] = c
          /\ \A i \in 1..Len(cs) : i # L => ct[i] = cs[i]
      BY <1>3, <3>2, <3>6, <3>8, ExceptSeq
    <3>10. Elements(ct[Len(cs)].dirs) = Elements(cs[Len(cs)].dirs) \cup {Opt[2]}
      <4>1. cs[L].dirs \in Seq(Paths) BY <3>3
      <4>2. Elements(Append(cs[L].dirs, Opt[2])) = Elements(cs[L].dirs) \cup {Opt[2]}
        BY <2>2, <4>1, ElementsOf
      <4> QED BY <1>2, <3>5, <3>9, <4>2, Zenon
    <3>11. ASSUME NEW k \in 1..(option - 1), IsEngine(Options, k, option - 1),
                  Collected(Options, k, option - 1, ds, cs)
           PROVE  Collected(Options, k, option, ds, ct)
      <4>1. IsEngine(Options, k, n) /\ Collected(Options, k, n, ds, cs) BY <2>3, <3>11, Zenon
      <4>2. Elements(ct[Len(cs)].dirs) = Elements(cs[Len(cs)].dirs) \cup {Options[n + 1][2]}
        BY <2>4, <3>10, Zenon
      <4>3. /\ Len(ct) = Len(cs) /\ ct[Len(cs)].id = cs[Len(cs)].id
            /\ \A i \in 1..Len(cs) : i # Len(cs) => ct[i] = cs[i]
        BY <1>2, <3>5, <3>9, Zenon
      <4>4. Len(cs) \in Nat \ {0} BY <1>2, <1>3, <3>2
      <4>5. Collected(Options, k, n + 1, ds, ct)
        BY <2>3, <2>4, <4>1, <4>2, <4>3, <4>4, CollectedContextDir
      <4> QED BY <2>3, <4>5, Zenon
    <3> HIDE DEF new
    <3>12. \A k \in 1..(option - 1) :
              /\ IsEngine(Options, k, option - 1)
              /\ Collected(Options, k, option - 1, acc.dirs, acc.contexts)
              => Collected(Options, k, option, new.dirs, new.contexts)
      BY <1>2, <3>7, <3>11, Zenon
    <3> QED BY <2>1, <2>5, <3>1, <3>12, DeliveredOption
  <2> QED BY <2>6, <2>7
\* Options that are about endpoints and users.
<1>7. ASSUME NEW new, TakeOption(new), pc = "options",
             Opt[1] \notin OWNERS \cup {"data-dir", "end-of-options"},
             new.dirs = acc.dirs, new.contexts = acc.contexts
      PROVE  Delivered'
  <2>1. ASSUME NEW k \in 1..(option - 1), IsEngine(Options, k, option - 1),
               Collected(Options, k, option - 1, ds, cs)
        PROVE  Collected(Options, k, option, ds, cs)
    <3>1. PICK n, o : n \in Nat /\ n = option - 1 /\ o = n + 1 /\ o = option BY <1>1
    <3>2. IsEngine(Options, k, n) /\ Collected(Options, k, n, ds, cs) BY <2>1, <3>1, Zenon
    <3>3. Options[n + 1][1] \notin OWNERS \cup {"data-dir"} BY <1>7, <3>1 DEF Opt
    <3>4. Len(cs) \in Nat BY <1>2, <1>3
    <3>5. Collected(Options, k, n + 1, ds, cs) BY <3>1, <3>2, <3>3, <3>4, CollectedElse
    <3> QED BY <3>1, <3>5, Zenon
  <2>2. \A k \in 1..(option - 1) :
           /\ IsEngine(Options, k, option - 1)
           /\ Collected(Options, k, option - 1, acc.dirs, acc.contexts)
           => Collected(Options, k, option, new.dirs, new.contexts)
    BY <1>2, <1>7, <2>1, Zenon
  <2>3. Opt[1] \notin {"v3-engine-id", "end-of-options"} BY <1>7 DEF OWNERS
  <2> QED BY <1>7, <2>2, <2>3, DeliveredOption
<1>8. CASE Endpoint
  <2> DEFINE new == [acc EXCEPT !.endpoints = @ + 1]
  <2>1. pc = "options" /\ Opt[1] = "agent-udpv4-endpoint" /\ TakeOption(new) BY <1>8 DEF Endpoint
  <2>2. new.dirs = acc.dirs /\ new.contexts = acc.contexts BY <1>0
  <2>3. Opt[1] \notin OWNERS \cup {"data-dir", "end-of-options"} BY <2>1 DEF OWNERS
  <2> HIDE DEF new
  <2> QED BY <1>7, <2>1, <2>2, <2>3
<1>9. CASE User
  <2> DEFINE new == [acc EXCEPT !.users = Append(@, Opt[2])]
  <2>1. pc = "options" /\ Opt[1] = "v3-user" /\ TakeOption(new) BY <1>9 DEF User
  <2>2. new.dirs = acc.dirs /\ new.contexts = acc.contexts BY <1>0
  <2>3. Opt[1] \notin OWNERS \cup {"data-dir", "end-of-options"} BY <2>1 DEF OWNERS
  <2> HIDE DEF new
  <2> QED BY <1>7, <2>1, <2>2, <2>3
<1>10. CASE Key
  <2> DEFINE new == [acc EXCEPT !.keys = @ \cup {<<LastUser, Opt[1]>>}]
  <2>1. pc = "options" /\ Opt[1] \in {"v3-auth-key", "v3-priv-key"} /\ (Fail \/ TakeOption(new))
    BY <1>10 DEF Key
  <2>2. new.dirs = acc.dirs /\ new.contexts = acc.contexts BY <1>0
  <2>3. Opt[1] \notin OWNERS \cup {"data-dir", "end-of-options"} BY <2>1 DEF OWNERS
  <2> HIDE DEF new
  <2> QED BY <1>4, <1>7, <2>1, <2>2, <2>3
<1>11. CASE Proto
  <2> DEFINE new == [acc EXCEPT !.protos = @ \cup {<<LastUser, Opt[1], Opt[2]>>}]
  <2>1. /\ pc = "options" /\ Opt[1] \in {"v3-auth-proto", "v3-priv-proto"}
        /\ Fail \/ TakeOption(new)
    BY <1>11 DEF Proto
  <2>2. new.dirs = acc.dirs /\ new.contexts = acc.contexts BY <1>0
  <2>3. Opt[1] \notin OWNERS \cup {"data-dir", "end-of-options"} BY <2>1 DEF OWNERS
  <2> HIDE DEF new
  <2> QED BY <1>4, <1>7, <2>1, <2>2, <2>3
<1> QED BY <1>5, <1>6, <1>8, <1>9, <1>10, <1>11

LEMMA DeliveredComplete ==
    ASSUME Shape, full, Delivered, CompleteEngine
    PROVE  Delivered'
<1>1. /\ pc = "options" /\ Opt[1] \in {"v3-engine-id", "end-of-options"} /\ engine # ""
      /\ acc' = IF acc.contexts = <<>>
                THEN [acc EXCEPT !.contexts = <<[id |-> SELF_LABEL, dirs |-> <<>>]>>] ELSE acc
      /\ pc' = "scan" /\ at' = <<1, 1>>
      /\ UNCHANGED <<tree, line, option, engine, data_files, registered>>
  BY DEF CompleteEngine, contextVars
<1>2. Options' = Options BY <1>1, SameOptions
<1>3. /\ {"contexts", "dirs"} \subseteq DOMAIN acc /\ line \in CommandLines
      /\ option \in 1..Len(Options)
      /\ acc.dirs \in Seq(Paths) /\ acc.contexts \in Seq([id : Values, dirs : Seq(Paths)])
  BY DEF Shape
<1>4. PICK k \in 1..(option - 1) : /\ IsEngine(Options, k, option - 1) /\ engine = Options[k][2]
                                   /\ Collected(Options, k, option - 1, acc.dirs, acc.contexts)
                                   /\ MetUpTo(registered, tree, Options, k - 1)
  BY <1>1, DeliveredParts, Zenon DEF Reading
<1>5. data_files = {} BY <1>1, DeliveredParts DEF Reading
<1>6. WellFormed(Options) /\ Opt = Options[option] BY <1>3, OptionsWellFormed DEF Opt
<1>7. PICK n, o : n \in Nat /\ n = option - 1 /\ o = n + 1 /\ o = option
  <2>1. option - 1 \in Nat /\ (option - 1) + 1 = option BY <1>3, OptionList
  <2> QED BY <2>1
<1>8. PICK cs, ds, ct : cs = acc.contexts /\ ds = acc.dirs /\ ct = acc'.contexts OBVIOUS
<1>9. /\ acc'.dirs = ds
      /\ ct = IF cs = <<>> THEN <<[id |-> SELF_LABEL, dirs |-> <<>>]>> ELSE cs
  BY <1>1, <1>3, <1>8
<1>10. {AskedAt(engine, ds, ct, i) : i \in 1..Len(ct)} = AsksIn(Options, k)
  <2>1. Len(cs) \in Nat /\ (Len(cs) = 0 <=> cs = <<>>)
    <3>1. cs \in Seq([id : Values, dirs : Seq(Paths)]) BY <1>3, <1>8
    <3> QED BY <3>1, EmptySeq
  <2>2. /\ Options[n + 1][1] \in {"v3-engine-id", "end-of-options"} /\ n + 1 \in 1..Len(Options)
        /\ IsEngine(Options, k, n) /\ Collected(Options, k, n, ds, cs)
    BY <1>1, <1>3, <1>4, <1>6, <1>7, <1>8, Zenon
  <2>3. /\ Len(cs) # 0 => {AskedAt(Options[k][2], ds, cs, i) : i \in 1..Len(cs)} = AsksIn(Options, k)
        /\ Len(cs) = 0 => \A one : Len(one) = 1 /\ one[1] = [id |-> SELF_LABEL, dirs |-> <<>>] =>
              {AskedAt(Options[k][2], ds, one, i) : i \in 1..Len(one)} = AsksIn(Options, k)
    BY <1>6, <1>7, <2>1, <2>2, Completed
  <2>4. CASE cs = <<>>
    <3>1. PICK c : c = [id |-> SELF_LABEL, dirs |-> <<>>] OBVIOUS
    <3>2. ct = <<c>> BY <1>9, <2>4, <3>1, Zenon
    <3>3. Len(ct) = 1 /\ ct[1] = c BY <3>2
    <3>4. Len(cs) = 0 BY <2>1, <2>4
    <3>5. ct[1] = [id |-> SELF_LABEL, dirs |-> <<>>] BY <3>1, <3>3, Zenon
    <3>6. {AskedAt(Options[k][2], ds, ct, i) : i \in 1..Len(ct)} = AsksIn(Options, k)
      <4>1. \A one : Len(one) = 1 /\ one[1] = [id |-> SELF_LABEL, dirs |-> <<>>] =>
               {AskedAt(Options[k][2], ds, one, i) : i \in 1..Len(one)} = AsksIn(Options, k)
        BY <2>3, <3>4, Zenon
      <4> QED BY <3>3, <3>5, <4>1, Zenon
    <3> QED BY <1>4, <3>6, Zenon
  <2>5. CASE cs # <<>>
    <3>1. ct = cs /\ Len(cs) # 0 BY <1>9, <2>1, <2>5
    <3> QED BY <1>4, <2>3, <3>1, Zenon
  <2> QED BY <2>4, <2>5, Zenon
<1>11. Scanning'
  <2>0. at'[1] = 1 /\ pc' # "finish"
    <3>1. at' = <<1, 1>> /\ pc' = "scan" BY <1>1, Zenon
    <3> QED BY <3>1
  <2>1. \A i \in 1..Len(acc'.contexts) : ~(i < at'[1] \/ pc' = "finish") BY <2>0
  <2>2. {AskedAt(engine', acc'.dirs, acc'.contexts, i) : i \in 1..Len(acc'.contexts)}
           = AsksIn(Options', k)
    BY <1>1, <1>2, <1>8, <1>9, <1>10, Zenon
  <2>3. Options'[option'][1] \in {"v3-engine-id", "end-of-options"} BY <1>1, <1>2, <1>6, Zenon
  <2>4. /\ k \in 1..(option' - 1) /\ IsEngine(Options', k, option' - 1) /\ engine' = Options'[k][2]
        /\ MetUpTo(registered', tree', Options', k - 1)
    BY <1>1, <1>2, <1>4, Zenon
  <2> QED BY <2>1, <2>2, <2>3, <2>4, Zenon DEF Scanning
<1>12. Listing'
  <2>1. at'[2] = 1 /\ data_files' = {} /\ pc' # "files"
    <3>1. at' = <<1, 1>> /\ pc' = "scan" /\ data_files' = {} BY <1>1, <1>5, Zenon
    <3> QED BY <3>1
  <2>2. \A j \in 1..(at'[2] - 1) : FALSE BY <2>1
  <2> QED BY <2>1, <2>2, Zenon DEF Listing
<1>13. (Between /\ Reading /\ Finished)' BY <1>1 DEF Between, Reading, Finished
<1>14. NoOther(registered, tree, Options)' BY <1>1, NoOtherStays
<1> QED BY <1>11, <1>12, <1>13, <1>14, DeliveredIf

-----------------------------------------------------------------------------
\* Directories and files.  Scanning stays where the same engine is configured.
LEMMA ScanningStays ==
    ASSUME Scanning, pc \in {"scan", "files", "finish"}, pc' \in {"scan", "files"},
           UNCHANGED <<tree, line, option, engine, acc>>, at'[1] = at[1], pc # "finish",
           registered \subseteq registered'
    PROVE  Scanning'
<1>1. Options' = Options BY SameOptions
<1>2. /\ Options[option][1] \in {"v3-engine-id", "end-of-options"}
      /\ \A i \in 1..Len(acc.contexts) :
            i < at[1] => Met(registered, tree, AskedAt(engine, acc.dirs, acc.contexts, i))
  BY Zenon DEF Scanning
<1>3. PICK k \in 1..(option - 1) :
         /\ IsEngine(Options, k, option - 1) /\ engine = Options[k][2]
         /\ {AskedAt(engine, acc.dirs, acc.contexts, i) : i \in 1..Len(acc.contexts)}
               = AsksIn(Options, k)
         /\ MetUpTo(registered, tree, Options, k - 1)
  BY Zenon DEF Scanning
<1>4. MetUpTo(registered', tree, Options, k - 1) BY <1>3, Grows, Zenon
<1>5. \A i \in 1..Len(acc.contexts) :
         i < at[1] => Met(registered', tree, AskedAt(engine, acc.dirs, acc.contexts, i))
  BY <1>2, Grows, Zenon
<1>6. pc' # "finish" OBVIOUS
<1>7. /\ k \in 1..(option' - 1) /\ IsEngine(Options', k, option' - 1) /\ engine' = Options'[k][2]
      /\ {AskedAt(engine', acc'.dirs, acc'.contexts, i) : i \in 1..Len(acc'.contexts)}
            = AsksIn(Options', k)
      /\ MetUpTo(registered', tree', Options', k - 1)
  BY <1>1, <1>3, <1>4, Zenon
<1>8. Options'[option'][1] \in {"v3-engine-id", "end-of-options"} BY <1>1, <1>2, Zenon
<1>9. \A i \in 1..Len(acc'.contexts) :
         i < at'[1] \/ pc' = "finish" =>
            Met(registered', tree', AskedAt(engine', acc'.dirs, acc'.contexts, i))
  BY <1>5, <1>6, Zenon
<1> QED BY <1>7, <1>8, <1>9, Zenon DEF Scanning

LEMMA SameDirs ==
    ASSUME UNCHANGED acc, at'[1] = at[1]
    PROVE  Context' = Context /\ Dirs' = Dirs
<1>1. Context' = Context BY DEF Context
<1> QED BY <1>1 DEF Dirs

\* What Listing says of the directories up to n.
HeldUpTo(g, t, e, c, ds, n) ==
    \A j \in 1..n : j <= Len(ds) => \A f \in DataFiles(ds[j], t) : Held(g, e, c, f.ident)

LEMMA ListingIs ==
    ASSUME pc \in {"scan", "files"}
    PROVE  Listing <=>
              /\ HeldUpTo(registered, tree, engine, Context.id, Dirs, at[2] - 1)
              /\ \A x \in data_files : Held(registered, engine, Context.id, x)
              /\ pc = "files" =>
                    /\ at[2] <= Len(Dirs) /\ todo \subseteq DataFiles(Dirs[at[2]], tree)
                    /\ \A f \in DataFiles(Dirs[at[2]], tree) :
                          f \in todo \/ Held(registered, engine, Context.id, f.ident)
BY Zenon DEF Listing, HeldUpTo, HeldHere

LEMMA ListingIsNext ==
    ASSUME pc' \in {"scan", "files"}
    PROVE  Listing' <=>
              /\ HeldUpTo(registered', tree', engine', Context'.id, Dirs', at'[2] - 1)
              /\ \A x \in data_files' : Held(registered', engine', Context'.id, x)
              /\ pc' = "files" =>
                    /\ at'[2] <= Len(Dirs') /\ todo' \subseteq DataFiles(Dirs'[at'[2]], tree')
                    /\ \A f \in DataFiles(Dirs'[at'[2]], tree') :
                          f \in todo' \/ Held(registered', engine', Context'.id, f.ident)
BY Zenon DEF Listing, HeldUpTo, HeldHere

LEMMA DeliveredScan ==
    ASSUME Shape, full, Delivered, Scan
    PROVE  Delivered'
<1>1. CASE Fail
  <2>1. pc' = "ended" /\ UNCHANGED <<tree, line, registered>> BY <1>1 DEF Fail, contextVars
  <2> QED BY <2>1, DeliveredEnd
<1>2. CASE /\ pc = "scan" /\ pc' = "files" /\ at[2] <= Len(Dirs)
           /\ todo' = DataFiles(Dirs[at[2]], tree)
           /\ UNCHANGED <<tree, line, option, engine, acc, at, data_files, registered>>
  <2>1. Context' = Context /\ Dirs' = Dirs BY <1>2, SameDirs
  <2>2. Scanning' BY <1>2, DeliveredParts, ScanningStays
  <2>3. /\ HeldUpTo(registered, tree, engine, Context.id, Dirs, at[2] - 1)
        /\ \A x \in data_files : Held(registered, engine, Context.id, x)
    BY <1>2, DeliveredParts, ListingIs
  <2>4. Listing'
    <3>1. HeldUpTo(registered', tree', engine', Context'.id, Dirs', at'[2] - 1)
      BY <1>2, <2>1, <2>3, Zenon
    <3>2. \A x \in data_files' : Held(registered', engine', Context'.id, x)
      BY <1>2, <2>1, <2>3, Zenon
    <3>3. at'[2] <= Len(Dirs') /\ todo' = DataFiles(Dirs'[at'[2]], tree') BY <1>2, <2>1, Zenon
    <3>4. /\ todo' \subseteq DataFiles(Dirs'[at'[2]], tree')
          /\ \A f \in DataFiles(Dirs'[at'[2]], tree') : f \in todo'
      BY <3>3, Zenon
    <3>5. pc' \in {"scan", "files"} BY <1>2
    <3> QED BY <3>1, <3>2, <3>3, <3>4, <3>5, ListingIsNext, Zenon
  <2>5. (Between /\ Reading /\ Finished)' BY <1>2 DEF Between, Reading, Finished
  <2>6. NoOther(registered, tree, Options)' BY <1>2, NoOtherStays
  <2> QED BY <2>2, <2>4, <2>5, <2>6, DeliveredIf
<1> QED BY <1>1, <1>2 DEF Scan, contextVars

\* A file is registered below the context engine at hand, or its name is there.
LEMMA DeliveredFile ==
    ASSUME Shape, full, Delivered, pc = "files", NEW f \in todo, todo' = todo \ {f},
           UNCHANGED <<tree, line, pc, option, engine, acc, at>>,
           \/ registered' = registered /\ Held(registered, engine, Context.id, f.ident)
           \/ registered' = registered \cup {Registered(f.ident, f.path)},
           data_files' \subseteq data_files \cup {f.ident}
    PROVE  Delivered'
<1>1. Options' = Options /\ Context' = Context /\ Dirs' = Dirs BY SameOptions, SameDirs
<1>2. registered \subseteq registered' OBVIOUS
<1>3. Held(registered', engine, Context.id, f.ident)
  <2>1. CASE registered' = registered /\ Held(registered, engine, Context.id, f.ident) BY <2>1, Zenon
  <2>2. CASE registered' = registered \cup {Registered(f.ident, f.path)}
    <3>1. PICK r : r = Registered(f.ident, f.path) OBVIOUS
    <3>2. r.engine = engine /\ r.context = Context.id /\ r.ident = f.ident BY <3>1 DEF Registered
    <3>3. r \in registered' BY <2>2, <3>1
    <3> QED BY <3>2, <3>3, Zenon DEF Held
  <2> QED BY <2>1, <2>2
<1>4. Scanning'
  <2>1. /\ pc \in {"scan", "files", "finish"} /\ pc' \in {"scan", "files"} /\ pc # "finish"
        /\ at'[1] = at[1]
    OBVIOUS
  <2> QED BY <1>2, <2>1, DeliveredParts, ScanningStays
<1>5. /\ HeldUpTo(registered, tree, engine, Context.id, Dirs, at[2] - 1)
      /\ \A x \in data_files : Held(registered, engine, Context.id, x)
      /\ at[2] <= Len(Dirs) /\ todo \subseteq DataFiles(Dirs[at[2]], tree)
      /\ \A g \in DataFiles(Dirs[at[2]], tree) :
            g \in todo \/ Held(registered, engine, Context.id, g.ident)
  BY DeliveredParts, ListingIs
<1>6. \A i : Held(registered, engine, Context.id, i) => Held(registered', engine, Context.id, i)
  BY <1>2, Grows, Zenon
<1>7. Listing'
  <2>1. HeldUpTo(registered', tree', engine', Context'.id, Dirs', at'[2] - 1)
    <3>1. HeldUpTo(registered', tree, engine, Context.id, Dirs, at[2] - 1)
      BY <1>5, <1>6, Zenon DEF HeldUpTo
    <3> QED BY <1>1, <3>1, Zenon
  <2>2. \A x \in data_files' : Held(registered', engine', Context'.id, x)
    <3>1. \A x \in data_files' : Held(registered', engine, Context.id, x)
      BY <1>3, <1>5, <1>6, Zenon
    <3> QED BY <1>1, <3>1, Zenon
  <2>3. /\ at'[2] <= Len(Dirs') /\ todo' \subseteq DataFiles(Dirs'[at'[2]], tree')
        /\ \A g \in DataFiles(Dirs'[at'[2]], tree') :
              g \in todo' \/ Held(registered', engine', Context'.id, g.ident)
    <3>1. /\ at[2] <= Len(Dirs) /\ todo' \subseteq DataFiles(Dirs[at[2]], tree)
          /\ \A g \in DataFiles(Dirs[at[2]], tree) :
                g \in todo' \/ Held(registered', engine, Context.id, g.ident)
      <4>1. todo' \subseteq DataFiles(Dirs[at[2]], tree) BY <1>5, Zenon
      <4>2. \A g \in todo : g \in todo' \/ g = f BY Zenon
      <4> QED BY <1>3, <1>5, <1>6, <4>1, <4>2, Zenon
    <3> QED BY <1>1, <3>1, Zenon
  <2>4. pc' \in {"scan", "files"} OBVIOUS
  <2> QED BY <2>1, <2>2, <2>3, <2>4, ListingIsNext, Zenon
<1>8. (Between /\ Reading /\ Finished)' BY DEF Between, Reading, Finished
<1>9. NoOther(registered', tree, Options)
  <2>0. NoOther(registered, tree, Options) BY DeliveredParts
  <2>1. CASE registered' = registered BY <2>0, <2>1, Zenon
  <2>2. CASE registered' = registered \cup {Registered(f.ident, f.path)}
    <3>1. PICK r : r = Registered(f.ident, f.path) OBVIOUS
    <3>2. /\ r.engine = engine /\ r.context = Context.id /\ r.ident = f.ident /\ r.path = f.path
      BY <3>1 DEF Registered
    <3>3. pc \in {"scan", "files", "finish"} /\ Scanning BY DeliveredParts
    <3>4. /\ AskedHere.engine = engine /\ AskedHere.context = Context.id
          /\ AskedHere.dirs = Elements(Dirs)
          /\ \E k \in EnginesIn(Options, Len(Options)) : AskedHere \in AsksIn(Options, k)
      BY <3>3, AskedHereIs
    <3>5. PICK a : a = AskedHere OBVIOUS
    <3>6. Dirs[at[2]] \in Elements(Dirs)
      <4>1. at[2] \in Nat \ {0} BY DEF Shape
      <4>2. Dirs \in Seq(Paths) BY <3>3, ScannedDir
      <4>3. PICK ds, m : ds = Dirs /\ m = at[2] OBVIOUS
      <4>4. m \in 1..Len(ds) BY <1>5, <4>1, <4>2, <4>3, LenProperties
      <4> QED BY <4>3, <4>4 DEF Elements
    <3>7. AskedFor(r, tree, a)
      <4>1. f \in DataFiles(Dirs[at[2]], tree) BY <1>5, Zenon
      <4> QED BY <3>2, <3>4, <3>5, <3>6, <4>1, Zenon DEF AskedFor
    <3>8. PICK k \in EnginesIn(Options, Len(Options)) : a \in AsksIn(Options, k) BY <3>4, <3>5, Zenon
    <3>9. registered' \subseteq registered \cup {r} BY <2>2, <3>1, Zenon
    <3> QED BY <2>0, <3>7, <3>8, <3>9, NoOtherGrows, Zenon
  <2> QED BY <2>1, <2>2, Zenon
<1>10. NoOther(registered, tree, Options)' BY <1>1, <1>9
<1> QED BY <1>4, <1>7, <1>8, <1>10, DeliveredIf

LEMMA DeliveredFiles ==
    ASSUME Shape, full, Delivered, ConfigureDuplicate \/ ConfigureShared \/ ConfigureFile
    PROVE  Delivered'
<1>1. CASE Fail
  <2>1. pc' = "ended" /\ UNCHANGED <<tree, line, registered>> BY <1>1 DEF Fail, contextVars
  <2> QED BY <2>1, DeliveredEnd
<1>2. CASE ConfigureDuplicate
  <2>1. PICK f \in todo : f.ident \in data_files /\ todo' = todo \ {f} BY <1>2 DEF ConfigureDuplicate
  <2>2. pc = "files" /\ UNCHANGED <<tree, line, pc, option, engine, acc, at, data_files, registered>>
    BY <1>2 DEF ConfigureDuplicate, contextVars
  <2>3. Held(registered, engine, Context.id, f.ident) BY <2>1, <2>2, DeliveredParts, ListingIs
  <2>4. registered' = registered /\ data_files' \subseteq data_files \cup {f.ident} BY <2>2
  <2>5. UNCHANGED <<tree, line, pc, option, engine, acc, at>> BY <2>2
  <2> QED BY <2>1, <2>2, <2>3, <2>4, <2>5, DeliveredFile
<1>3. ASSUME NEW f \in todo, Register(f), todo' = todo \ {f}, pc = "files",
             data_files' \subseteq data_files \cup {f.ident}
      PROVE  Delivered'
  <2>1. /\ registered' = {r \in registered : full \/ r.ident # f.ident}
                            \cup {Registered(f.ident, f.path)}
        /\ UNCHANGED <<tree, line, pc, option, engine, acc, at>>
    BY <1>3 DEF Register
  <2>2. registered' = registered \cup {Registered(f.ident, f.path)} BY <2>1
  <2>3. UNCHANGED <<tree, line, pc, option, engine, acc, at>> BY <2>1
  <2> QED BY <1>3, <2>2, <2>3, DeliveredFile
<1>4. CASE ConfigureShared
  <2>1. pc = "files" BY <1>4 DEF ConfigureShared
  <2>2. CASE \E f \in todo : Register(f) /\ todo' = todo \ {f} /\ data_files' = data_files
    <3>1. PICK f \in todo : Register(f) /\ todo' = todo \ {f} /\ data_files' = data_files BY <2>2
    <3>2. data_files' \subseteq data_files \cup {f.ident} BY <3>1
    <3> QED BY <1>3, <2>1, <3>1, <3>2
  <2>3. ~Fail => \E f \in todo : Register(f) /\ todo' = todo \ {f} /\ data_files' = data_files
    BY <1>4 DEF ConfigureShared
  <2> QED BY <1>1, <2>2, <2>3
<1>5. CASE ConfigureFile
  <2>1. pc = "files" BY <1>5 DEF ConfigureFile
  <2>2. CASE \E f \in todo : /\ Register(f) /\ todo' = todo \ {f}
                             /\ data_files' = data_files \cup {f.ident}
    <3>1. PICK f \in todo : /\ Register(f) /\ todo' = todo \ {f}
                            /\ data_files' = data_files \cup {f.ident}
      BY <2>2
    <3>2. data_files' \subseteq data_files \cup {f.ident} BY <3>1
    <3> QED BY <1>3, <2>1, <3>1, <3>2
  <2>3. ~Fail => \E f \in todo : /\ Register(f) /\ todo' = todo \ {f}
                                 /\ data_files' = data_files \cup {f.ident}
    BY <1>5 DEF ConfigureFile
  <2> QED BY <1>1, <2>2, <2>3
<1> QED BY <1>2, <1>4, <1>5

LEMMA DeliveredEndFiles ==
    ASSUME Shape, full, Delivered, EndFiles
    PROVE  Delivered'
<1>1. /\ pc = "files" /\ todo = {} /\ pc' = "scan" /\ at' = <<at[1], at[2] + 1>>
      /\ UNCHANGED <<tree, line, option, engine, acc, data_files, registered>>
  BY DEF EndFiles, contextVars
<1>2. at'[1] = at[1] /\ at'[2] = at[2] + 1 /\ at[2] \in Nat
  <2>1. at \in (Nat \ {0}) \X (Nat \ {0}) BY DEF Shape
  <2>2. at' = <<at[1], at[2] + 1>> BY <1>1, Zenon
  <2> QED BY <2>1, <2>2
<1>3. Context' = Context /\ Dirs' = Dirs BY <1>1, <1>2, SameDirs
<1>4. Scanning' BY <1>1, <1>2, DeliveredParts, ScanningStays
<1>5. /\ HeldUpTo(registered, tree, engine, Context.id, Dirs, at[2] - 1)
      /\ \A x \in data_files : Held(registered, engine, Context.id, x)
      /\ \A g \in DataFiles(Dirs[at[2]], tree) :
            g \in todo \/ Held(registered, engine, Context.id, g.ident)
  BY <1>1, DeliveredParts, ListingIs
<1>6. Listing'
  <2>1. HeldUpTo(registered, tree, engine, Context.id, Dirs, at[2])
    <3>1. \A j \in 1..at[2] : j = at[2] \/ j \in 1..(at[2] - 1) BY <1>2
    <3> QED BY <1>1, <1>5, <3>1, Zenon DEF HeldUpTo
  <2>2. at'[2] - 1 = at[2] BY <1>2
  <2>3. HeldUpTo(registered', tree', engine', Context'.id, Dirs', at'[2] - 1)
    BY <1>1, <1>3, <2>1, <2>2, Zenon
  <2>4. \A x \in data_files' : Held(registered', engine', Context'.id, x)
    BY <1>1, <1>3, <1>5, Zenon
  <2>5. pc' \in {"scan", "files"} /\ pc' # "files" BY <1>1
  <2> QED BY <2>3, <2>4, <2>5, ListingIsNext, Zenon
<1>7. (Between /\ Reading /\ Finished)' BY <1>1 DEF Between, Reading, Finished
<1>8. NoOther(registered, tree, Options)' BY <1>1, NoOtherStays
<1> QED BY <1>4, <1>6, <1>7, <1>8, DeliveredIf

LEMMA DeliveredEndContext ==
    ASSUME Shape, full, Delivered, EndContext
    PROVE  Delivered'
<1>1. /\ pc = "scan" /\ at[2] > Len(Dirs) /\ data_files' = {}
      /\ \/ at[1] < Len(acc.contexts) /\ at' = <<at[1] + 1, 1>> /\ pc' = "scan"
         \/ ~(at[1] < Len(acc.contexts)) /\ pc' = "finish"
      /\ UNCHANGED <<tree, line, option, engine, acc, registered>>
  BY DEF EndContext, contextVars
<1>2. Options' = Options BY <1>1, SameOptions
<1>3. /\ at[1] \in 1..Len(acc.contexts) /\ Dirs \in Seq(Paths) /\ at[1] \in Nat /\ at[2] \in Nat
      /\ Len(acc.contexts) \in Nat
  <2>1. at[1] \in 1..Len(acc.contexts) /\ Dirs \in Seq(Paths) BY <1>1, ScannedDir
  <2>2. at[1] \in Nat /\ at[2] \in Nat BY DEF Shape
  <2>3. PICK cs : cs = acc.contexts OBVIOUS
  <2>4. cs \in Seq([id : Values, dirs : Seq(Paths)]) BY <2>3 DEF Shape
  <2>5. Len(cs) \in Nat BY <2>4, LenProperties
  <2> QED BY <2>1, <2>2, <2>3, <2>5
<1>4. HeldUpTo(registered, tree, engine, Context.id, Dirs, at[2] - 1)
  BY <1>1, DeliveredParts, ListingIs
<1>5. /\ AskedHere.engine = engine /\ AskedHere.context = Context.id
      /\ AskedHere.dirs = Elements(Dirs)
  BY <1>1, DeliveredParts, AskedHereIs
<1>6. Met(registered, tree, AskedHere)
  <2>1. ASSUME NEW d \in Elements(Dirs), NEW f \in DataFiles(d, tree)
        PROVE  Held(registered, engine, Context.id, f.ident)
    <3>1. PICK ds, m : ds = Dirs /\ m = at[2] OBVIOUS
    <3>2. Len(ds) \in Nat /\ m \in Nat /\ m > Len(ds)
      <4>1. Len(ds) \in Nat BY <1>3, <3>1, LenProperties
      <4> QED BY <1>1, <1>3, <3>1, <4>1
    <3>3. PICK j \in 1..Len(ds) : d = ds[j] BY <2>1, <3>1 DEF Elements
    <3>4. j \in 1..(m - 1) /\ j <= Len(ds) BY <3>2, <3>3
    <3>5. HeldUpTo(registered, tree, engine, Context.id, ds, m - 1) BY <1>4, <3>1, Zenon
    <3> QED BY <2>1, <3>3, <3>4, <3>5, Zenon DEF HeldUpTo
  <2> QED BY <1>5, <2>1, Zenon DEF Met
<1>7. /\ Options[option][1] \in {"v3-engine-id", "end-of-options"}
      /\ \A i \in 1..Len(acc.contexts) :
            i < at[1] => Met(registered, tree, AskedAt(engine, acc.dirs, acc.contexts, i))
      /\ \E k \in 1..(option - 1) :
            /\ IsEngine(Options, k, option - 1) /\ engine = Options[k][2]
            /\ {AskedAt(engine, acc.dirs, acc.contexts, i) : i \in 1..Len(acc.contexts)}
                  = AsksIn(Options, k)
            /\ MetUpTo(registered, tree, Options, k - 1)
  BY <1>1, DeliveredParts, Zenon DEF Scanning
<1>8. \A i \in 1..Len(acc.contexts) :
         i <= at[1] => Met(registered, tree, AskedAt(engine, acc.dirs, acc.contexts, i))
  <2>1. Met(registered, tree, AskedAt(engine, acc.dirs, acc.contexts, at[1]))
    BY <1>6, Zenon DEF AskedHere
  <2>2. \A i \in 1..Len(acc.contexts) : i <= at[1] => i < at[1] \/ i = at[1] BY <1>3
  <2> QED BY <1>7, <2>1, <2>2, Zenon
<1>9. Scanning'
  <2>1. \A i \in 1..Len(acc'.contexts) : (i < at'[1] \/ pc' = "finish") => i <= at[1]
    <3>1. CASE at' = <<at[1] + 1, 1>> /\ pc' = "scan"
      <4>1. at'[1] = at[1] + 1 /\ pc' # "finish" BY <3>1
      <4>2. \A i \in 1..Len(acc.contexts) : i < at[1] + 1 => i <= at[1] BY <1>3
      <4> QED BY <1>1, <4>1, <4>2, Zenon
    <3>2. CASE ~(at[1] < Len(acc.contexts)) /\ pc' = "finish"
      <4>1. \A i \in 1..Len(acc.contexts) : i <= at[1] BY <1>3, <3>2
      <4> QED BY <1>1, <4>1, Zenon
    <3> QED BY <1>1, <3>1, <3>2, Zenon
  <2>2. \A i \in 1..Len(acc'.contexts) :
           i < at'[1] \/ pc' = "finish" =>
              Met(registered', tree', AskedAt(engine', acc'.dirs, acc'.contexts, i))
    BY <1>1, <1>8, <2>1, Zenon
  <2>3. Options'[option'][1] \in {"v3-engine-id", "end-of-options"} BY <1>1, <1>2, <1>7, Zenon
  <2>4. \E k \in 1..(option' - 1) :
           /\ IsEngine(Options', k, option' - 1) /\ engine' = Options'[k][2]
           /\ {AskedAt(engine', acc'.dirs, acc'.contexts, i) : i \in 1..Len(acc'.contexts)}
                 = AsksIn(Options', k)
           /\ MetUpTo(registered', tree', Options', k - 1)
    BY <1>1, <1>2, <1>7, Zenon
  <2> QED BY <2>2, <2>3, <2>4, Zenon DEF Scanning
<1>10. Listing'
  <2>1. CASE pc' = "finish" BY <2>1 DEF Listing
  <2>2. CASE at' = <<at[1] + 1, 1>> /\ pc' = "scan"
    <3>1. at'[2] = 1 /\ pc' # "files" /\ pc' \in {"scan", "files"} BY <2>2
    <3>2. \A j \in 1..(at'[2] - 1) : FALSE BY <3>1
    <3>3. HeldUpTo(registered', tree', engine', Context'.id, Dirs', at'[2] - 1)
      BY <3>2, Zenon DEF HeldUpTo
    <3>4. \A x \in data_files' : Held(registered', engine', Context'.id, x) BY <1>1, Zenon
    <3> QED BY <3>1, <3>3, <3>4, ListingIsNext, Zenon
  <2> QED BY <1>1, <2>1, <2>2, Zenon
<1>11. (Between /\ Reading /\ Finished)' BY <1>1 DEF Between, Reading, Finished
<1>12. NoOther(registered, tree, Options)' BY <1>1, NoOtherStays
<1> QED BY <1>9, <1>10, <1>11, <1>12, DeliveredIf

\* The data index, and the next engine or the end of the options.
LEMMA DeliveredFinish ==
    ASSUME Shape, full, Delivered, FinishEngine
    PROVE  Delivered'
<1>1. CASE Fail
  <2>1. pc' = "ended" /\ UNCHANGED <<tree, line, registered>> BY <1>1 DEF Fail, contextVars
  <2> QED BY <2>1, DeliveredEnd
<1>2. CASE /\ pc = "finish" /\ registered' = registered \cup {Registered(INDEX, INDEX)}
           /\ pc' = (IF Opt[1] = "end-of-options" THEN "serve" ELSE "options") /\ engine' = ""
           /\ UNCHANGED <<tree, line, option, acc, data_files>>
  <2>1. Options' = Options /\ registered \subseteq registered' BY <1>2, SameOptions
  <2>2. pc \in {"scan", "files", "finish"} /\ Scanning /\ data_files = {}
        /\ NoOther(registered, tree, Options)
    BY <1>2, DeliveredParts DEF Finished
  <2>3. /\ Options[option][1] \in {"v3-engine-id", "end-of-options"}
        /\ \A i \in 1..Len(acc.contexts) :
              Met(registered, tree, AskedAt(engine, acc.dirs, acc.contexts, i))
    BY <1>2, <2>2, Zenon DEF Scanning
  <2>4. PICK k \in 1..(option - 1) :
           /\ IsEngine(Options, k, option - 1)
           /\ {AskedAt(engine, acc.dirs, acc.contexts, i) : i \in 1..Len(acc.contexts)}
                 = AsksIn(Options, k)
           /\ MetUpTo(registered, tree, Options, k - 1)
    BY <2>2, Zenon DEF Scanning
  <2>5. line \in CommandLines /\ option \in 1..Len(Options) /\ WellFormed(Options)
        /\ option - 1 \in Nat
    BY OptionsWellFormed, OptionList DEF Shape
  <2>6. \A a \in AsksIn(Options, k) : Met(registered, tree, a) BY <2>3, <2>4, Zenon
  <2>7. MetUpTo(registered, tree, Options, option - 1) BY <2>4, <2>5, <2>6, MetThrough
  <2>8. MetUpTo(registered', tree, Options, option - 1) BY <2>1, <2>7, Grows, Zenon
  <2>9. NoOther(registered, tree, Options)'
    <3>1. PICK r : r = Registered(INDEX, INDEX) OBVIOUS
    <3>2. r.engine = engine /\ r.context = Context.id /\ r.ident = INDEX BY <3>1 DEF Registered
    <3>3. PICK a : a = AskedHere OBVIOUS
    <3>4. a.engine = engine /\ a.context = Context.id BY <2>2, <3>3, AskedHereIs
    <3>5. PICK l \in EnginesIn(Options, Len(Options)) : a \in AsksIn(Options, l)
      BY <2>2, <3>3, AskedHereIs
    <3>6. AskedFor(r, tree, a) BY <3>2, <3>4, Zenon DEF AskedFor
    <3>7. registered' \subseteq registered \cup {r} BY <1>2, <3>1, Zenon
    <3>8. NoOther(registered', tree, Options) BY <2>2, <3>5, <3>6, <3>7, NoOtherGrows, Zenon
    <3> QED BY <1>2, <2>1, <3>8
  <2>10. CASE Options[option][1] = "end-of-options"
    <3>1. pc' = "serve" BY <1>2, <2>10 DEF Opt
    <3>2. MetUpTo(registered', tree, Options, Len(Options)) BY <2>5, <2>8, <2>10, AtEnd
    <3>3. Finished' BY <1>2, <2>1, <3>1, <3>2 DEF Finished
    <3>4. (Between /\ Reading /\ Scanning /\ Listing)' BY <3>1 DEF Between, Reading, Scanning, Listing
    <3> QED BY <2>9, <3>3, <3>4, DeliveredIf
  <2>11. CASE Options[option][1] = "v3-engine-id"
    <3>1. pc' = "options" BY <1>2, <2>11 DEF Opt
    <3>2. Between' BY <1>2, <2>1, <2>2, <2>8, <2>11, <3>1 DEF Between
    <3>3. (Reading /\ Scanning /\ Listing /\ Finished)'
      BY <1>2, <3>1 DEF Reading, Scanning, Listing, Finished
    <3> QED BY <2>9, <3>2, <3>3, DeliveredIf
  <2> QED BY <2>3, <2>10, <2>11
<1> QED BY <1>1, <1>2 DEF FinishEngine

LEMMA DeliveredNext ==
    ASSUME Shape, Delivered, [Next]_vars
    PROVE  Delivered'
<1>1. UNCHANGED <<tree, line>>
  <2>1. ASSUME NEW path, NEW reply, NEW released, Answered(path, reply, released)
        PROVE  UNCHANGED <<tree, line>>
    BY <2>1 DEF Answered
  <2>2. CASE HandleFull
    <3>1. \E path, reply, released : Answered(path, reply, released)
      BY <2>2 DEF HandleFull, Outcomes
    <3> QED BY <2>1, <3>1
  <2>3. CASE HandleLite
    <3>1. \E path, reply, released : Answered(path, reply, released) BY <2>3 DEF HandleLite
    <3> QED BY <2>1, <3>1
  <2>4. CASE NotSelected \/ Receive \/ Shutdown
    BY <2>1, <2>4 DEF NotSelected, Receive, Shutdown
  <2>5. CASE Fail BY <2>5 DEF Fail
  <2>6. CASE LoadModules \/ InitModules \/ ReadOption
    BY <2>5, <2>6 DEF LoadModules, InitModules, ReadOption, StartEngine, ContextEngine, DataDir,
       Endpoint, User, Key, Proto, CompleteEngine, TakeOption
  <2>7. CASE Configure
    BY <2>5, <2>7 DEF Configure, Scan, ConfigureDuplicate, ConfigureShared, ConfigureFile,
       EndFiles, EndContext, FinishEngine, FinishLite, Register
  <2>8. CASE UNCHANGED vars BY <2>8 DEF vars
  <2> QED BY <2>2, <2>3, <2>4, <2>6, <2>7, <2>8 DEF Next, Serve
<1>2. CASE ~full
  <2>1. ~full' BY <1>1, <1>2, SameOptions
  <2> QED BY <2>1 DEF Delivered
<1>3. CASE full
  <2>1. ASSUME UNCHANGED registered, pc' = "ended" \/ (pc = "serve" /\ pc' = "serve")
        PROVE  Delivered'
    BY <1>1, <1>3, <2>1, DeliveredEnd
  <2>2. CASE Fail BY <2>1, <2>2 DEF Fail, contextVars
  <2>3. CASE LoadModules
    <3>1. CASE /\ pc = "load" /\ pc' = "init"
               /\ UNCHANGED <<registered, engine, option, data_files>>
      BY <1>1, <1>3, <3>1, DeliveredModules
    <3> QED BY <2>2, <2>3, <3>1 DEF LoadModules, contextVars
  <2>4. CASE InitModules
    <3>1. pc = "init" /\ pc' = "options" /\ UNCHANGED <<registered, engine, option, data_files>>
      BY <1>3, <2>4 DEF InitModules, contextVars
    <3> QED BY <1>1, <1>3, <3>1, DeliveredModules
  <2>5. CASE ReadOption
    BY <1>3, <2>5, DeliveredStart, DeliveredOptions, DeliveredComplete DEF ReadOption
  <2>6. CASE Configure
    <3>1. ~FinishLite BY <1>3 DEF FinishLite
    <3> QED BY <1>3, <2>6, <3>1, DeliveredScan, DeliveredFiles, DeliveredEndFiles,
            DeliveredEndContext, DeliveredFinish
        DEF Configure
  <2>7. ASSUME NEW path, NEW reply, NEW released, Answered(path, reply, released)
        PROVE  Delivered'
    BY <2>1, <2>7 DEF Answered, contextVars
  <2>8. CASE HandleFull
    <3>1. \E path, reply, released : Answered(path, reply, released)
      BY <2>8 DEF HandleFull, Outcomes
    <3> QED BY <2>7, <3>1
  <2>9. CASE HandleLite
    <3>1. \E path, reply, released : Answered(path, reply, released) BY <2>9 DEF HandleLite
    <3> QED BY <2>7, <3>1
  <2>10. CASE NotSelected \/ Receive \/ Shutdown
    BY <2>1, <2>7, <2>10 DEF NotSelected, Receive, Shutdown, contextVars
  <2>11. CASE UNCHANGED vars
    <3>1. /\ UNCHANGED <<tree, line, pc, option, engine, acc, todo, at, data_files, registered>>
      BY <2>11 DEF vars, startVars, contextVars
    <3>2. Options' = Options /\ Context' = Context /\ Dirs' = Dirs
      BY <3>1, SameOptions, SameDirs
    <3>3. (Between /\ Reading)' BY <3>1, <3>2, <1>3, DeliveredParts DEF Between, Reading
    <3>4. (Scanning /\ Finished)' BY <3>1, <3>2, <1>3, DeliveredParts DEF Scanning, Finished
    <3>5. Listing' BY <3>1, <3>2, <1>3, DeliveredParts, Zenon DEF Listing, HeldHere
    <3>6. NoOther(registered, tree, Options)' BY <1>3, <3>1, NoOtherStays
    <3> QED BY <3>3, <3>4, <3>5, <3>6, DeliveredIf
  <2> QED BY <2>3, <2>4, <2>5, <2>6, <2>8, <2>9, <2>10, <2>11 DEF Next, Serve
<1> QED BY <1>2, <1>3

LEMMA DeliveredWhereAsked == ASSUME Shape, Delivered PROVE DataWhereAsked
<1> SUFFICES ASSUME pc = "serve", full PROVE
      /\ \A r \in registered : \E a \in Asked : r.engine = a.engine /\ r.context = a.context
      /\ \A a \in Asked :
            /\ {r.ident : r \in ServedBy(a)} = {f.ident : f \in FilesFor(a)} \ {INDEX}
            /\ \A r \in ServedBy(a) : \E f \in FilesFor(a) : f.ident = r.ident /\ f.path = r.path
    BY Zenon DEF DataWhereAsked
<1>1. line \in CommandLines /\ WellFormed(Options) BY OptionsWellFormed DEF Shape
<1>2. Asked = UNION {AsksIn(Options, k) : k \in EnginesIn(Options, Len(Options))} BY <1>1, AskedIs
<1>3. MetUpTo(registered, tree, Options, Len(Options)) /\ NoOther(registered, tree, Options)
  BY DeliveredParts DEF Finished
<1>4. ASSUME NEW a PROVE a \in Asked <=> \E k \in EnginesIn(Options, Len(Options)) : a \in AsksIn(Options, k)
  BY <1>2, Zenon
<1>5. ASSUME NEW r \in registered PROVE \E a \in Asked : AskedFor(r, tree, a)
  BY <1>3, <1>4, Zenon DEF NoOther
<1>6. ASSUME NEW a \in Asked, NEW b \in Asked, a.engine = b.engine, a.context = b.context PROVE a = b
  <2>1. PICK k \in EnginesIn(Options, Len(Options)), l \in EnginesIn(Options, Len(Options)) :
           a \in AsksIn(Options, k) /\ b \in AsksIn(Options, l)
    BY <1>4, Zenon
  <2> QED BY <1>1, <1>6, <2>1, AskedOnce, Zenon
\* What is served to a context engine was asked for there; all of it is served.
<1>7. ASSUME NEW a \in Asked, NEW r \in ServedBy(a)
      PROVE  r.ident # INDEX /\ \E f \in FilesFor(a) : f.ident = r.ident /\ f.path = r.path
  <2>1. r \in registered /\ r.engine = a.engine /\ r.context = a.context /\ r.ident # INDEX
    BY DEF ServedBy
  <2>2. PICK b \in Asked : AskedFor(r, tree, b) BY <1>5, <2>1, Zenon
  <2>3. b = a
    <3>1. r.engine = b.engine /\ r.context = b.context BY <2>2, Zenon DEF AskedFor
    <3>2. b.engine = a.engine /\ b.context = a.context BY <2>1, <3>1, Zenon
    <3> QED BY <1>6, <3>2
  <2>4. \E d \in a.dirs : \E f \in DataFiles(d, tree) : f.ident = r.ident /\ f.path = r.path
    BY <2>1, <2>2, <2>3, Zenon DEF AskedFor
  <2> QED BY <2>1, <2>4, Zenon DEF FilesFor
<1>8. ASSUME NEW a \in Asked, NEW f \in FilesFor(a), f.ident # INDEX
      PROVE  \E r \in ServedBy(a) : r.ident = f.ident
  <2>1. PICK d \in a.dirs : f \in DataFiles(d, tree) BY Zenon DEF FilesFor
  <2>2. Met(registered, tree, a) BY <1>3, <1>4, Zenon DEF MetUpTo
  <2>3. Held(registered, a.engine, a.context, f.ident) BY <2>1, <2>2, Zenon DEF Met
  <2>4. PICK r \in registered : r.engine = a.engine /\ r.context = a.context /\ r.ident = f.ident
    BY <2>3, Zenon DEF Held
  <2>5. r \in ServedBy(a) BY <1>8, <2>4 DEF ServedBy
  <2> QED BY <2>4, <2>5
<1>9. ASSUME NEW r \in registered PROVE \E a \in Asked : r.engine = a.engine /\ r.context = a.context
  BY <1>5, Zenon DEF AskedFor
<1>10. ASSUME NEW a \in Asked
       PROVE  {r.ident : r \in ServedBy(a)} = {f.ident : f \in FilesFor(a)} \ {INDEX}
  <2>1. \A r \in ServedBy(a) : r.ident \in {f.ident : f \in FilesFor(a)} \ {INDEX}
    <3>1. ASSUME NEW r \in ServedBy(a) PROVE r.ident \in {f.ident : f \in FilesFor(a)} \ {INDEX}
      <4>1. PICK f \in FilesFor(a) : f.ident = r.ident BY <1>7, Zenon
      <4>2. r.ident # INDEX BY <1>7, Zenon
      <4> QED BY <4>1, <4>2, Zenon
    <3> QED BY <3>1, Zenon
  <2>2. \A x \in {f.ident : f \in FilesFor(a)} \ {INDEX} : \E r \in ServedBy(a) : x = r.ident
    <3>1. ASSUME NEW x \in {f.ident : f \in FilesFor(a)} \ {INDEX}
          PROVE  \E r \in ServedBy(a) : x = r.ident
      <4>1. PICK f \in FilesFor(a) : x = f.ident /\ x # INDEX BY <3>1, Zenon
      <4>2. PICK r \in ServedBy(a) : r.ident = f.ident BY <1>8, <4>1, Zenon
      <4> QED BY <4>1, <4>2, Zenon
    <3> QED BY <3>1, Zenon
  <2> QED BY <2>1, <2>2, Zenon
<1> QED BY <1>7, <1>9, <1>10, Zenon

(* Once the responder serves, every context engine of the command line has *)
(* the data files of its own directories, else of its engine's, else the   *)
(* default ones, and no other: whatever the options and their order, the   *)
(* files, the names and the order in which directories are listed          *)
(* (responder.py:661-781, 835-870, 1055-1075).                             *)
THEOREM ResponderDataWhereAsked == Spec => []DataWhereAsked
<1>1. Init => Shape /\ Delivered
  <2>1. ASSUME Init PROVE Shape
    <3>1. PICK Names : Names = {} OBVIOUS
    <3> QED BY <2>1, ShapeInit
  <2> QED BY <2>1, DeliveredInit
<1>2. (Shape /\ Delivered) /\ [Next]_vars => (Shape /\ Delivered)' BY ShapeNext, DeliveredNext
<1>3. Shape /\ Delivered => DataWhereAsked BY DeliveredWhereAsked
<1> QED BY <1>1, <1>2, <1>3, PTL DEF Spec
==============================================================================
