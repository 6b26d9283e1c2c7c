-------------------------- MODULE BulkResponseProofs --------------------------
(***************************************************************************)
(* The var-binds of a GETBULK response, for any number of instances,       *)
(* sizes, limits and requests: the beginning of what RFC 3416 prescribes,  *)
(* within the limits, and cut only where the next var-bind does not fit.   *)
(***************************************************************************)
EXTENDS BulkResponse, NaturalsInduction, WellFoundedInduction, TLAPS

VarBinds == (0..Instances) \X {"value", "endOfMib"}

\* The rows that are complete.
Times == Repetitions - M

\* Where the i-th repeater is after a number of repetitions.
Reached(i, times) == Smaller(req.var_binds[N + i] + times, Instances)

Shapes ==
    /\ req \in Requests /\ max_var_binds \in MaxVarBinds
    /\ pc \in {"start", "repeat", "row", "done", "aborted"}
    /\ rsp_var_binds \in Seq(VarBinds)
    /\ M \in Int

Start == pc = "start" => rsp_var_binds = <<>> /\ M = Repetitions

\* Between two rows, the response is whole and the names are where it ends.
Repeat ==
    pc = "repeat" =>
        /\ Times \in Nat /\ Len(rsp_var_binds) = N + Times * R
        /\ var_binds = [i \in 1..R |-> Reached(i, Times)]

\* Inside a row, what is left of it is what comes next.
Row ==
    pc = "row" =>
        /\ R > 0 /\ Times \in Nat /\ row \in Seq(VarBinds)
        /\ Len(rsp_var_binds) + Len(row) = N + Times * R + R
        /\ \A i \in 1..Len(row) : row[i] = Uncut(Len(rsp_var_binds) + i)

IInv == Shapes /\ Start /\ Repeat /\ Row /\ BeginningOfUncut

---------------------------------------------------------------------------
LEMMA Euclid ==
    ASSUME NEW t \in Nat, NEW r \in Nat \ {0}, NEW i \in 0..(r - 1)
    PROVE  t * r + i \in Nat /\ (t * r + i) % r = i /\ (t * r + i) \div r = t
OBVIOUS

\* What the constants and the request make of the numbers of var-binds.
LEMMA Numbers ==
    ASSUME req \in Requests, max_var_binds \in MaxVarBinds
    PROVE  /\ Instances \in Nat
           /\ req.var_binds \in Seq(0..Instances)
           /\ N \in 0..Len(req.var_binds) /\ R \in Nat /\ N + R = Len(req.var_binds)
           /\ Repetitions \in Int
<1>1. /\ Instances \in Nat /\ max_var_binds \in Nat /\ req.var_binds \in Seq(0..Instances)
      /\ req.non_repeaters \in Nat /\ req.max_repetitions \in Nat
  BY BulkAssumption
<1>2. Len(req.var_binds) \in Nat BY <1>1
<1>3. N \in 0..Len(req.var_binds) BY <1>1, <1>2 DEF N, Smaller
<1>4. R \in Nat /\ N + R = Len(req.var_binds) BY <1>2, <1>3 DEF R
<1>5. Repetitions \in Int
  <2>1. R > 0 => max_var_binds \div R \in Int BY <1>1, <1>4
  <2> QED BY <1>1, <1>4, <2>1 DEF Repetitions, Smaller
<1> QED BY <1>1, <1>3, <1>4, <1>5

\* The names of a request are OIDs of instances.
LEMMA Asked ==
    ASSUME req \in Requests, max_var_binds \in MaxVarBinds, NEW i \in 1..(N + R)
    PROVE  req.var_binds[i] \in 0..Instances
BY Numbers

\* GETNEXT goes on from an instance to the one behind it.
LEMMA ReadNextReached ==
    ASSUME req \in Requests, max_var_binds \in MaxVarBinds, NEW t \in Nat, NEW i \in 1..R
    PROVE  /\ Reached(i, t) \in 0..Instances
           /\ Uncut(N + t * R + i) \in VarBinds
           /\ ReadNext(Reached(i, t)) = Uncut(N + t * R + i)
           /\ Name(Uncut(N + t * R + i)) = Reached(i, t + 1)
<1> DEFINE at == req.var_binds[N + i]
           k == N + t * R + i
<1>1. Instances \in Nat /\ N \in Nat /\ R \in Nat \ {0} BY Numbers
<1>2. at \in 0..Instances BY <1>1, Asked
<1>3. t * R + (i - 1) \in Nat /\ (t * R + (i - 1)) % R = i - 1 /\ (t * R + (i - 1)) \div R = t
  BY <1>1, Euclid
<1>4. t * R \in Nat BY <1>1
<1>5. k - N - 1 = t * R + (i - 1) /\ ~(k <= N)
  <2> HIDE DEF N, R
  <2> QED BY <1>1, <1>4
<1>6. Uncut(k) = IF at + (1 + t) <= Instances
                 THEN <<at + (1 + t), "value">> ELSE <<Instances, "endOfMib">>
  <2>1. N + 1 + ((k - N - 1) % R) = N + i /\ 1 + ((k - N - 1) \div R) = 1 + t
    <3> DEFINE e == k - N - 1
    <3>1. e = t * R + (i - 1) BY <1>5
    <3> HIDE DEF e
    <3>2. e % R = i - 1 /\ e \div R = t BY <1>3, <3>1
    <3> HIDE DEF N, R
    <3>3. N + 1 + (i - 1) = N + i BY <1>1
    <3> QED BY <3>2, <3>3 DEF e
  <2> HIDE DEF k
  <2> QED BY <1>5, <2>1 DEF Uncut
<1> HIDE DEF at, k
<1>7. Reached(i, t) = Smaller(at + t, Instances) /\ Reached(i, t + 1) = Smaller(at + (t + 1), Instances)
  BY DEF Reached, at
<1>8. Uncut(k) \in VarBinds BY <1>1, <1>2, <1>6 DEF VarBinds
<1>9. ReadNext(Reached(i, t)) = Uncut(k)
  BY <1>1, <1>2, <1>6, <1>7 DEF ReadNext, Smaller
<1>10. Name(Uncut(k)) = Reached(i, t + 1)
  BY <1>1, <1>2, <1>6, <1>7 DEF Name, Smaller
<1>11. Reached(i, t) \in 0..Instances BY <1>1, <1>2, <1>7 DEF Smaller
<1> QED BY <1>8, <1>9, <1>10, <1>11 DEF k

---------------------------------------------------------------------------
LEMMA InitInv == Init => IInv
<1> SUFFICES ASSUME Init PROVE IInv
    OBVIOUS
<1>1. req \in Requests /\ max_var_binds \in MaxVarBinds /\ pc = "start" /\ rsp_var_binds = <<>>
      /\ M = Repetitions
  BY DEF Init
<1>2. Repetitions \in Int BY <1>1, Numbers
<1> QED BY <1>1, <1>2 DEF IInv, Shapes, Start, Repeat, Row, BeginningOfUncut

\* The request and what depends on it alone never change.
LEMMA CallStays ==
    ASSUME UNCHANGED call
    PROVE  /\ req' = req /\ max_var_binds' = max_var_binds
           /\ N' = N /\ R' = R /\ Repetitions' = Repetitions
           /\ \A k : Uncut(k)' = Uncut(k)
           /\ \A i, t : Reached(i, t)' = Reached(i, t)
BY DEF call, N, R, Repetitions, Uncut, Reached

\* The conjunct Repeat of the next state, in terms of this one.
LEMMA RepeatAgain ==
    ASSUME UNCHANGED call, Times' \in Nat, Len(rsp_var_binds') = N + Times' * R,
           var_binds' = [i \in 1..R |-> Reached(i, Times')]
    PROVE  Repeat'
<1>1. req' = req /\ N' = N /\ R' = R BY CallStays
<1> HIDE DEF N, R, Times
<1> QED BY <1>1 DEF Repeat, Reached

LEMMA NonRepeaters ==
    ASSUME IInv, ReadNonRepeaters
    PROVE  IInv'
<1> DEFINE names == SubSeq(req.var_binds, 1, N)
           last == LastOf(req.var_binds, R)
<1>1. pc = "start" /\ M = Repetitions /\ M' = M /\ pc' = "repeat" /\ UNCHANGED call
      /\ rsp_var_binds' = read_next_vars(names) /\ var_binds' = last
  BY DEF ReadNonRepeaters, IInv, Start
<1>2. /\ Instances \in Nat /\ req.var_binds \in Seq(0..Instances)
      /\ N \in 0..Len(req.var_binds) /\ R \in Nat /\ N + R = Len(req.var_binds)
      /\ Repetitions \in Int
  BY Numbers DEF IInv, Shapes
<1>3. /\ DOMAIN names = 1..N /\ \A i \in 1..N : names[i] = req.var_binds[i]
  <2> HIDE DEF N
  <2> QED BY <1>2
<1>4. \A i \in 1..N : ReadNext(names[i]) = Uncut(i) /\ ReadNext(names[i]) \in VarBinds
  <2> TAKE i \in 1..N
  <2>1. names[i] = req.var_binds[i] /\ req.var_binds[i] \in 0..Instances
    <3> HIDE DEF N, names
    <3> QED BY <1>2, <1>3
  <2>2. Uncut(i) = ReadNext(req.var_binds[i]) BY DEF Uncut
  <2> HIDE DEF names
  <2> QED BY <1>2, <2>1, <2>2 DEF ReadNext, VarBinds
<1>5. rsp_var_binds' = [i \in 1..N |-> Uncut(i)] /\ \A i \in 1..N : Uncut(i) \in VarBinds
  <2> HIDE DEF names
  <2> QED BY <1>1, <1>3, <1>4 DEF read_next_vars
<1>6. rsp_var_binds' \in Seq(VarBinds) /\ Len(rsp_var_binds') = N
  <2> HIDE DEF N
  <2> QED BY <1>2, <1>5
<1>7. last = [i \in 1..R |-> Reached(i, 0)]
  <2>1. \A i \in 1..R : Reached(i, 0) = req.var_binds[N + i]
    <3> TAKE i \in 1..R
    <3>1. req.var_binds[N + i] \in 0..Instances
      <4> HIDE DEF N, R
      <4> QED BY <1>2
    <3> QED BY <1>2, <3>1 DEF Reached, Smaller
  <2>2. last = [i \in 1..R |-> req.var_binds[N + i]]
    <3> HIDE DEF N, R
    <3>1. Len(req.var_binds) - R + 1 = N + 1 /\ Len(req.var_binds) = N + R BY <1>2
    <3>2. last = SubSeq(req.var_binds, N + 1, N + R) BY <3>1 DEF LastOf
    <3>3. last \in Seq(0..Instances) /\ Len(last) = R BY <1>2, <3>2
    <3>4. \A i \in 1..R : last[i] = req.var_binds[N + i] BY <1>2, <3>2
    <3> HIDE DEF last
    <3> QED BY <3>3, <3>4
  <2> QED BY <2>1, <2>2
<1>8. Times' = 0 BY <1>1, <1>2, CallStays DEF Times
<1>9. Shapes' BY <1>1, <1>6, CallStays DEF IInv, Shapes
<1>10. Repeat'
  <2>1. Len(rsp_var_binds') = N + 0 * R BY <1>2, <1>6
  <2>2. var_binds' = [i \in 1..R |-> Reached(i, 0)] BY <1>1, <1>7
  <2> HIDE DEF last
  <2>3. Times' \in Nat /\ Len(rsp_var_binds') = N + Times' * R BY <1>2, <1>8, <2>1
  <2>4. var_binds' = [i \in 1..R |-> Reached(i, Times')] BY <1>8, <2>2
  <2> QED BY <1>1, <2>3, <2>4, RepeatAgain
<1>11. BeginningOfUncut' BY <1>1, <1>5, <1>6, CallStays DEF BeginningOfUncut
<1> QED BY <1>1, <1>9, <1>10, <1>11 DEF IInv, Start, Row

LEMMA RowRead ==
    ASSUME IInv, ReadRow
    PROVE  IInv'
<1>1. /\ pc = "repeat" /\ pc' = "row" /\ R > 0 /\ row' = read_next_vars(var_binds)
      /\ UNCHANGED <<call, rsp_var_binds, M>>
  BY DEF ReadRow
<1>2. /\ Instances \in Nat /\ N \in Nat /\ R \in Nat BY Numbers DEF IInv, Shapes
<1>3. /\ req \in Requests /\ max_var_binds \in MaxVarBinds /\ rsp_var_binds \in Seq(VarBinds)
      /\ Times \in Nat /\ Len(rsp_var_binds) = N + Times * R
      /\ var_binds = [i \in 1..R |-> Reached(i, Times)]
  BY <1>1 DEF IInv, Shapes, Repeat
<1>4. Times' = Times BY <1>1, CallStays DEF Times
<1>5. \A i \in 1..R : /\ ReadNext(var_binds[i]) = Uncut(Len(rsp_var_binds) + i)
                      /\ Uncut(Len(rsp_var_binds) + i) \in VarBinds
  <2> TAKE i \in 1..R
  <2>1. var_binds[i] = Reached(i, Times) BY <1>3
  <2> HIDE DEF Times
  <2> QED BY <1>3, <2>1, ReadNextReached
<1>6. row' = [i \in 1..R |-> Uncut(Len(rsp_var_binds) + i)]
  <2>1. DOMAIN var_binds = 1..R BY <1>3
  <2> QED BY <1>1, <1>5, <2>1 DEF read_next_vars
<1>7. row' \in Seq(VarBinds) /\ Len(row') = R
  <2> HIDE DEF R
  <2> QED BY <1>2, <1>5, <1>6
<1>8. \A i \in 1..Len(row') : row'[i] = Uncut(Len(rsp_var_binds) + i)
  <2> HIDE DEF R
  <2> QED BY <1>6, <1>7
<1>9. Row'
  <2>1. R' = R /\ N' = N /\ rsp_var_binds' = rsp_var_binds /\ \A k : Uncut(k)' = Uncut(k)
    BY <1>1, CallStays
  <2>2. Len(rsp_var_binds') + Len(row') = N' + Times' * R' + R'
    <3> HIDE DEF N, R, Times
    <3> QED BY <1>2, <1>3, <1>4, <1>7, <2>1
  <2>3. \A i \in 1..Len(row') : row'[i] = Uncut(Len(rsp_var_binds) + i)' BY <1>8, <2>1
  <2> HIDE DEF N, R, Times
  <2> QED BY <1>1, <1>3, <1>4, <1>7, <2>1, <2>2, <2>3 DEF Row
<1>10. Shapes' BY <1>1, CallStays DEF IInv, Shapes
<1>11. BeginningOfUncut' BY <1>1, CallStays DEF IInv, BeginningOfUncut
<1> QED BY <1>1, <1>9, <1>10, <1>11 DEF IInv, Start, Repeat

LEMMA VarBindTaken ==
    ASSUME IInv, Take
    PROVE  IInv'
<1>1. pc = "row" /\ row # <<>> /\ UNCHANGED <<call, M>> BY DEF Take
<1>2. CASE pc' = "done" /\ UNCHANGED <<rsp_var_binds, row>>
  <2>1. Shapes' BY <1>1, <1>2, CallStays DEF IInv, Shapes
  <2>2. BeginningOfUncut' BY <1>1, <1>2, CallStays DEF IInv, BeginningOfUncut
  <2> QED BY <1>2, <2>1, <2>2 DEF IInv, Start, Repeat, Row
<1>3. CASE rsp_var_binds' = Append(rsp_var_binds, Head(row)) /\ row' = Tail(row) /\ pc' = pc
  <2>1. /\ rsp_var_binds \in Seq(VarBinds) /\ row \in Seq(VarBinds) /\ R > 0 /\ Times \in Nat
        /\ Len(rsp_var_binds) + Len(row) = N + Times * R + R
        /\ \A i \in 1..Len(row) : row[i] = Uncut(Len(rsp_var_binds) + i)
    BY <1>1 DEF IInv, Shapes, Row
  <2>2. /\ Len(row) \in Nat \ {0} /\ Head(row) = row[1] /\ Head(row) \in VarBinds
        /\ row' \in Seq(VarBinds) /\ Len(row') = Len(row) - 1
        /\ \A i \in 1..Len(row') : row'[i] = row[i + 1]
    BY <1>1, <1>3, <2>1
  <2>3. /\ rsp_var_binds' \in Seq(VarBinds) /\ Len(rsp_var_binds') = Len(rsp_var_binds) + 1
        /\ \A k \in 1..Len(rsp_var_binds) : rsp_var_binds'[k] = rsp_var_binds[k]
        /\ rsp_var_binds'[Len(rsp_var_binds) + 1] = Head(row)
    BY <1>3, <2>1, <2>2
  <2>4. Head(row) = Uncut(Len(rsp_var_binds) + 1)
    BY <2>1, <2>2
  <2>5. \A i \in 1..Len(row') : row'[i] = Uncut(Len(rsp_var_binds') + i)
    <3> TAKE i \in 1..Len(row')
    <3>1. i + 1 \in 1..Len(row) BY <2>2
    <3>2. Len(rsp_var_binds) \in Nat /\ i \in Nat BY <2>1, <2>2
    <3>3. Len(rsp_var_binds) + (i + 1) = Len(rsp_var_binds') + i BY <2>3, <3>2
    <3>4. row'[i] = Uncut(Len(rsp_var_binds) + (i + 1)) BY <2>1, <2>2, <3>1
    <3> QED BY <3>3, <3>4
  <2>6. Row'
    <3>1. R' = R /\ N' = N /\ Times' = Times /\ \A k : Uncut(k)' = Uncut(k)
      BY <1>1, CallStays DEF Times
    <3>2. Len(rsp_var_binds') + Len(row') = N' + Times' * R' + R'
      <4>1. Len(rsp_var_binds') + Len(row') = Len(rsp_var_binds) + Len(row)
        BY <2>1, <2>2, <2>3
      <4> QED BY <2>1, <3>1, <4>1
    <3>3. \A i \in 1..Len(row') : row'[i] = Uncut(Len(rsp_var_binds) + i)' BY <2>5, <3>1
    <3> HIDE DEF N, R, Times
    <3> QED BY <2>1, <2>2, <3>1, <3>2, <3>3 DEF Row
  <2>7. Shapes' BY <1>1, <1>3, <2>3, CallStays DEF IInv, Shapes
  <2>8. BeginningOfUncut'
    <3>1. \A k \in DOMAIN rsp_var_binds' : rsp_var_binds'[k] = Uncut(k)
      <4>1. DOMAIN rsp_var_binds' = 1..(Len(rsp_var_binds) + 1) /\ Len(rsp_var_binds) \in Nat
        BY <2>1, <2>3
      <4>2. \A k \in 1..Len(rsp_var_binds) : rsp_var_binds[k] = Uncut(k)
        BY <2>1 DEF IInv, BeginningOfUncut
      <4> QED BY <2>3, <2>4, <4>1, <4>2
    <3> QED BY <1>1, <3>1, CallStays DEF BeginningOfUncut
  <2> QED BY <1>1, <1>3, <2>6, <2>7, <2>8 DEF IInv, Start, Repeat
<1> QED BY <1>2, <1>3 DEF Take

LEMMA RowEnds ==
    ASSUME IInv, EndRow
    PROVE  IInv'
<1>1. /\ pc = "row" /\ row = <<>> /\ pc' = "repeat" /\ M' = M - 1
      /\ UNCHANGED <<call, rsp_var_binds, row>>
      /\ var_binds' = [i \in 1..R |-> Name(LastOf(rsp_var_binds, R)[i])]
  BY DEF EndRow
<1>2. /\ req \in Requests /\ max_var_binds \in MaxVarBinds /\ rsp_var_binds \in Seq(VarBinds)
      /\ M \in Int /\ R > 0 /\ Times \in Nat
      /\ Len(rsp_var_binds) = N + Times * R + R
  <2>1. Len(row) = 0 BY <1>1
  <2>2. Len(rsp_var_binds) + 0 = N + Times * R + R BY <1>1, <2>1 DEF IInv, Row
  <2>3. rsp_var_binds \in Seq(VarBinds) BY DEF IInv, Shapes
  <2>4. Len(rsp_var_binds) \in Nat BY <2>3
  <2> HIDE DEF N, R, Times
  <2> QED BY <1>1, <2>2, <2>3, <2>4 DEF IInv, Shapes, Row
<1>3. N \in Nat /\ R \in Nat /\ Repetitions \in Int BY <1>2, Numbers
<1>4. Times' = Times + 1
  <2>1. Times' = Repetitions - (M - 1) BY <1>1, CallStays DEF Times
  <2> HIDE DEF Repetitions
  <2> QED BY <1>2, <1>3, <2>1 DEF Times
<1>5. Times * R \in Nat /\ Times' * R = Times * R + R
  <2> HIDE DEF N, R, Times
  <2> QED BY <1>2, <1>3, <1>4
<1>6. \A i \in 1..R : LastOf(rsp_var_binds, R)[i] = Uncut(N + Times * R + i)
  <2> TAKE i \in 1..R
  <2>1. LastOf(rsp_var_binds, R)[i] = rsp_var_binds[N + Times * R + i]
    <3> DEFINE front == N + Times * R
    <3>1. front \in Nat /\ Len(rsp_var_binds) = front + R BY <1>2, <1>3, <1>5
    <3> HIDE DEF front, R
    <3>2. LastOf(rsp_var_binds, R) = SubSeq(rsp_var_binds, front + 1, front + R)
      <4>1. Len(rsp_var_binds) - R + 1 = front + 1 BY <1>3, <3>1
      <4> QED BY <3>1, <4>1 DEF LastOf
    <3>3. LastOf(rsp_var_binds, R)[i] = rsp_var_binds[front + i] BY <1>2, <1>3, <3>1, <3>2
    <3> QED BY <3>3 DEF front
  <2>2. N + Times * R + i \in DOMAIN rsp_var_binds
    <3> DEFINE front == N + Times * R
    <3>1. front \in Nat /\ Len(rsp_var_binds) = front + R BY <1>2, <1>3, <1>5
    <3> HIDE DEF front, R
    <3>2. front + i \in DOMAIN rsp_var_binds BY <1>2, <1>3, <3>1
    <3> QED BY <3>2 DEF front
  <2> QED BY <2>1, <2>2 DEF IInv, BeginningOfUncut
<1>7. var_binds' = [i \in 1..R |-> Reached(i, Times')]
  <2>1. \A i \in 1..R : Name(LastOf(rsp_var_binds, R)[i]) = Reached(i, Times')
    <3> TAKE i \in 1..R
    <3>1. Name(Uncut(N + Times * R + i)) = Reached(i, Times + 1)
      <4> HIDE DEF Times
      <4> QED BY <1>2, ReadNextReached
    <3> QED BY <1>4, <1>6, <3>1
  <2> QED BY <1>1, <2>1
<1>8. Repeat'
  <2>1. Times' \in Nat BY <1>2, <1>4
  <2>2. Len(rsp_var_binds') = N + Times' * R
    <3>1. rsp_var_binds' = rsp_var_binds BY <1>1
    <3> HIDE DEF N, R, Times
    <3> QED BY <1>2, <1>3, <1>5, <3>1
  <2> QED BY <1>1, <1>7, <2>1, <2>2, RepeatAgain
<1>9. Shapes' BY <1>1, <1>2, CallStays DEF IInv, Shapes
<1>10. BeginningOfUncut' BY <1>1, CallStays DEF IInv, BeginningOfUncut
<1> QED BY <1>1, <1>8, <1>9, <1>10 DEF IInv, Start, Row

LEMMA NextInv == IInv /\ [Next]_vars => IInv'
<1> SUFFICES ASSUME IInv, [Next]_vars PROVE IInv'
    OBVIOUS
<1>1. CASE ReadNonRepeaters BY <1>1, NonRepeaters
<1>2. CASE ReadRow BY <1>2, RowRead
<1>3. CASE Take BY <1>3, VarBindTaken
<1>4. CASE EndRow BY <1>4, RowEnds
<1>5. CASE Abort \/ Return
  <2>1. pc' \in {"done", "aborted"} /\ UNCHANGED <<call, rsp_var_binds, M>>
    BY <1>5 DEF Abort, Return
  <2>2. Shapes' BY <2>1, CallStays DEF IInv, Shapes
  <2>3. BeginningOfUncut' BY <2>1, CallStays DEF IInv, BeginningOfUncut
  <2> QED BY <2>1, <2>2, <2>3 DEF IInv, Start, Repeat, Row
<1>6. CASE UNCHANGED vars
  <2>1. /\ UNCHANGED <<call, pc, rsp_var_binds, var_binds, row, M>> /\ Times' = Times
    BY <1>6, CallStays DEF vars, Times
  <2>2. Shapes' BY <2>1, CallStays DEF IInv, Shapes
  <2>3. Start' BY <2>1, CallStays DEF IInv, Start
  <2>4. Repeat'
    <3> HIDE DEF N, R, Times
    <3> QED BY <2>1, CallStays, RepeatAgain DEF IInv, Repeat
  <2>5. Row'
    <3> HIDE DEF N, R, Times
    <3> QED BY <2>1, CallStays DEF IInv, Row
  <2>6. BeginningOfUncut' BY <2>1, CallStays DEF IInv, BeginningOfUncut
  <2> QED BY <2>2, <2>3, <2>4, <2>5, <2>6 DEF IInv
<1> QED BY <1>1, <1>2, <1>3, <1>4, <1>5, <1>6 DEF Next

(* However long the MIB, however large its var-binds, whatever the limits  *)
(* and the request: a GETBULK response is the beginning of the one that    *)
(* RFC 3416 prescribes, so that a manager that resumes from its end misses *)
(* nothing (utils.py:139-162).                                             *)
THEOREM BulkBeginning == Spec => []BeginningOfUncut
<1>1. IInv => BeginningOfUncut BY DEF IInv
<1> QED BY <1>1, InitInv, NextInv, PTL DEF Spec

---------------------------------------------------------------------------
(***************************************************************************)
(* Sums.  Induction goes by the least number a statement fails for.        *)
(***************************************************************************)
LEMMA LeastNat ==
    ASSUME NEW T \in SUBSET Nat, T # {}
    PROVE  \E m \in T : \A n \in T : m <= n
<1>1. PICK m \in T : \A n \in T : <<n, m>> \notin OpToRel(<, Nat)
  BY WFMin, NatLessThanWellFounded, Zenon
<1>2. \A n \in T : ~(n < m) BY <1>1 DEF OpToRel
<1> QED BY <1>2

\* f has the sums of the first k elements of w, up to n of them.
Sums(f, w, n) == f = [k \in 0..n |-> IF k = 0 THEN 0 ELSE f[k - 1] + w[k]]

LEMMA SumsExist ==
    ASSUME NEW w, NEW n \in Nat
    PROVE  \E f : Sums(f, w, n)
<1> DEFINE Bad == {m \in Nat : ~\E f : Sums(f, w, m)}
<1> SUFFICES ASSUME Bad # {} PROVE FALSE
    OBVIOUS
<1>1. PICK m \in Bad : \A k \in Bad : m <= k BY LeastNat
<1>2. CASE m = 0
  <2>1. PICK f : f = [k \in 0..0 |-> 0] OBVIOUS
  <2>2. Sums(f, w, 0) BY <2>1 DEF Sums
  <2> QED BY <1>2, <2>2
<1>3. CASE m # 0
  <2>1. m - 1 \in Nat /\ m - 1 \notin Bad BY <1>1, <1>3
  <2>2. PICK g : Sums(g, w, m - 1) BY <2>1
  <2>3. PICK f : f = [k \in 0..m |-> IF k = m THEN g[m - 1] + w[m] ELSE g[k]] OBVIOUS
  <2>4. \A k \in 0..m : f[k] = IF k = 0 THEN 0 ELSE f[k - 1] + w[k]
    <3> TAKE k \in 0..m
    <3>1. CASE k = m
      <4>1. f[k] = g[m - 1] + w[m] /\ f[k - 1] = g[m - 1] BY <1>3, <2>1, <2>3, <3>1
      <4> QED BY <1>3, <3>1, <4>1
    <3>2. CASE k # m
      <4>1. k \in 0..(m - 1) /\ f[k] = g[k] BY <1>3, <2>3, <3>2
      <4>2. g[k] = IF k = 0 THEN 0 ELSE g[k - 1] + w[k] BY <2>2, <4>1 DEF Sums
      <4>3. k # 0 => f[k - 1] = g[k - 1] BY <2>3, <4>1
      <4> QED BY <4>1, <4>2, <4>3
    <3> QED BY <3>1, <3>2
  <2>5. Sums(f, w, m) BY <2>3, <2>4 DEF Sums
  <2> QED BY <2>5
<1> QED BY <1>2, <1>3

\* They are what w makes them, and numbers where w has numbers.
LEMMA SumsAre ==
    ASSUME NEW f, NEW g, NEW v, NEW w, NEW m \in Nat, NEW n \in Nat, n <= m,
           Sums(f, v, m), Sums(g, w, n), \A k \in 1..n : v[k] = w[k]
    PROVE  f[n] = g[n] /\ ((\A k \in 1..n : w[k] \in Nat) => g[n] \in Nat)
<1> DEFINE Bad == {k \in Nat : k <= n /\ ~(f[k] = g[k]
                                             /\ ((\A j \in 1..n : w[j] \in Nat) => g[k] \in Nat))}
<1> SUFFICES ASSUME Bad # {} PROVE FALSE
    OBVIOUS
<1>1. PICK k \in Bad : \A j \in Bad : k <= j BY LeastNat
<1>2. k \in 0..n /\ k \in 0..m BY <1>1
<1>3. /\ f[k] = IF k = 0 THEN 0 ELSE f[k - 1] + v[k]
      /\ g[k] = IF k = 0 THEN 0 ELSE g[k - 1] + w[k]
  BY <1>2 DEF Sums
<1>4. CASE k = 0 BY <1>1, <1>3, <1>4
<1>5. CASE k # 0
  <2>1. k - 1 \in Nat /\ k - 1 <= n /\ k - 1 \notin Bad BY <1>1, <1>2, <1>5
  <2>2. f[k - 1] = g[k - 1] /\ ((\A j \in 1..n : w[j] \in Nat) => g[k - 1] \in Nat) BY <2>1
  <2>3. k \in 1..n /\ v[k] = w[k] BY <1>2, <1>5
  <2>4. f[k] = g[k] BY <1>3, <1>5, <2>2, <2>3
  <2>5. (\A j \in 1..n : w[j] \in Nat) => g[k] \in Nat BY <1>3, <1>5, <2>2, <2>3
  <2> QED BY <2>4, <2>5
<1> QED BY <1>4, <1>5

Octets(vbs) == [k \in 1..Len(vbs) |-> var_bind_size(vbs[k])]

LEMMA SizeIsSum ==
    ASSUME NEW vbs \in Seq(VarBinds)
    PROVE  \E f : Sums(f, Octets(vbs), Len(vbs)) /\ SizeOf(vbs) = f[Len(vbs)]
<1>1. Len(vbs) \in Nat OBVIOUS
<1>2. PICK n, f : n \in Nat /\ n = Len(vbs) /\ Sums(f, Octets(vbs), n) BY <1>1, SumsExist
<1>3. \A g : g = [k \in 0..n |-> IF k = 0 THEN 0 ELSE g[k - 1] + var_bind_size(vbs[k])]
               <=> Sums(g, Octets(vbs), n)
  <2> TAKE g
  <2>1. \A k \in 0..n : (IF k = 0 THEN 0 ELSE g[k - 1] + var_bind_size(vbs[k]))
                        = (IF k = 0 THEN 0 ELSE g[k - 1] + Octets(vbs)[k])
    <3>1. \A k \in 1..n : Octets(vbs)[k] = var_bind_size(vbs[k]) BY <1>2 DEF Octets
    <3> QED BY <3>1
  <2> HIDE DEF Octets, var_bind_size
  <2>2. [k \in 0..n |-> IF k = 0 THEN 0 ELSE g[k - 1] + var_bind_size(vbs[k])]
        = [k \in 0..n |-> IF k = 0 THEN 0 ELSE g[k - 1] + Octets(vbs)[k]]
    BY <2>1
  <2> QED BY <1>2, <2>2 DEF Sums
<1> DEFINE Def(g) == g = [k \in 0..n |-> IF k = 0 THEN 0 ELSE g[k - 1] + var_bind_size(vbs[k])]
<1>4. SizeOf(vbs) = (CHOOSE g : Def(g))[n] BY <1>2, Zenon DEF SizeOf
<1>5. Def(CHOOSE g : Def(g))
  <2>1. Def(f) BY <1>2, <1>3
  <2> HIDE DEF Def
  <2> QED BY <2>1, Zenon
<1>6. Sums(CHOOSE g : Def(g), Octets(vbs), n) BY <1>3, <1>5
<1> HIDE DEF Def
<1> QED BY <1>2, <1>4, <1>6

\* A var-bind more.
LEMMA SizeOfAppend ==
    ASSUME NEW vbs \in Seq(VarBinds), NEW vb \in VarBinds
    PROVE  SizeOf(Append(vbs, vb)) = SizeOf(vbs) + var_bind_size(vb)
<1>1. PICK longer : longer = Append(vbs, vb) OBVIOUS
<1>2. PICK n \in Nat : n = Len(vbs) OBVIOUS
<1>3. /\ longer \in Seq(VarBinds) /\ Len(longer) = n + 1 /\ longer[n + 1] = vb
      /\ \A k \in 1..n : longer[k] = vbs[k]
  BY <1>1, <1>2
<1>4. PICK f, g : /\ Sums(f, Octets(longer), n + 1) /\ SizeOf(longer) = f[n + 1]
                  /\ Sums(g, Octets(vbs), n) /\ SizeOf(vbs) = g[n]
  BY <1>2, <1>3, SizeIsSum
<1>5. /\ \A k \in 1..n : Octets(longer)[k] = Octets(vbs)[k]
      /\ Octets(longer)[n + 1] = var_bind_size(vb)
  <2> HIDE DEF var_bind_size
  <2> QED BY <1>2, <1>3 DEF Octets
<1>6. f[n] = g[n]
  <2>1. n + 1 \in Nat /\ n <= n + 1 OBVIOUS
  <2> QED BY <1>4, <1>5, <2>1, SumsAre
<1>7. f[n + 1] = f[n] + Octets(longer)[n + 1]
  <2>1. n + 1 \in 0..(n + 1) /\ n + 1 # 0 /\ (n + 1) - 1 = n OBVIOUS
  <2> QED BY <1>4, <2>1 DEF Sums
<1> QED BY <1>1, <1>4, <1>5, <1>6, <1>7

LEMMA SizeInNat ==
    ASSUME NEW vbs \in Seq(VarBinds), \A k \in 1..Len(vbs) : var_bind_size(vbs[k]) \in Nat
    PROVE  SizeOf(vbs) \in Nat
<1>1. PICK n, g : n \in Nat /\ n = Len(vbs) /\ Sums(g, Octets(vbs), n) /\ SizeOf(vbs) = g[n]
  <2>1. Len(vbs) \in Nat OBVIOUS
  <2> QED BY <2>1, SizeIsSum
<1>2. \A k \in 1..n : Octets(vbs)[k] \in Nat
  <2> HIDE DEF var_bind_size
  <2> QED BY <1>1 DEF Octets
<1>3. g[n] \in Nat
  <2>1. \A k \in 1..n : Octets(vbs)[k] = Octets(vbs)[k] OBVIOUS
  <2> QED BY <1>1, <1>2, <2>1, SumsAre
<1> QED BY <1>1, <1>3

---------------------------------------------------------------------------
(***************************************************************************)
(* What Fits and CutForSize rest on: the octets counted are those of the   *)
(* response, and a row is read only while a repetition is left.            *)
(***************************************************************************)
Measured ==
    /\ octets \in Sizes /\ M \in Nat /\ (pc = "row" => M > 0)
    /\ SizeOf(rsp_var_binds) \in Nat
    /\ pc \in {"start", "repeat", "row"} => size = SizeOf(rsp_var_binds)

SizeInv == IInv /\ Measured /\ Fits /\ CutForSize

\* Sizes of responses and of var-binds, the sizes of the instances given.
One(oct, vb) == IF vb[2] = "value" THEN oct[Name(vb)] ELSE EndSize

Total(oct, vbs) ==
    LET sum[k \in 0..Len(vbs)] == IF k = 0 THEN 0 ELSE sum[k - 1] + One(oct, vbs[k])
    IN  sum[Len(vbs)]

LEMMA Totals ==
    /\ \A vbs : SizeOf(vbs) = Total(octets, vbs)
    /\ \A vb : var_bind_size(vb) = One(octets, vb)
    /\ SizeOf(rsp_var_binds)' = Total(octets', rsp_var_binds')
BY Zenon DEF SizeOf, Total, var_bind_size, One

\* The var-bind that a response is cut in front of.
LEMMA FollowingStays ==
    ASSUME UNCHANGED <<call, rsp_var_binds>>
    PROVE  var_bind_size(Uncut(Len(rsp_var_binds) + 1))' = var_bind_size(Uncut(Len(rsp_var_binds) + 1))
BY DEF call, var_bind_size, Uncut, N, R, ReadNext, Name, Smaller

LEMMA SizeStays ==
    ASSUME UNCHANGED <<call, rsp_var_binds>>
    PROVE  SizeOf(rsp_var_binds)' = SizeOf(rsp_var_binds)
BY Totals DEF call

\* As many rows as there are repetitions have room.
LEMMA Rows ==
    ASSUME req \in Requests, max_var_binds \in MaxVarBinds
    PROVE  /\ Repetitions \in Nat /\ max_var_binds \in Nat
           /\ R > 0 => R * Repetitions <= max_var_binds
<1>1. max_var_binds \in Nat /\ req.max_repetitions \in Nat BY BulkAssumption
<1>2. R \in Nat BY Numbers
<1>3. ASSUME R > 0 PROVE /\ max_var_binds \div R \in Nat /\ R * (max_var_binds \div R) <= max_var_binds
  <2> HIDE DEF R
  <2> QED BY <1>1, <1>2, <1>3
<1>4. Repetitions \in Nat BY <1>1, <1>2, <1>3 DEF Repetitions, Smaller
<1>5. ASSUME R > 0 PROVE R * Repetitions <= max_var_binds
  <2>1. Repetitions <= max_var_binds \div R BY <1>1, <1>3, <1>5 DEF Repetitions, Smaller
  <2> HIDE DEF R, Repetitions
  <2>2. R * Repetitions <= R * (max_var_binds \div R) BY <1>2, <1>3, <1>4, <1>5, <2>1
  <2> QED BY <1>1, <1>2, <1>3, <1>4, <1>5, <2>2
<1> QED BY <1>1, <1>4, <1>5

\* Var-binds that hold a value are instances, and these have a size.
LEMMA UncutSized ==
    ASSUME req \in Requests, max_var_binds \in MaxVarBinds, octets \in Sizes,
           NEW k \in Nat \ {0}, k <= N \/ R > 0
    PROVE  var_bind_size(Uncut(k)) \in Nat
<1>1. /\ Instances \in Nat /\ N \in Nat /\ R \in Nat /\ N + R = Len(req.var_binds)
      /\ EndSize \in Nat /\ octets \in [1..Instances -> Nat]
  BY Numbers, BulkAssumption
<1>2. CASE k <= N
  <2>1. req.var_binds[k] \in 0..Instances
    <3>1. k \in 1..(N + R)
      <4> HIDE DEF N, R
      <4> QED BY <1>1, <1>2
    <3> QED BY <3>1, Asked
  <2>2. Uncut(k) = ReadNext(req.var_binds[k]) BY <1>2 DEF Uncut
  <2> QED BY <1>1, <2>1, <2>2 DEF ReadNext, var_bind_size, Name
<1>3. CASE ~(k <= N)
  <2> DEFINE column == N + 1 + ((k - N - 1) % R)
             times  == 1 + ((k - N - 1) \div R)
             at     == req.var_binds[column]
  <2>1. R > 0 BY <1>3
  <2>2. column \in 1..(N + R) /\ times \in Nat \ {0}
    <3> HIDE DEF N, R
    <3>1. k - N - 1 \in Nat BY <1>1, <1>3
    <3>2. (k - N - 1) % R \in 0..(R - 1) /\ (k - N - 1) \div R \in Nat BY <1>1, <2>1, <3>1
    <3> QED BY <1>1, <3>2
  <2>3. at \in 0..Instances BY <2>2, Asked
  <2>4. Uncut(k) = IF at + times <= Instances THEN <<at + times, "value">> ELSE <<Instances, "endOfMib">>
    BY <1>3 DEF Uncut
  <2> HIDE DEF at, times, column, N, R
  <2> QED BY <1>1, <2>2, <2>3, <2>4 DEF var_bind_size, Name
<1> QED BY <1>2, <1>3

LEMMA SizeInit == Init => SizeInv
<1> SUFFICES ASSUME Init PROVE SizeInv
    OBVIOUS
<1>1. /\ req \in Requests /\ max_var_binds \in MaxVarBinds /\ octets \in Sizes /\ pc = "start"
      /\ rsp_var_binds = <<>> /\ size = 0 /\ M = Repetitions
  BY DEF Init
<1>2. N \in Nat BY <1>1, Numbers
<1>3. SizeOf(rsp_var_binds) = 0
  <2>1. rsp_var_binds \in Seq(VarBinds) /\ Len(rsp_var_binds) = 0 BY <1>1
  <2>2. PICK f : Sums(f, Octets(rsp_var_binds), 0) /\ SizeOf(rsp_var_binds) = f[0]
    BY <2>1, SizeIsSum
  <2>3. f[0] = 0 BY <2>2 DEF Sums
  <2> QED BY <2>2, <2>3
<1>4. Measured BY <1>1, <1>3, Rows DEF Measured
<1>5. Fits
  <2>1. Len(rsp_var_binds) = 0 /\ max_var_binds \in Nat BY <1>1, Rows
  <2> HIDE DEF N
  <2> QED BY <1>2, <2>1 DEF Fits
<1>6. CutForSize BY <1>1 DEF CutForSize
<1> QED BY <1>4, <1>5, <1>6, InitInv DEF SizeInv

\* A step that leaves the response alone, and does not end it.
LEMMA ResponseStays ==
    ASSUME SizeInv, UNCHANGED <<call, rsp_var_binds, size>>, IInv', M' \in Nat, pc' = "row" => M' > 0,
           pc' \in {"start", "repeat", "row"} => pc \in {"start", "repeat", "row"},
           pc' = "done" => CutForSize'
    PROVE  SizeInv'
<1>1. SizeOf(rsp_var_binds)' = SizeOf(rsp_var_binds) BY SizeStays
<1>2. N' = N /\ max_var_binds' = max_var_binds /\ octets' = octets BY CallStays DEF call
<1>3. Measured' BY <1>1, <1>2 DEF SizeInv, Measured
<1>4. Fits'
  <2> HIDE DEF N
  <2> QED BY <1>1, <1>2 DEF SizeInv, Fits
<1>5. CutForSize' BY DEF CutForSize
<1> QED BY <1>3, <1>4, <1>5 DEF SizeInv

LEMMA NonRepeatersMeasured ==
    ASSUME SizeInv, ReadNonRepeaters
    PROVE  SizeInv'
<1>1. IInv' BY NonRepeaters DEF SizeInv
<1>2. /\ pc = "start" /\ pc' = "repeat" /\ UNCHANGED <<call, M>>
      /\ size' = SizeOf(rsp_var_binds')
  BY DEF ReadNonRepeaters
<1>3. /\ req \in Requests /\ max_var_binds \in MaxVarBinds /\ octets \in Sizes
      /\ M \in Nat /\ M = Repetitions
  BY <1>2 DEF SizeInv, IInv, Shapes, Start, Measured
<1>4. /\ N' = N /\ R' = R /\ Repetitions' = Repetitions /\ max_var_binds' = max_var_binds
      /\ octets' = octets /\ \A k : Uncut(k)' = Uncut(k)
  BY <1>2, CallStays DEF call
<1>5. N \in Nat /\ R \in Nat /\ Repetitions \in Nat /\ max_var_binds \in Nat
  BY <1>3, Numbers, Rows
<1>6. rsp_var_binds' \in Seq(VarBinds) /\ Len(rsp_var_binds') = N
  <2>1. rsp_var_binds' \in Seq(VarBinds) /\ Len(rsp_var_binds') = N' + Times' * R'
    BY <1>1, <1>2 DEF IInv, Shapes, Repeat
  <2>2. Times' = 0 BY <1>2, <1>3, <1>4, <1>5 DEF Times
  <2> HIDE DEF N, R, Times
  <2> QED BY <1>4, <1>5, <2>1, <2>2
<1>7. SizeOf(rsp_var_binds') \in Nat
  <2>1. ASSUME NEW k \in 1..Len(rsp_var_binds') PROVE var_bind_size(rsp_var_binds'[k]) \in Nat
    <3>1. rsp_var_binds'[k] = Uncut(k)
      <4>1. k \in DOMAIN rsp_var_binds' BY <1>6
      <4> QED BY <1>1, <1>4, <4>1 DEF IInv, BeginningOfUncut
    <3>2. k \in Nat \ {0} /\ k <= N
      <4> HIDE DEF N
      <4> QED BY <1>5, <1>6
    <3> QED BY <1>3, <3>1, <3>2, UncutSized
  <2> QED BY <1>6, <2>1, SizeInNat
<1>8. SizeOf(rsp_var_binds)' = SizeOf(rsp_var_binds') BY <1>4, Totals
<1>9. Measured' BY <1>2, <1>3, <1>4, <1>7, <1>8 DEF Measured
<1>10. Fits'
  <2>1. Len(rsp_var_binds') - N' <= max_var_binds' /\ Len(rsp_var_binds') <= N'
    <3> HIDE DEF N
    <3> QED BY <1>4, <1>5, <1>6
  <2> HIDE DEF N
  <2> QED BY <2>1 DEF Fits
<1>11. CutForSize' BY <1>2 DEF CutForSize
<1> QED BY <1>1, <1>9, <1>10, <1>11 DEF SizeInv

LEMMA TakenMeasured ==
    ASSUME SizeInv, Take
    PROVE  SizeInv'
<1>1. IInv' BY VarBindTaken DEF SizeInv
<1>2. /\ pc = "row" /\ row # <<>> /\ UNCHANGED <<call, M>>
      /\ size' = size + var_bind_size(Head(row))
      /\ \/ /\ size' > MaxResponseSize /\ rsp_var_binds # <<>> /\ pc' = "done"
            /\ UNCHANGED <<rsp_var_binds, row>>
         \/ /\ ~(size' > MaxResponseSize /\ rsp_var_binds # <<>>) /\ pc' = pc
            /\ rsp_var_binds' = Append(rsp_var_binds, Head(row)) /\ row' = Tail(row)
  BY DEF Take
<1>3. /\ req \in Requests /\ max_var_binds \in MaxVarBinds /\ octets \in Sizes
      /\ M \in Nat /\ M > 0 /\ SizeOf(rsp_var_binds) \in Nat /\ size = SizeOf(rsp_var_binds)
      /\ rsp_var_binds \in Seq(VarBinds) /\ row \in Seq(VarBinds) /\ R > 0 /\ Times \in Nat
      /\ Len(rsp_var_binds) + Len(row) = N + Times * R + R
      /\ \A i \in 1..Len(row) : row[i] = Uncut(Len(rsp_var_binds) + i)
  BY <1>2 DEF SizeInv, IInv, Shapes, Row, Measured
<1>4. /\ N' = N /\ max_var_binds' = max_var_binds /\ octets' = octets
  BY <1>2, CallStays DEF call
<1>5. N \in Nat /\ R \in Nat /\ Repetitions \in Nat /\ max_var_binds \in Nat /\ MaxResponseSize \in Nat
      /\ R * Repetitions <= max_var_binds
  BY <1>3, Numbers, Rows, BulkAssumption
<1>6. PICK vb : vb = Head(row) OBVIOUS
<1>7. vb \in VarBinds /\ vb = row[1] /\ Len(row) \in Nat \ {0} /\ Len(rsp_var_binds) \in Nat
  BY <1>2, <1>3, <1>6
<1>8. vb = Uncut(Len(rsp_var_binds) + 1) BY <1>3, <1>7
<1>9. var_bind_size(vb) \in Nat
  <2>1. Len(rsp_var_binds) + 1 \in Nat \ {0} BY <1>7
  <2> QED BY <1>3, <1>8, <2>1, UncutSized
<1>10. CASE size' > MaxResponseSize /\ rsp_var_binds # <<>> /\ pc' = "done" /\ UNCHANGED rsp_var_binds
  <2>1. SizeOf(rsp_var_binds)' = SizeOf(rsp_var_binds) BY <1>2, <1>10, SizeStays
  <2>2. var_bind_size(Uncut(Len(rsp_var_binds) + 1))' = var_bind_size(Uncut(Len(rsp_var_binds) + 1))
    BY <1>2, <1>10, FollowingStays
  <2>3. SizeOf(rsp_var_binds) + var_bind_size(Uncut(Len(rsp_var_binds) + 1)) > MaxResponseSize
    BY <1>2, <1>3, <1>6, <1>8, <1>10
  <2>4. CutForSize' BY <1>10, <2>1, <2>2, <2>3 DEF CutForSize
  <2>5. Measured' BY <1>2, <1>3, <1>4, <1>10, <2>1 DEF Measured
  <2>6. Fits'
    <3> HIDE DEF N
    <3> QED BY <1>4, <1>10, <2>1 DEF SizeInv, Fits
  <2> QED BY <1>1, <2>4, <2>5, <2>6 DEF SizeInv
<1>11. CASE /\ ~(size' > MaxResponseSize /\ rsp_var_binds # <<>>) /\ pc' = "row"
            /\ rsp_var_binds' = Append(rsp_var_binds, vb)
  <2>1. Len(rsp_var_binds') = Len(rsp_var_binds) + 1 BY <1>3, <1>7, <1>11
  <2>2. SizeOf(rsp_var_binds') = SizeOf(rsp_var_binds) + var_bind_size(vb)
    BY <1>3, <1>7, <1>11, SizeOfAppend
  <2>3. SizeOf(rsp_var_binds)' = SizeOf(rsp_var_binds') BY <1>4, Totals
  <2>4. SizeOf(rsp_var_binds)' \in Nat /\ SizeOf(rsp_var_binds)' = size'
    BY <1>2, <1>3, <1>6, <1>9, <2>2, <2>3
  <2>5. SizeOf(rsp_var_binds)' <= MaxResponseSize \/ Len(rsp_var_binds') = 1
    <3>1. CASE rsp_var_binds = <<>>
      <4>1. Len(rsp_var_binds) = 0 BY <3>1
      <4> QED BY <2>1, <4>1
    <3>2. CASE rsp_var_binds # <<>>
      <4>1. ~(size' > MaxResponseSize) BY <1>11, <3>2
      <4> QED BY <1>5, <2>4, <4>1
    <3> QED BY <3>1, <3>2
  <2>6. Len(rsp_var_binds') - N <= max_var_binds
    <3>1. Times + 1 <= Repetitions /\ Times + 1 \in Nat
      <4> HIDE DEF Repetitions
      <4> QED BY <1>3, <1>5 DEF Times
    <3> HIDE DEF N, R, Repetitions, Times
    <3>2. R * (Times + 1) <= R * Repetitions /\ R * (Times + 1) = Times * R + R
          /\ Times * R \in Nat /\ R * Repetitions \in Nat
      BY <1>3, <1>5, <3>1
    <3>3. Len(rsp_var_binds') <= N + Times * R + R BY <1>3, <1>5, <1>7, <2>1, <3>2
    <3> QED BY <1>5, <1>7, <2>1, <3>2, <3>3
  <2>7. Fits'
    <3> HIDE DEF N
    <3> QED BY <1>4, <2>5, <2>6 DEF Fits
  <2>8. Measured' BY <1>2, <1>3, <1>4, <1>11, <2>4 DEF Measured
  <2>9. CutForSize' BY <1>11 DEF CutForSize
  <2> QED BY <1>1, <2>7, <2>8, <2>9 DEF SizeInv
<1> QED BY <1>2, <1>6, <1>10, <1>11

LEMMA SizeNext == SizeInv /\ [Next]_vars => SizeInv'
<1> SUFFICES ASSUME SizeInv, [Next]_vars PROVE SizeInv'
    OBVIOUS
<1>1. IInv' BY NextInv DEF SizeInv
<1>2. /\ req \in Requests /\ max_var_binds \in MaxVarBinds /\ M \in Nat /\ (pc = "row" => M > 0)
  BY DEF SizeInv, IInv, Shapes, Measured
<1>3. CASE ReadNonRepeaters BY <1>3, NonRepeatersMeasured
<1>4. CASE Take BY <1>4, TakenMeasured
<1>5. CASE ReadRow
  <2>1. pc = "repeat" /\ pc' = "row" /\ M > 0 /\ UNCHANGED <<call, rsp_var_binds, size, M>>
    BY <1>5 DEF ReadRow
  <2> QED BY <1>1, <1>2, <2>1, ResponseStays
<1>6. CASE EndRow
  <2>1. pc = "row" /\ pc' = "repeat" /\ M' = M - 1 /\ UNCHANGED <<call, rsp_var_binds, size>>
    BY <1>6 DEF EndRow
  <2>2. M' \in Nat BY <1>2, <2>1
  <2> QED BY <1>1, <2>1, <2>2, ResponseStays
<1>7. CASE Abort
  <2>1. pc' = "aborted" /\ UNCHANGED <<call, rsp_var_binds, size, M>> BY <1>7 DEF Abort
  <2> QED BY <1>1, <1>2, <2>1, ResponseStays
<1>8. CASE Return
  <2>1. /\ pc = "repeat" /\ pc' = "done" /\ ~(M > 0 /\ R > 0)
        /\ UNCHANGED <<call, rsp_var_binds, size, M>>
    BY <1>8 DEF Return
  <2>2. Times \in Nat /\ Len(rsp_var_binds) = N + Times * R BY <2>1 DEF SizeInv, IInv, Repeat
  <2>3. N \in Nat /\ R \in Nat /\ Repetitions \in Nat BY <1>2, Numbers, Rows
  <2>4. N' = N /\ R' = R /\ Repetitions' = Repetitions BY <2>1, CallStays
  <2>5. Len(rsp_var_binds) = N + R * Repetitions
    <3>1. R = 0 \/ Times = Repetitions
      <4> HIDE DEF R, Repetitions
      <4> QED BY <1>2, <2>1, <2>3 DEF Times
    <3> HIDE DEF N, R, Repetitions, Times
    <3> QED BY <2>2, <2>3, <3>1
  <2>6. CutForSize'
    <3> HIDE DEF N, R, Repetitions
    <3> QED BY <2>1, <2>4, <2>5 DEF CutForSize
  <2> QED BY <1>1, <1>2, <2>1, <2>6, ResponseStays
<1>9. CASE UNCHANGED vars
  <2>1. UNCHANGED <<call, pc, rsp_var_binds, size, M>> BY <1>9 DEF vars
  <2>2. CutForSize'
    <3>1. N' = N /\ R' = R /\ Repetitions' = Repetitions BY <2>1, CallStays
    <3>2. SizeOf(rsp_var_binds)' = SizeOf(rsp_var_binds) BY <2>1, SizeStays
    <3>3. var_bind_size(Uncut(Len(rsp_var_binds) + 1))'
          = var_bind_size(Uncut(Len(rsp_var_binds) + 1))
      BY <2>1, FollowingStays
    <3> HIDE DEF N, R, Repetitions
    <3> QED BY <2>1, <3>1, <3>2, <3>3 DEF SizeInv, CutForSize
  <2> QED BY <1>1, <1>2, <2>1, <2>2, ResponseStays
<1> QED BY <1>3, <1>4, <1>5, <1>6, <1>7, <1>8, <1>9 DEF Next

(* Repetitions never make a response outgrow max_response_size and         *)
(* max_var_binds, but for the single var-bind that always goes out         *)
(* (utils.py:139-162).                                                     *)
THEOREM BulkFits == Spec => []Fits
<1>1. SizeInv => Fits BY DEF SizeInv
<1> QED BY <1>1, SizeInit, SizeNext, PTL DEF Spec

(* A response that is shorter than what was asked for and allowed is one   *)
(* that the next var-bind does not fit into.                               *)
THEOREM BulkCutForSize == Spec => []CutForSize
<1>1. SizeInv => CutForSize BY DEF SizeInv
<1> QED BY <1>1, SizeInit, SizeNext, PTL DEF Spec
=============================================================================
