---------------------------- MODULE WriteCacheProofs ----------------------------
(***************************************************************************)
(* What the cache of writecache holds, for any data files, settings and    *)
(* requests: values of one type per OID, none that is denied, and between  *)
(* requests what the manager takes to be there.                            *)
(***************************************************************************)
EXTENDS WriteCache, TLAPS

Types == {"none", "int", "str"}

\* A value is not denied by some record of its OID.
Admitted(o, v) ==
    v # NoValue =>
       \E k \in DOMAIN records : k[2] = o /\ ~Denies(records[k], v, ERROR_TYPES)

Shapes ==
    /\ records \in Records
    /\ settings \in [DOMAIN records -> {"none", "parsed", "half"}]
    /\ type \in [Oids -> Types]
    /\ cache \in [Oids -> ValueOf] /\ stored \in [Oids -> ValueOf]
    /\ rsp \in Seq(ValueOf)
    /\ request # <<>> =>
          /\ Req \in Requests
          /\ \A i \in DOMAIN Req.var_binds : <<Req.file, Req.var_binds[i].oid>> \in DOMAIN records

\* Settings are half parsed only where they do not parse.
HalfOfMalformed ==
    \A k \in DOMAIN records : settings[k] = "half" => records[k].malformed

\* Without a file there is nothing of another life; and what is cached has a type.
TypedCache ==
    ~file => \A o \in Oids : cache[o] # NoValue => cache[o].type = type[o] /\ type[o] # "none"

\* A crash brings back what was stored: it has to be admitted as well.
AllAdmitted == \A o \in Oids : Admitted(o, cache[o]) /\ Admitted(o, stored[o])

IInv == Shapes /\ HalfOfMalformed /\ TypedCache /\ AllAdmitted

LEMMA InitInv == Init => IInv
<1> SUFFICES ASSUME Init PROVE IInv
    OBVIOUS
<1>1. NoValue \in ValueOf BY DEF NoValue, ValueOf
<1> QED BY <1>1 DEF Init, IInv, Shapes, HalfOfMalformed, TypedCache, AllAdmitted, Admitted, Types

LEMMA ElementOfSeq == ASSUME NEW S, NEW s \in Seq(S), NEW i \in DOMAIN s PROVE s[i] \in S
OBVIOUS

\* The var-bind being served, its record and its OID are what they should be.
LEMMA Served ==
    ASSUME IInv, Serving
    PROVE  /\ Index \in DOMAIN Req.var_binds /\ Key \in DOMAIN records /\ Key[2] = Oid
           /\ Oid \in Oids /\ VarBind.value \in ValueOf
           /\ Rec.type \in {"int", "str"} /\ Rec.value \in ValueOf
<1>1. /\ request # <<>> /\ Req \in Requests /\ records \in Records
      /\ rsp \in Seq(ValueOf) /\ Len(rsp) + 1 <= Len(Req.var_binds)
      /\ \A i \in DOMAIN Req.var_binds : <<Req.file, Req.var_binds[i].oid>> \in DOMAIN records
  BY DEF IInv, Shapes, Serving, Index
<1>2. Req.var_binds \in Seq([oid : Oids, exact : BOOLEAN, value : ValueOf])
  BY <1>1, CacheAssumption
<1>3. Index \in DOMAIN Req.var_binds
  <2>1. Len(rsp) \in Nat BY <1>1
  <2>2. DOMAIN Req.var_binds = 1..Len(Req.var_binds) /\ Len(Req.var_binds) \in Nat BY <1>2
  <2> QED BY <1>1, <2>1, <2>2 DEF Index
<1>4. VarBind \in [oid : Oids, exact : BOOLEAN, value : ValueOf]
  BY <1>2, <1>3, ElementOfSeq DEF VarBind
<1>5. Key \in DOMAIN records BY <1>1, <1>3 DEF Key, VarBind
<1>6. Rec.type \in {"int", "str"} /\ Rec.value \in ValueOf
  BY <1>1, <1>5, CacheAssumption DEF Rec
<1> QED BY <1>3, <1>4, <1>5, <1>6 DEF Key, Oid

\* A value the access list lets through, as far as it was parsed, is admitted.
LEMMA Passed ==
    ASSUME IInv, Serving, Error \notin ERROR_TYPES
    PROVE  Admitted(Oid, VarBind.value)
<1> DEFINE v == VarBind.value
<1>1. Key \in DOMAIN records /\ Key[2] = Oid BY Served
<1>2. ~Denies(Rec, v, ERROR_TYPES)
  <2>1. CASE Half
    <3>1. Rec.malformed BY <1>1, <2>1 DEF Half, Rec, IInv, HalfOfMalformed
    <3> QED BY <3>1 DEF Denies
  <2>2. CASE ~Half
    <3>1. Verdict(v) \notin ERROR_TYPES BY <2>2 DEF Error
    <3>2. NoRule.error \notin ERROR_TYPES BY DEF NoRule, ERROR_TYPES
    <3> QED BY <3>1, <3>2 DEF Denies, Verdict
  <2> QED BY <2>1, <2>2
<1> QED BY <1>1, <1>2 DEF Admitted, Rec

\* Parsing settings and noting the type of the OID disturbs nothing.
LEMMA Prepared ==
    ASSUME IInv, Ready, Prepare, UNCHANGED records
    PROVE  /\ settings' \in [DOMAIN records -> {"none", "parsed", "half"}]
           /\ type' \in [Oids -> Types]
           /\ HalfOfMalformed'
           /\ type'[Oid] = TypeNow /\ TypeNow \in {"int", "str"}
           /\ \A o \in Oids : type[o] # "none" => type'[o] = type[o]
<1>1. /\ Key \in DOMAIN records /\ Oid \in Oids /\ Rec.type \in {"int", "str"}
  BY Served DEF Ready
<1>2. /\ settings \in [DOMAIN records -> {"none", "parsed", "half"}] /\ type \in [Oids -> Types]
  BY DEF IInv, Shapes
<1>3. TypeNow \in {"int", "str"} BY <1>1, <1>2 DEF TypeNow, Types
<1>4. type' = [type EXCEPT ![Oid] = TypeNow] BY DEF Prepare
<1>5. settings' = [settings EXCEPT ![Key] = IF Half THEN "half" ELSE "parsed"] BY DEF Prepare
<1>6. type'[Oid] = TypeNow /\ \A o \in Oids : type[o] # "none" => type'[o] = type[o]
  BY <1>1, <1>2, <1>4 DEF TypeNow
<1>7. \A k \in DOMAIN records : settings'[k] = "half" => settings[k] = "half"
  BY <1>1, <1>2, <1>5 DEF Half
<1>8. HalfOfMalformed' BY <1>7 DEF IInv, HalfOfMalformed
<1> QED BY <1>1, <1>2, <1>3, <1>4, <1>5, <1>6, <1>8 DEF Types

\* How a var-bind ends, with an answer or with an error.
LEMMA Ended ==
    ASSUME IInv, Serving, \/ \E v \in ValueOf : Answer(v)
                          \/ Fail
    PROVE  /\ UNCHANGED <<records, file, stored>> /\ rsp' \in Seq(ValueOf)
           /\ request' # <<>> => UNCHANGED request
<1>1. rsp \in Seq(ValueOf) BY DEF IInv, Shapes
<1>2. ASSUME NEW v \in ValueOf, Answer(v) PROVE rsp' \in Seq(ValueOf)
  BY <1>1, <1>2 DEF Answer
<1>3. Fail => rsp' = <<>> /\ request' = <<>> /\ UNCHANGED <<records, file, stored>>
  BY Zenon DEF Fail
<1>4. \A v : Answer(v) => UNCHANGED <<records, file, stored, request>> BY DEF Answer
<1>5. <<>> \in Seq(ValueOf) OBVIOUS
<1> QED BY <1>2, <1>3, <1>4, <1>5

\* A step that ends a var-bind, and writes nothing or a value that is admitted.
LEMMA ServedInv ==
    ASSUME IInv, Ready, Prepare,
           \/ \E v \in ValueOf : Answer(v)
           \/ Fail,
           \/ UNCHANGED cache
           \/ /\ cache' = [cache EXCEPT ![Oid] = VarBind.value]
              /\ VarBind.value.type = TypeNow /\ Error \notin ERROR_TYPES
    PROVE  IInv'
<1>0. Serving BY DEF Ready
<1>1. /\ UNCHANGED <<records, file, stored>> /\ rsp' \in Seq(ValueOf)
      /\ request' # <<>> => UNCHANGED request
  BY <1>0, Ended
<1>2. Oid \in Oids /\ VarBind.value \in ValueOf BY <1>0, Served
<1>3. /\ settings' \in [DOMAIN records -> {"none", "parsed", "half"}]
      /\ type' \in [Oids -> Types] /\ HalfOfMalformed'
      /\ type'[Oid] = TypeNow /\ TypeNow \in {"int", "str"}
      /\ \A o \in Oids : type[o] # "none" => type'[o] = type[o]
  BY <1>1, Prepared
<1>4. \A o \in Oids : \/ cache'[o] = cache[o]
                      \/ /\ o = Oid /\ cache'[o] = VarBind.value
                         /\ VarBind.value.type = TypeNow /\ Error \notin ERROR_TYPES
  BY <1>2 DEF IInv, Shapes
<1>5. Shapes'
  <2>1. cache' \in [Oids -> ValueOf] BY <1>2 DEF IInv, Shapes
  <2>2. records' \in Records /\ stored' \in [Oids -> ValueOf] BY <1>1 DEF IInv, Shapes
  <2>3. request' # <<>> =>
          /\ Req' \in Requests
          /\ \A i \in DOMAIN Req'.var_binds : <<Req'.file, Req'.var_binds[i].oid>> \in DOMAIN records
    BY <1>1 DEF IInv, Shapes, Req
  <2> QED BY <1>1, <1>3, <2>1, <2>2, <2>3 DEF Shapes
<1>6. TypedCache'
  <2> SUFFICES ASSUME ~file, NEW o \in Oids, cache'[o] # NoValue
               PROVE  cache'[o].type = type'[o] /\ type'[o] # "none"
    BY <1>1 DEF TypedCache
  <2>1. CASE cache'[o] = cache[o] BY <1>3, <2>1 DEF IInv, TypedCache
  <2>2. CASE cache'[o] # cache[o] BY <1>3, <1>4, <2>2
  <2> QED BY <2>1, <2>2
<1>7. AllAdmitted'
  <2> SUFFICES ASSUME NEW o \in Oids PROVE Admitted(o, cache'[o]) /\ Admitted(o, stored[o])
    BY <1>1 DEF AllAdmitted, Admitted
  <2>1. CASE cache'[o] = cache[o] BY <2>1 DEF IInv, AllAdmitted
  <2>2. CASE cache'[o] # cache[o] BY <1>0, <1>4, <2>2, Passed DEF IInv, AllAdmitted
  <2> QED BY <2>1, <2>2
<1> QED BY <1>3, <1>5, <1>6, <1>7 DEF IInv

\* What variate responds with in the end.
LEMMA Responded ==
    ASSUME IInv, Ready, NEW c \in [Oids -> ValueOf], Respond(c)
    PROVE  (\E v \in ValueOf : Answer(v)) \/ Fail
<1>0. Oid \in Oids /\ Rec.value \in ValueOf /\ Rec.type \in {"int", "str"}
  BY Served DEF Ready
<1>1. TypeNow \in Types BY <1>0 DEF TypeNow, IInv, Shapes, Types
<1>2. [Rec.value EXCEPT !.type = TypeNow] \in ValueOf BY <1>0, <1>1 DEF ValueOf, Types
<1>3. Initial \in ValueOf BY <1>2 DEF Initial, NoValue, ValueOf
<1>4. (IF c[Oid] # NoValue THEN c[Oid] ELSE Initial) \in ValueOf BY <1>0, <1>3
<1> QED BY <1>4 DEF Respond

\* The end of the responder, with what the cache starts from afterwards.
LEMMA RestartInv ==
    ASSUME IInv, NEW c \in [Oids -> ValueOf], Restart(c),
           \A o \in Oids : c[o] \in {NoValue, cache[o], stored[o]},
           ~file => \A o \in Oids : c[o] = NoValue
    PROVE  IInv'
<1>1. /\ cache' = c /\ stored' = c /\ request' = <<>> /\ rsp' = <<>>
      /\ settings' = [k \in DOMAIN records |-> "none"] /\ type' = [o \in Oids |-> "none"]
      /\ UNCHANGED <<records, file>>
  BY DEF Restart
<1>2. Shapes' BY <1>1 DEF IInv, Shapes, Types
<1>3. HalfOfMalformed' BY <1>1 DEF HalfOfMalformed
<1>4. TypedCache' BY <1>1 DEF TypedCache
<1>5. \A o \in Oids : Admitted(o, c[o]) BY DEF IInv, AllAdmitted, Admitted
<1>6. AllAdmitted' BY <1>1, <1>5 DEF AllAdmitted, Admitted
<1> QED BY <1>2, <1>3, <1>4, <1>6 DEF IInv

LEMMA NextInv == IInv /\ [Next]_vars => IInv'
<1> SUFFICES ASSUME IInv, [Next]_vars PROVE IInv'
    OBVIOUS
<1>v. NoValue \in ValueOf BY DEF NoValue, ValueOf
\* Whatever concerns requests only.
<1>r. ASSUME UNCHANGED <<records, file, moduleVars>>, rsp' \in Seq(ValueOf),
             request' # <<>> => /\ Req' \in Requests
                                /\ \A i \in DOMAIN Req'.var_binds :
                                      <<Req'.file, Req'.var_binds[i].oid>> \in DOMAIN records
      PROVE  IInv'
  BY <1>r DEF IInv, Shapes, HalfOfMalformed, TypedCache, AllAdmitted, Admitted, moduleVars
<1>1. CASE Receive
  <2>1. PICK r \in Requests : request' = <<r>> /\
          \A i \in DOMAIN r.var_binds : <<r.file, r.var_binds[i].oid>> \in DOMAIN records
    BY <1>1 DEF Receive
  <2>2. Req' = r BY <2>1 DEF Req
  <2>3. UNCHANGED <<records, file, moduleVars, rsp>> BY <1>1 DEF Receive
  <2>4. rsp' \in Seq(ValueOf) BY <2>3 DEF IInv, Shapes
  <2> QED BY <1>r, <2>1, <2>2, <2>3, <2>4
<1>2. CASE Reply
  <2>1. request' = <<>> /\ rsp' = <<>> /\ UNCHANGED <<records, file, moduleVars>>
    BY <1>2 DEF Reply
  <2>2. <<>> \in Seq(ValueOf) OBVIOUS
  <2> QED BY <1>r, <2>1, <2>2
<1>3. CASE AnswerNotAsked
  <2>1. Serving /\ Answer(NoValue) /\ UNCHANGED <<settings, type, cache>>
    BY <1>3 DEF AnswerNotAsked
  <2>2. UNCHANGED <<records, file, stored, request>> BY <2>1 DEF Answer
  <2>3. rsp' \in Seq(ValueOf) BY <1>v, <2>1, Ended
  <2>4. request # <<>> => /\ Req \in Requests
                          /\ \A i \in DOMAIN Req.var_binds :
                                <<Req.file, Req.var_binds[i].oid>> \in DOMAIN records
    BY DEF IInv, Shapes
  <2>5. Req' = Req BY <2>2 DEF Req
  <2> QED BY <1>r, <2>1, <2>2, <2>3, <2>4, <2>5 DEF moduleVars
<1>4. CASE ParseFails
  <2>1. /\ Serving /\ Rec.malformed /\ settings' = [settings EXCEPT ![Key] = "half"]
        /\ Answer(NoValue) /\ UNCHANGED <<type, cache>>
    BY <1>4 DEF ParseFails
  <2>2. UNCHANGED <<records, file, stored, request>> BY <2>1 DEF Answer
  <2>3. rsp' \in Seq(ValueOf) BY <1>v, <2>1, Ended
  <2>4. settings \in [DOMAIN records -> {"none", "parsed", "half"}] BY DEF IInv, Shapes
  <2>5. HalfOfMalformed' BY <2>1, <2>2, <2>4 DEF IInv, HalfOfMalformed, Rec
  <2>6. settings' \in [DOMAIN records -> {"none", "parsed", "half"}] BY <2>1, <2>4
  <2>7. Shapes' BY <2>1, <2>2, <2>3, <2>6 DEF IInv, Shapes, Req
  <2> QED BY <2>1, <2>2, <2>5, <2>7 DEF IInv, TypedCache, AllAdmitted, Admitted
<1>5. CASE SetRaises
  BY <1>5, <1>v, ServedInv DEF SetRaises
<1>6. CASE SetDenied
  BY <1>6, ServedInv DEF SetDenied
<1>7. CASE SetWrongType
  BY <1>7, <1>v, ServedInv DEF SetWrongType
<1>8. CASE SetWritten
  <2>1. /\ Ready /\ Prepare /\ Error \notin ERROR_TYPES /\ VarBind.value.type = TypeNow
        /\ cache' = [cache EXCEPT ![Oid] = VarBind.value] /\ Respond(cache')
    BY <1>8 DEF SetWritten
  <2>2. VarBind.value \in ValueOf BY <2>1, Served DEF Ready
  <2>3. cache' \in [Oids -> ValueOf] BY <2>1, <2>2 DEF IInv, Shapes
  <2>4. (\E v \in ValueOf : Answer(v)) \/ Fail BY <2>1, <2>3, Responded
  <2> QED BY <2>1, <2>4, ServedInv
<1>9. CASE Get
  <2>1. Ready /\ Prepare /\ Respond(cache) /\ UNCHANGED cache BY <1>9 DEF Get
  <2>2. cache \in [Oids -> ValueOf] BY DEF IInv, Shapes
  <2>3. (\E v \in ValueOf : Answer(v)) \/ Fail BY <2>1, <2>2, Responded
  <2> QED BY <2>1, <2>3, ServedInv
<1>10. CASE Shutdown
  <2> DEFINE c == IF file THEN cache ELSE [o \in Oids |-> NoValue]
  <2>1. Restart(c) BY <1>10 DEF Shutdown
  <2>2. c \in [Oids -> ValueOf] BY <1>v DEF IInv, Shapes
  <2>3. \A o \in Oids : c[o] \in {NoValue, cache[o]} /\ (~file => c[o] = NoValue) OBVIOUS
  <2> HIDE DEF c
  <2> QED BY <2>1, <2>2, <2>3, RestartInv
<1>11. CASE Crash
  <2>1. PICK lost \in SUBSET Oids :
          Restart([o \in Oids |-> IF ~file THEN NoValue
                                  ELSE IF o \in lost THEN stored[o] ELSE cache[o]])
    BY <1>11 DEF Crash
  <2> DEFINE c == [o \in Oids |-> IF ~file THEN NoValue
                                  ELSE IF o \in lost THEN stored[o] ELSE cache[o]]
  <2>2. c \in [Oids -> ValueOf] BY <1>v DEF IInv, Shapes
  <2>3. \A o \in Oids : c[o] \in {NoValue, cache[o], stored[o]} /\ (~file => c[o] = NoValue)
    OBVIOUS
  <2>4. Restart(c) BY <2>1
  <2> HIDE DEF c
  <2> QED BY <2>2, <2>3, <2>4, RestartInv
<1>12. CASE UNCHANGED vars
  BY <1>12 DEF vars, moduleVars, IInv, Shapes, HalfOfMalformed, TypedCache, AllAdmitted, Admitted, Req
<1> QED BY <1>1, <1>2, <1>3, <1>4, <1>5, <1>6, <1>7, <1>8, <1>9, <1>10, <1>11, <1>12 DEF Next, Serve

(* Without a file, the values of an OID keep the type it was first         *)
(* referred to with (writecache.py:99-104, 139-143).                       *)
THEOREM CacheTypes == Spec => []OneTypeALife
<1>1. IInv => OneTypeALife BY DEF IInv, TypedCache, OneTypeALife
<1> QED BY InitInv, NextInv, <1>1, PTL DEF Spec

(* No value that all access lists of an OID deny is ever in the cache      *)
(* (writecache.py:58-93, 108-136).                                         *)
THEOREM CacheAdmits == Spec => []NeverDenied
<1>1. IInv => NeverDenied BY DEF IInv, AllAdmitted, Admitted, NeverDenied
<1> QED BY InitInv, NextInv, <1>1, PTL DEF Spec

-----------------------------------------------------------------------------
\* The var-binds of a SET r that were answered with a value, s being the answers,
\* and the last of them.
Written(r, s, o) ==
    {i \in DOMAIN s : r.op = "SET" /\ r.var_binds[i].oid = o /\ s[i] # NoValue}
LastOf(w) == CHOOSE i \in w : \A j \in w : j <= i

\* What the cache has for an OID when the var-binds w of request r were written:
\* the last of them, or else what the manager takes it to be.
Keeps(r, w, c, known) == IF w = {} THEN c \in known
                         ELSE LastOf(w) \in w /\ c = r.var_binds[LastOf(w)].value

Known(o) == {confirmed[o]} \cup doubtful[o]

Follows ==
    /\ request = <<>> => rsp = <<>>
    /\ \A o \in Oids : Keeps(Req, Written(Req, rsp, o), cache[o], Known(o))

\* Nothing is written before the first answer.
LEMMA NothingWritten == \A r, o : Written(r, <<>>, o) = {}
BY DEF Written

\* An answer without value writes nothing, and neither does one to another OID or
\* to a request that is no SET.
LEMMA NotWritten ==
    ASSUME NEW r, NEW s \in Seq(ValueOf), NEW v \in ValueOf, NEW o,
           \/ v = NoValue \/ r.op # "SET" \/ r.var_binds[Len(s) + 1].oid # o
    PROVE  Written(r, Append(s, v), o) = Written(r, s, o)
<1> DEFINE t == Append(s, v)
<1>1. /\ DOMAIN t = DOMAIN s \cup {Len(s) + 1} /\ t[Len(s) + 1] = v
      /\ \A i \in DOMAIN s : t[i] = s[i]
  OBVIOUS
<1> HIDE DEF t
<1>2. Written(r, t, o) = Written(r, s, o) BY <1>1 DEF Written
<1> QED BY <1>2 DEF t

\* One with a value is the last that was written.
LEMMA WrittenLast ==
    ASSUME NEW r, NEW s \in Seq(ValueOf), NEW v \in ValueOf, v # NoValue,
           r.op = "SET", NEW o, r.var_binds[Len(s) + 1].oid = o
    PROVE  /\ Written(r, Append(s, v), o) # {}
           /\ LastOf(Written(r, Append(s, v), o)) = Len(s) + 1
           /\ Len(s) + 1 \in Written(r, Append(s, v), o)
<1> DEFINE t == Append(s, v)
           w == Written(r, t, o)
           n == Len(s) + 1
<1>0. n \in Nat OBVIOUS
<1>1. DOMAIN t = 1..n /\ t[n] = v OBVIOUS
<1>2. w \subseteq 1..n /\ n \in w
  <2> HIDE DEF t, n
  <2> QED BY <1>1 DEF Written, n
<1> HIDE DEF w, n
<1>3. \A j \in w : j <= n BY <1>0, <1>2
<1>4. LastOf(w) \in w /\ \A j \in w : j <= LastOf(w) BY <1>2, <1>3 DEF LastOf
<1>5. LastOf(w) = n BY <1>0, <1>2, <1>3, <1>4
<1> QED BY <1>2, <1>5 DEF w, t, n

LEMMA InitFollows == Init => Follows
BY NothingWritten DEF Init, Follows, Keeps, Known

\* Answers that write nothing.
LEMMA AnsweredFollows ==
    ASSUME IInv, Follows, Serving, NEW v \in ValueOf, Answer(v), UNCHANGED cache,
           v = NoValue \/ ~setFlag
    PROVE  Follows'
<1>1. /\ rsp' = Append(rsp, v) /\ UNCHANGED <<request, confirmed, doubtful>>
  BY DEF Answer
<1>2. rsp \in Seq(ValueOf) BY DEF IInv, Shapes
<1>3. Req' = Req BY <1>1 DEF Req
<1>4. \A o : Written(Req', rsp', o) = Written(Req, rsp, o)
  BY <1>1, <1>2, <1>3, NotWritten DEF setFlag
<1>5. \A o \in Oids : Keeps(Req', Written(Req', rsp', o), cache'[o], Known(o)')
  BY <1>1, <1>3, <1>4 DEF Follows, Known
<1> QED BY <1>1, <1>5 DEF Follows, Serving

\* The request fails: all its SETs so far become doubtful.
LEMMA FailedFollows ==
    ASSUME IInv, Follows, Serving, Fail,
           \/ UNCHANGED cache
           \/ setFlag /\ cache' = [cache EXCEPT ![Oid] = VarBind.value]
    PROVE  Follows'
<1>1. /\ request' = <<>> /\ rsp' = <<>> /\ UNCHANGED confirmed
      /\ doubtful' = IF setFlag THEN [o \in Oids |-> doubtful[o] \cup Tried(o)] ELSE doubtful
  BY DEF Fail
<1>2. rsp \in Seq(ValueOf) BY DEF IInv, Shapes
<1>3. Index \in 1..Index /\ DOMAIN rsp \subseteq 1..Index BY <1>2 DEF Index
<1>4. ASSUME NEW o \in Oids PROVE cache'[o] \in Known(o)'
  <2>1. Keeps(Req, Written(Req, rsp, o), cache[o], Known(o)) BY DEF Follows
  <2>2. Known(o)' = {confirmed[o]} \cup doubtful'[o] BY <1>1 DEF Known
  <2>3. CASE ~setFlag
    <3>1. Written(Req, rsp, o) = {} BY <2>3 DEF Written, setFlag
    <3> QED BY <1>1, <2>1, <2>2, <2>3, <3>1 DEF Keeps, Known
  <2>4. CASE setFlag
    <3>1. doubtful'[o] = doubtful[o] \cup Tried(o) BY <1>1, <2>4
    <3>2. CASE cache'[o] # cache[o]
      <4>1. o = Oid /\ cache'[o] = Req.var_binds[Index].value
        BY <3>2 DEF IInv, Shapes, VarBind
      <4>2. cache'[o] \in Tried(o) BY <1>3, <4>1 DEF Tried, Oid, VarBind
      <4> QED BY <2>2, <3>1, <4>2
    <3>3. CASE cache'[o] = cache[o] /\ Written(Req, rsp, o) = {}
      BY <2>1, <2>2, <3>1, <3>3 DEF Keeps, Known
    <3>4. CASE cache'[o] = cache[o] /\ Written(Req, rsp, o) # {}
      <4>1. PICK i \in Written(Req, rsp, o) : cache[o] = Req.var_binds[i].value
        BY <2>1, <3>4 DEF Keeps
      <4>2. i \in 1..Index /\ Req.var_binds[i].oid = o BY <1>3, <4>1 DEF Written
      <4>3. cache[o] \in Tried(o) BY <4>1, <4>2 DEF Tried
      <4> QED BY <2>2, <3>1, <3>4, <4>3
    <3> QED BY <3>2, <3>3, <3>4
  <2> QED BY <2>3, <2>4
<1>5. \A o \in Oids : Written(Req', rsp', o) = {} BY <1>1, NothingWritten
<1>6. \A o \in Oids : Keeps(Req', Written(Req', rsp', o), cache'[o], Known(o)')
  BY <1>4, <1>5 DEF Keeps
<1> QED BY <1>1, <1>6 DEF Follows

\* A value is written, and answered.
LEMMA WrittenFollows ==
    ASSUME IInv, Follows, Serving, setFlag, NEW v \in ValueOf, Answer(v), v # NoValue,
           cache' = [cache EXCEPT ![Oid] = VarBind.value]
    PROVE  Follows'
<1>1. /\ rsp' = Append(rsp, v) /\ UNCHANGED <<request, confirmed, doubtful>>
  BY DEF Answer
<1>2. rsp \in Seq(ValueOf) /\ cache \in [Oids -> ValueOf] BY DEF IInv, Shapes
<1>3. Req' = Req BY <1>1 DEF Req
<1>4. ASSUME NEW o \in Oids
      PROVE  Keeps(Req', Written(Req', rsp', o), cache'[o], Known(o)')
  <2>1. CASE o # Oid
    <3>1. Written(Req, rsp', o) = Written(Req, rsp, o)
      BY <1>1, <1>2, <2>1, NotWritten DEF Oid, VarBind, Index
    <3>2. cache'[o] = cache[o] BY <1>2, <2>1
    <3> QED BY <1>1, <1>3, <3>1, <3>2 DEF Follows, Known
  <2>2. CASE o = Oid
    <3>1. Req.op = "SET" /\ Req.var_binds[Len(rsp) + 1].oid = o
      BY <2>2 DEF Oid, VarBind, Index, setFlag
    <3>2. /\ Written(Req, rsp', o) # {} /\ LastOf(Written(Req, rsp', o)) = Index
          /\ Index \in Written(Req, rsp', o)
      BY <1>1, <1>2, <3>1, WrittenLast DEF Index
    <3>3. cache'[o] = Req.var_binds[Index].value BY <1>2, <2>2 DEF VarBind
    <3> QED BY <1>3, <3>2, <3>3 DEF Keeps
  <2> QED BY <2>1, <2>2
<1> QED BY <1>1, <1>4 DEF Follows, Serving

LEMMA NextFollows == IInv /\ Follows /\ [Next]_vars => Follows'
<1> SUFFICES ASSUME IInv, Follows, [Next]_vars PROVE Follows'
    OBVIOUS
<1>v. NoValue \in ValueOf BY DEF NoValue, ValueOf
<1>e. request = <<>> => \A o \in Oids : cache[o] \in Known(o)
  BY NothingWritten DEF Follows, Keeps
\* Between requests nothing is written.
<1>b. ASSUME request' = <<>> \/ request = <<>>, rsp' = <<>>,
             \A o \in Oids : cache'[o] \in Known(o)'
      PROVE  Follows'
  <2>1. \A o \in Oids : Written(Req', rsp', o) = {} BY <1>b, NothingWritten
  <2>2. \A o \in Oids : Keeps(Req', Written(Req', rsp', o), cache'[o], Known(o)')
    BY <1>b, <2>1 DEF Keeps
  <2> QED BY <1>b, <2>2 DEF Follows
<1>1. CASE Receive
  <2>1. request = <<>> /\ UNCHANGED <<cache, rsp, confirmed, doubtful>>
    BY <1>1 DEF Receive, moduleVars
  <2>2. rsp' = <<>> BY <2>1 DEF Follows
  <2>3. \A o \in Oids : cache'[o] \in Known(o)' BY <1>e, <2>1 DEF Known
  <2> QED BY <1>b, <2>1, <2>2, <2>3
<1>2. CASE Reply
  <2>1. /\ request' = <<>> /\ rsp' = <<>> /\ UNCHANGED cache
        /\ confirmed' = [o \in Oids |->
                           IF setFlag /\ Made(o) # {}
                           THEN Req.var_binds[LastMade(o)].value ELSE confirmed[o]]
        /\ doubtful' = [o \in Oids |-> IF setFlag /\ Made(o) # {} THEN {} ELSE doubtful[o]]
    BY <1>2 DEF Reply, moduleVars
  <2>2. ASSUME NEW o \in Oids PROVE cache'[o] \in Known(o)'
    <3>1. Keeps(Req, Written(Req, rsp, o), cache[o], Known(o)) BY DEF Follows
    <3>2. Known(o)' = {confirmed'[o]} \cup doubtful'[o] BY DEF Known
    <3>3. setFlag => /\ Made(o) = Written(Req, rsp, o)
                     /\ LastMade(o) = LastOf(Written(Req, rsp, o))
      <4>1. setFlag => Made(o) = Written(Req, rsp, o) BY DEF Made, Written, setFlag
      <4> QED BY <4>1 DEF LastMade, LastOf
    <3>4. CASE setFlag /\ Made(o) # {}
      <4>1. confirmed'[o] = Req.var_binds[LastMade(o)].value BY <2>1, <3>4
      <4> QED BY <2>1, <3>1, <3>2, <3>3, <3>4, <4>1 DEF Keeps
    <3>5. CASE ~(setFlag /\ Made(o) # {})
      <4>1. Written(Req, rsp, o) = {} BY <3>3, <3>5 DEF Written, setFlag
      <4>2. confirmed'[o] = confirmed[o] /\ doubtful'[o] = doubtful[o] BY <2>1, <3>5
      <4> QED BY <2>1, <3>1, <3>2, <4>1, <4>2 DEF Keeps, Known
    <3> QED BY <3>4, <3>5
  <2> QED BY <1>b, <2>1, <2>2
<1>3. CASE AnswerNotAsked
  BY <1>3, <1>v, AnsweredFollows DEF AnswerNotAsked
<1>4. CASE ParseFails
  BY <1>4, <1>v, AnsweredFollows DEF ParseFails
<1>5. CASE SetRaises
  BY <1>5, <1>v, AnsweredFollows DEF SetRaises, Ready
<1>6. CASE SetDenied
  BY <1>6, FailedFollows DEF SetDenied, Ready
<1>7. CASE SetWrongType
  BY <1>7, <1>v, AnsweredFollows DEF SetWrongType, Ready
<1>8. CASE SetWritten
  <2>1. /\ Ready /\ setFlag /\ VarBind.value.type = TypeNow /\ Respond(cache')
        /\ cache' = [cache EXCEPT ![Oid] = VarBind.value]
    BY <1>8 DEF SetWritten
  <2>2. Serving BY <2>1 DEF Ready
  <2>3. CASE StatusRaised BY <2>1, <2>2, <2>3, FailedFollows DEF Respond
  <2>4. CASE ~StatusRaised
    <3>1. Oid \in Oids /\ VarBind.value \in ValueOf /\ Rec.type \in {"int", "str"}
      BY <2>2, Served
    <3>2. cache'[Oid] = VarBind.value BY <2>1, <3>1 DEF IInv, Shapes
    <3>3. TypeNow # "none" BY <3>1 DEF TypeNow
    <3>4. VarBind.value # NoValue BY <2>1, <3>3 DEF NoValue
    <3>5. Answer(VarBind.value) BY <2>1, <2>4, <3>2, <3>4 DEF Respond
    <3> QED BY <2>1, <2>2, <3>1, <3>4, <3>5, WrittenFollows
  <2> QED BY <2>3, <2>4
<1>9. CASE Get
  <2>1. Ready /\ ~setFlag /\ Respond(cache) /\ UNCHANGED cache BY <1>9 DEF Get
  <2>2. Serving BY <2>1 DEF Ready
  <2>3. cache \in [Oids -> ValueOf] BY DEF IInv, Shapes
  <2>4. CASE Fail BY <2>1, <2>2, <2>4, FailedFollows
  <2>5. CASE \E v \in ValueOf : Answer(v) BY <2>1, <2>2, <2>5, AnsweredFollows
  <2> QED BY <2>1, <2>3, <2>4, <2>5, Responded
<1>10. CASE Shutdown
  <2>1. /\ request = <<>> /\ request' = <<>> /\ rsp' = <<>>
        /\ cache' = IF file THEN cache ELSE [o \in Oids |-> NoValue]
        /\ IF file THEN UNCHANGED <<confirmed, doubtful>>
           ELSE confirmed' = cache' /\ doubtful' = [o \in Oids |-> {}]
    BY <1>10 DEF Shutdown, Restart
  <2>2. \A o \in Oids : cache'[o] \in Known(o)' BY <1>e, <2>1 DEF Known
  <2> QED BY <1>b, <2>1, <2>2
<1>11. CASE Crash
  <2>1. request' = <<>> /\ rsp' = <<>> /\ confirmed' = cache' BY <1>11 DEF Crash, Restart
  <2>2. \A o \in Oids : cache'[o] \in Known(o)' BY <2>1 DEF Known
  <2> QED BY <1>b, <2>1, <2>2
<1>12. CASE UNCHANGED vars
  BY <1>12 DEF vars, moduleVars, Follows, Known, Req
<1> QED BY <1>1, <1>2, <1>3, <1>4, <1>5, <1>6, <1>7, <1>8, <1>9, <1>10, <1>11, <1>12 DEF Next, Serve

(* Between requests the cache holds what a manager was told it has SET     *)
(* last, or the value of a later SET it was told to fail, for any files,   *)
(* settings and requests, through shutdowns and crashes                    *)
(* (writecache.py:50-53, 108-175, 178-182).                                *)
THEOREM CacheHoldsWrites == Spec => []HoldsLastWrite
<1>1. Follows => HoldsLastWrite
  BY NothingWritten DEF Follows, Keeps, Known, HoldsLastWrite
<1> QED BY InitInv, NextInv, InitFollows, NextFollows, <1>1, PTL DEF Spec
=============================================================================
