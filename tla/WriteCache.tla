----------------------------- MODULE WriteCache -----------------------------
(***************************************************************************)
(* The writecache variation module (snmpsim/variation/writecache.py):      *)
(* records whose values managers may SET.  Values written are cached per   *)
(* OID, in memory or in a file, for all the data files of the responder.   *)
(* The settings of a record (its initial value, access list and status)    *)
(* are parsed when it is referred to first, and so is the type of an OID;  *)
(* both are forgotten when the responder ends.                             *)
(*                                                                         *)
(* One manager after the other sends a request of several var-binds; the   *)
(* var-binds are served one by one, an SNMP error ends the request.        *)
(***************************************************************************)
EXTENDS Integers, Sequences

CONSTANTS
    Records,     \* the records: functions from <<file, oid>> to settings as below
    Requests,    \* [op, file, var_binds], var_binds of [oid, exact, value]
    MaxRestarts  \* bound: ends of the responder

(***************************************************************************)
(* A value is a type and a number.  The settings of a record are           *)
(*   type, value    its type and initial value, NoValue when it has none,  *)
(*   eq, lt, gt     its access list: errors for numbers, and an error for  *)
(*                  those below or above a bound, or NoRule,               *)
(*   malformed      an entry of the access list does not parse, and rest   *)
(*                  are the operators of the entries behind it,            *)
(*   status, op     the error raised by requests of kind op.               *)
(***************************************************************************)
NoValue == [type |-> "none", n |-> 0]
NoRule == [bound |-> 0, error |-> "none"]

\* What the module takes for the name of an error: lower case only.
ERROR_TYPES == {"wrongvalue", "commitfailed"}

Oids == {k[2] : k \in UNION {DOMAIN r : r \in Records}}

VARIABLES
    records,    \* the records of the data files
    file,       \* the cache is kept in a file ("file" in the module's options)
    settings,   \* recordContext of each record: "none", "parsed", "half"
    type,       \* moduleContext[oid]["type"]
    cache,      \* moduleContext["cache"]
    stored,     \* what the file held when the responder started
    request,    \* the request being served, <<>> for none
    rsp,        \* the var-binds served so far
    restarts,
    confirmed,  \* history: the value of each OID a manager was told it has SET last
    doubtful    \* history: the values of SETs since then that were told to fail

moduleVars == <<settings, type, cache, stored>>
vars == <<records, file, moduleVars, request, rsp, restarts, confirmed, doubtful>>

ValueOf == [type : {"none", "int", "str"}, n : Int]

ASSUME CacheAssumption ==
    /\ MaxRestarts \in Nat
    /\ \A r \in Requests : /\ r.op \in {"GET", "NEXT", "SET"}
                           /\ r.var_binds \in Seq([oid : Oids, exact : BOOLEAN, value : ValueOf])
                           /\ r.var_binds # <<>>
    /\ \A t \in Records : \A k \in DOMAIN t : t[k].type \in {"int", "str"} /\ t[k].value \in ValueOf

Init ==
    /\ records \in Records /\ file \in BOOLEAN
    /\ settings = [k \in DOMAIN records |-> "none"]
    /\ type = [o \in Oids |-> "none"]
    /\ cache = [o \in Oids |-> NoValue] /\ stored = cache
    /\ request = <<>> /\ rsp = <<>>
    /\ restarts = 0
    /\ confirmed = cache /\ doubtful = [o \in Oids |-> {}]

Receive ==
    /\ request = <<>>
    /\ \E r \in Requests :
          /\ \A i \in DOMAIN r.var_binds :
                <<r.file, r.var_binds[i].oid>> \in DOMAIN records
          /\ request' = <<r>>
    /\ UNCHANGED <<records, file, moduleVars, rsp, restarts, confirmed, doubtful>>

-----------------------------------------------------------------------------
\* The var-bind at hand, its record and its OID.
Req == request[1]
Index == Len(rsp) + 1
VarBind == Req.var_binds[Index]
Key == <<Req.file, VarBind.oid>>
Rec == records[Key]
Oid == VarBind.oid

nextFlag == Req.op = "NEXT"
setFlag == Req.op = "SET"
Serving == request # <<>> /\ Index <= Len(Req.var_binds)

\* The var-bind is answered, with a value or with the error status.
Answer(v) ==
    /\ rsp' = Append(rsp, v)
    /\ UNCHANGED <<records, file, stored, request, restarts, confirmed, doubtful>>

\* The module raises an SNMP error: the request fails, its error index names this
\* var-bind.  For what the manager knows any SET up to here may have been made.
Tried(o) == {Req.var_binds[i].value : i \in {j \in 1..Index : Req.var_binds[j].oid = o}}

Fail ==
    /\ request' = <<>> /\ rsp' = <<>>
    /\ doubtful' = IF setFlag THEN [o \in Oids |-> doubtful[o] \cup Tried(o)]
                              ELSE doubtful
    /\ UNCHANGED <<records, file, stored, restarts, confirmed>>

\* A record found but not asked for is not the module's business.
NotAsked == ~nextFlag /\ ~VarBind.exact

AnswerNotAsked ==
    /\ Serving /\ NotAsked
    /\ Answer(NoValue)
    /\ UNCHANGED <<settings, type, cache>>

\* The settings do not parse: an exception, the settings stay half parsed.
ParseFails ==
    /\ Serving /\ ~NotAsked
    /\ settings[Key] = "none" /\ Rec.malformed
    /\ settings' = [settings EXCEPT ![Key] = "half"]
    /\ Answer(NoValue)
    /\ UNCHANGED <<type, cache>>

\* From here on the settings are as good as they will ever be, and the OID has a
\* type: that of the first record referred to.
Ready ==
    /\ Serving /\ ~NotAsked
    /\ settings[Key] # "none" \/ ~Rec.malformed

Half == settings[Key] = "half"

\* A mutant of TypeNow: every record has its own type.
TypeOfRecord == Rec.type

TypeNow == IF type[Oid] = "none" THEN Rec.type ELSE type[Oid]

Prepare ==
    /\ settings' = [settings EXCEPT ![Key] = IF Half THEN "half" ELSE "parsed"]
    /\ type' = [type EXCEPT ![Oid] = TypeNow]

\* A mutant of Verdict: the rule for values above is forgotten.
VerdictWithoutGt(v) ==
    IF v.type = Rec.type /\ v.n \in DOMAIN Rec.eq THEN Rec.eq[v.n]
    ELSE IF Rec.lt # NoRule /\ v.n < Rec.lt.bound THEN Rec.lt.error ELSE "none"

\* The access list: the error for a value, if any.
Verdict(v) ==
    LET listed == v.type = Rec.type /\ v.n \in DOMAIN Rec.eq
        below  == Rec.lt # NoRule /\ v.n < Rec.lt.bound
        above  == Rec.gt # NoRule /\ v.n > Rec.gt.bound
    IN  IF listed THEN Rec.eq[v.n]
        ELSE IF below THEN Rec.lt.error
        ELSE IF above THEN Rec.gt.error ELSE "none"

\* Comparing values of unlike types raises, and so does a half parsed list that
\* is still asked for one of its operators.
Raises ==
    \/ Half /\ Rec.rest # {}
    \/ ~Half /\ VarBind.value.type # Rec.type /\ (Rec.lt # NoRule \/ Rec.gt # NoRule)

Error == IF Half THEN "none" ELSE Verdict(VarBind.value)

SetRaises ==
    /\ Ready /\ setFlag /\ Raises
    /\ Prepare
    /\ Answer(NoValue)
    /\ UNCHANGED cache

SetDenied ==
    /\ Ready /\ setFlag /\ ~Raises /\ Error \in ERROR_TYPES
    /\ Prepare
    /\ Fail
    /\ UNCHANGED cache

\* A mutant of SetWrongType: the type is looked at when the value is written.
SetBeforeTypeCheck ==
    /\ Ready /\ setFlag /\ ~Raises /\ Error \notin ERROR_TYPES
    /\ VarBind.value.type # TypeNow
    /\ Prepare
    /\ cache' = [cache EXCEPT ![Oid] = VarBind.value]
    /\ Answer(NoValue)

SetWrongType ==
    /\ Ready /\ setFlag /\ ~Raises /\ Error \notin ERROR_TYPES
    /\ VarBind.value.type # TypeNow
    /\ Prepare
    /\ Answer(NoValue)
    /\ UNCHANGED cache

\* The status is lower-cased when all the settings parse, and taken as it is
\* written otherwise.
Lower(e) == CASE e = "wrongValue" -> "wrongvalue"
              [] e = "commitFailed" -> "commitfailed"
              [] OTHER -> e

Status == IF Half THEN Rec.status ELSE Lower(Rec.status)

StatusRaised == /\ Status \in ERROR_TYPES
                /\ \/ Rec.op = "any"
                   \/ Rec.op = "set" /\ setFlag
                   \/ Rec.op = "get" /\ ~setFlag

\* The initial value, in the type of the OID; not every string is a number.
Initial ==
    IF Rec.value = NoValue \/ (TypeNow = "int" /\ Rec.value.type # "int")
    THEN NoValue ELSE [Rec.value EXCEPT !.type = TypeNow]

\* The end of variate: the status, the value in the cache or the initial one.
Respond(c) ==
    IF StatusRaised THEN Fail
    ELSE Answer(IF c[Oid] # NoValue THEN c[Oid] ELSE Initial)

SetWritten ==
    /\ Ready /\ setFlag /\ ~Raises /\ Error \notin ERROR_TYPES
    /\ VarBind.value.type = TypeNow
    /\ Prepare
    /\ cache' = [cache EXCEPT ![Oid] = VarBind.value]
    /\ Respond(cache')

Get ==
    /\ Ready /\ ~setFlag
    /\ Prepare
    /\ Respond(cache)
    /\ UNCHANGED cache

\* All var-binds are served.  A SET answered with a value is one that was made.
Made(o) == {i \in DOMAIN rsp : Req.var_binds[i].oid = o /\ rsp[i] # NoValue}
LastMade(o) == CHOOSE i \in Made(o) : \A j \in Made(o) : j <= i

Reply ==
    /\ request # <<>> /\ ~Serving
    /\ request' = <<>> /\ rsp' = <<>>
    /\ confirmed' = [o \in Oids |->
                       IF setFlag /\ Made(o) # {}
                       THEN Req.var_binds[LastMade(o)].value ELSE confirmed[o]]
    /\ doubtful' = [o \in Oids |-> IF setFlag /\ Made(o) # {} THEN {} ELSE doubtful[o]]
    /\ UNCHANGED <<records, file, moduleVars, restarts>>

-----------------------------------------------------------------------------
\* The responder ends and starts again: all but the file is new.
Restart(c) ==
    /\ restarts < MaxRestarts /\ restarts' = restarts + 1
    /\ cache' = c /\ stored' = c
    /\ settings' = [k \in DOMAIN records |-> "none"]
    /\ type' = [o \in Oids |-> "none"]
    /\ request' = <<>> /\ rsp' = <<>>
    /\ UNCHANGED <<records, file>>

Shutdown ==
    /\ request = <<>>
    /\ Restart(IF file THEN cache ELSE [o \in Oids |-> NoValue])
    /\ IF file THEN UNCHANGED <<confirmed, doubtful>>
       ELSE confirmed' = cache' /\ doubtful' = [o \in Oids |-> {}]

\* The responder dies: of what was written to the file since it started, any
\* may be lost.  The manager starts from what is left.
Crash ==
    /\ \E lost \in SUBSET Oids :
          Restart([o \in Oids |-> IF ~file THEN NoValue
                                  ELSE IF o \in lost THEN stored[o] ELSE cache[o]])
    /\ confirmed' = cache' /\ doubtful' = [o \in Oids |-> {}]

Serve == AnswerNotAsked \/ ParseFails \/ SetRaises \/ SetDenied \/ SetWrongType
         \/ SetWritten \/ Get

Next == Receive \/ Serve \/ Reply \/ Shutdown \/ Crash

Spec == Init /\ [][Next]_vars

-----------------------------------------------------------------------------
\* Between requests a manager can count on its writes: an OID holds the value it
\* was told to have SET last, through whichever data file, unless a later SET
\* was told to fail, and what it holds then is a value of such a SET. With a
\* file this is so after the responder was shut down and started again, too.
HoldsLastWrite ==
    request = <<>> => \A o \in Oids : cache[o] \in {confirmed[o]} \cup doubtful[o]

\* Without a file, an OID's values keep the type it was first referred to with,
\* whatever the data files that share it make of it.
OneTypeALife ==
    ~file => \A o \in Oids : cache[o] # NoValue => cache[o].type = type[o]

\* What an access list says of a value, and whether it is denied by an error
\* out of a set of names.
Denies(r, v, names) ==
    /\ ~r.malformed /\ v.type = r.type
    /\ IF v.n \in DOMAIN r.eq THEN r.eq[v.n] \in names
       ELSE IF r.lt # NoRule /\ v.n < r.lt.bound THEN r.lt.error \in names
       ELSE v.n > r.gt.bound /\ r.gt.error \in names

\* A value that every record of an OID denies never gets there, not in pieces of
\* requests, not through another data file or another life.  (A record whose list
\* does not parse denies nothing: its first use fails, but later SETs may not. Nor
\* does one that spells its error wrongValue: names are looked up as they are
\* written, writecache.py:131, though the documentation takes them for
\* case-insensitive, simulation-with-variation-modules.rst:451.)
NeverDenied ==
    \A o \in Oids : cache[o] # NoValue =>
       \E k \in DOMAIN records : k[2] = o /\ ~Denies(records[k], cache[o], ERROR_TYPES)
=============================================================================
