----------------------------- MODULE Variations -----------------------------
(***************************************************************************)
(* Requests that are answered by variation modules, one var-bind after the *)
(* other: what the modules remember from one to the next, of a record      *)
(* (recordContext) and altogether (moduleContext), is passed on from call  *)
(* to call (SnmprecRecordMixIn.evaluate_value, snmpsim/variation.py), time *)
(* goes on, and the responder is started again.                            *)
(***************************************************************************)
EXTENDS Variating

CONSTANTS
    Simulations, \* [records, store]: records by name, and moduleContext at the start
    OIDs,        \* the OIDs asked for
    Values,      \* the values SET
    MaxVars,     \* bound: var-binds in a request
    MaxTime      \* bound: seconds from the start of the responder

ASSUME VariationsAssumption ==
    /\ OIDs \subseteq Nat /\ Values \subseteq Nat
    /\ MaxVars \in Nat \ {0} /\ MaxTime \in Nat /\ LIMIT \in Nat

\* What the settings of records are.  That the least value of numeric is not above
\* its greatest, and a period of multiplex not zero, is left to whoever writes the
\* data file; a directory without snapshots counts as a bad setting.
ASSUME SettingsAssumption ==
    \A s \in Simulations : \A r \in DOMAIN s.records :
        LET g == s.records[r]
        IN  /\ g.module \in {"multiplex", "redis", "sql", "numeric", "delay", "error",
                              "notification", "subprocess"}
            /\ g.deviation \in Nat
            /\ g.module = "multiplex" =>
                  /\ g.at \in OIDs /\ g.control \in BOOLEAN /\ g.wrap \in Written
                  /\ g.keys \in Seq(Nat) /\ g.keys # <<>> /\ g.period \in Nat \ {0}
            /\ g.module = "numeric" =>
                  /\ g.cumulative \in Written /\ g.wrap \in Written
                  /\ \A n \in {g.rate, g.scale, g.offset, g.initial, g.min, g.max} : n \in Int
                  /\ g.min <= g.max
            /\ g.module = "delay" =>
                  /\ g.wait \in Int
                  /\ \A rule \in g.vlist \cup g.tlist : rule.d \in Int /\ rule.op \in {"eq", "lt", "gt"}

\* When a responder is started no snapshot has been chosen.
ASSUME StoreAssumption ==
    \A s \in Simulations : /\ {"fileno", "db", "committed"} \subseteq DOMAIN s.store
                           /\ s.store.fileno = [o \in OIDs |-> Unset]

VARIABLES
    sim,         \* what is simulated
    record,      \* recordContext of each record
    store,       \* moduleContext and what is behind it
    now,
    request,     \* [kind, size] being answered, or NoRequest
    done,        \* the outcomes of its var-binds so far
    ended,       \* history: the request just ended, and its outcomes
    newest       \* history: the latest snapshot each record was served from

vars == <<sim, record, store, now, request, done, ended, newest>>

Records == DOMAIN sim.records
NoRequest == [kind |-> "none", size |-> 0]
NotYet == [request |-> NoRequest, done |-> <<>>, reply |-> "none"]

Fresh(s) == [r \in DOMAIN s.records |-> NewRecord]

Init ==
    /\ sim \in Simulations
    /\ record = Fresh(sim) /\ store = sim.store /\ now = 0
    /\ request = NoRequest /\ done = <<>> /\ ended = NotYet
    /\ newest = [r \in Records |-> 0]

Receive ==
    /\ request = NoRequest
    /\ \E kind \in {"GET", "GETNEXT", "SET"}, n \in 1..MaxVars : request' = [kind |-> kind, size |-> n]
    /\ ended' = NotYet
    /\ UNCHANGED <<sim, record, store, now, done, newest>>

---------------------------------------------------------------------------
\* randrange picks from [-deviation, deviation).
Deviations(g) == IF g.deviation = 0 THEN {0} ELSE (-g.deviation)..(g.deviation - 1)

\* The calls for the next var-bind of the request: any OID and value, and
\* whatever may happen.  Below the OID of the record, it is a subtree.
Calls(g) ==
    [set : {request.kind = "SET"}, next : {request.kind = "GETNEXT"},
     oid : OIDs, val : IF request.kind = "SET" THEN Values ELSE {NoVal},
     first : {done = <<>>}, last : {Len(done) + 1 = request.size},
     now : {now}, dev : Deviations(g), raises : BOOLEAN, fails : BOOLEAN]

End(outcomes, reply) ==
    /\ ended' = [request |-> request, done |-> outcomes, reply |-> reply]
    /\ request' = NoRequest /\ done' = <<>>

\* A snapshot is served under its number; time passes while a delay lasts.
Answered(r, out) ==
    LET outcomes == Append(done, [rec |-> r, ctl |-> out.ctl, value |-> out.value])
    IN  /\ record' = [record EXCEPT ![r] = out.x] /\ store' = out.s
        /\ now' = IF now + out.slept > MaxTime THEN MaxTime ELSE now + out.slept
        /\ newest' = IF out.ctl = "value" /\ out.value > newest[r]
                     THEN [newest EXCEPT ![r] = out.value] ELSE newest
        /\ CASE out.ctl = "drop"   -> End(outcomes, "dropped")
             [] out.ctl = "refuse" -> End(outcomes, "error")
             [] OTHER -> IF Len(outcomes) = request.size THEN End(outcomes, "response")
                         ELSE done' = outcomes /\ UNCHANGED <<request, ended>>

\* evaluate_value, for the next var-bind.
Variate ==
    /\ request # NoRequest
    /\ \E r \in Records : \E c \in Calls(sim.records[r]) :
         Answered(r, variate(sim.records[r], record[r], store, c))
    /\ UNCHANGED sim

Tick ==
    /\ now < MaxTime /\ now' = now + 1
    /\ UNCHANGED <<sim, record, store, request, done, ended, newest>>

(***************************************************************************)
(* The responder ends, properly or not, and is started again.  shutdown    *)
(* closes the database without a commit as well; redis keeps everything.   *)
(***************************************************************************)
Restart ==
    /\ record' = Fresh(sim) /\ now' = 0
    /\ store' = [sim.store EXCEPT !.db = store.committed, !.committed = store.committed,
                                  !.order = store.order, !.stored = store.stored]
    /\ request' = NoRequest /\ done' = <<>> /\ ended' = NotYet
    /\ newest' = [r \in Records |-> 0]
    /\ UNCHANGED sim

Next == Receive \/ Variate \/ Tick \/ Restart

Spec == Init /\ [][Next]_vars

---------------------------------------------------------------------------
Ascending(s) == \A i, j \in 1..Len(s) : i < j => s[i] < s[j]

Alone(r) == \A q \in Records : q # r => sim.records[q].at # sim.records[r].at

(* A snapshot is never followed by an older one, however requests and time *)
(* alternate and when the period is over: if its settings do not so much   *)
(* as name wrap, the simulation stays at the last one (multiplex.py:       *)
(* 131-137, 207-231).  The snapshots must have been listed in order, which *)
(* os.listdir does not promise, and no other data file may have a          *)
(* multiplex record at the same OID, as they share the number of the       *)
(* snapshot.                                                               *)
NeverBack ==
    \A i \in 1..Len(ended.done) :
        LET o == ended.done[i]
            g == sim.records[o.rec]
        IN  (/\ g.module = "multiplex" /\ ~g.control /\ g.wrap = "absent"
             /\ Ascending(g.keys) /\ Alone(o.rec) /\ o.ctl = "value"
             /\ \A j \in 1..Len(ended.done) : j > i => ended.done[j].rec # o.rec)
            => o.value = newest[o.rec]

(* Once a SET of any number of var-binds to sql is answered without error, *)
(* nothing of it can get lost with the connection: all of it is committed, *)
(* with what requests before that failed have left uncommitted             *)
(* (sql.py:148-181).                                                       *)
CommittedWhenAnswered ==
    (/\ ended.reply = "response" /\ ended.request.kind = "SET"
     /\ \A i \in 1..Len(ended.done) :
          ended.done[i].ctl = "value" /\ sim.records[ended.done[i].rec].module = "sql")
        => store.committed = store.db

(* A cumulative counter whose settings do not name wrap never falls,       *)
(* whatever the function, the scale, the offset and chance add to it -     *)
(* until the responder is started again (numeric.py:118-183).              *)
CumulativeNeverFalls ==
    [][\A r \in Records : (/\ sim.records[r].module = "numeric" /\ sim.records[r].wrap = "absent"
                           /\ record[r].value # NoVal /\ record'[r].value # NoVal)
                             => record'[r].value >= record[r].value]_vars

(* A record of multiplex, redis or numeric whose settings are bad never    *)
(* answers with a value: not at the first reference, which reads them, and *)
(* not later, when it finds them half read, or none (multiplex.py:78-163,  *)
(* redis.py:120-153, numeric.py:79-117).  The other modules go on with     *)
(* what they have got.                                                     *)
HalfReadIsUnused ==
    \A i \in 1..Len(ended.done) :
        LET g == sim.records[ended.done[i].rec]
        IN  (g.module \in {"multiplex", "redis", "numeric"} /\ g.bad # "no")
            => ended.done[i].ctl # "value"
=============================================================================
