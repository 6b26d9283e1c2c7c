------------------------------ MODULE Variating ------------------------------
(***************************************************************************)
(* What the variation modules make of one var-bind of a request: the       *)
(* variate handlers of multiplex, redis, sql, numeric, delay, error,       *)
(* notification and subprocess (snmpsim/variation/*.py).                   *)
(*                                                                         *)
(* A handler is an operator from                                           *)
(*   g  the record: its OID, and the settings in its value                 *)
(*   x  recordContext: what the module remembers of the record             *)
(*   s  moduleContext and the store behind it, shared by all records       *)
(*   c  the call: request kind, OID, value, time, and what chance brings   *)
(* to the outcome.  OIDs and values are numbers; the type of a value is    *)
(* v \div 10.  Time is counted in seconds since the module was booted.     *)
(***************************************************************************)
EXTENDS Integers, Sequences, FiniteSets

CONSTANT LIMIT  \* a delay above it drops the request

NoVal == -100
Unset == -2     \* no "fileno" yet

Type(v) == v \div 10
Least(S) == CHOOSE n \in S : \A k \in S : n <= k

\* Some settings are switched on by their name alone, whatever they are set to:
\* "off" stands for a value that is meant to be false, "on" for another one.
Written == {"absent", "off", "on"}
Given(setting) == setting # "absent"

\* recordContext: "settings" are there once they were parsed, "half" of them
\* if that failed on the way; "ready" comes at the end only.
NewRecord == [settings |-> "none", value |-> NoVal, told |-> 0]

\* A mutant of Parsed: the settings count as read before they are.
ParsedEarly(g, x) == [x EXCEPT !.settings = "full"]

\* Settings that cannot even be split into names and values are split again, and
\* raise, at every reference.
Parsed(g, x) ==
    [x EXCEPT !.settings = IF @ # "none" \/ g.bad = "unsplit" THEN @
                           ELSE IF g.bad = "no" THEN "full" ELSE "half"]

\* The reference that reads the settings ends in an exception, if they are bad and
\* the module does not just log it.
Raises(g, x) == x.settings = "none" /\ g.bad \notin {"no", "silent"}

(***************************************************************************)
(* The outcomes: a value of an OID; the error status for the OID asked     *)
(* for; an exception that makes the record a broken one; an SNMP error;    *)
(* NoDataNotification, which drops the request.                            *)
(***************************************************************************)
Value(x, s, oid, v) == [ctl |-> "value", x |-> x, s |-> s, oid |-> oid, value |-> v, slept |-> 0]
Without(ctl, x, s)  == [ctl |-> ctl, x |-> x, s |-> s, oid |-> 0, value |-> NoVal, slept |-> 0]
Silent(x, s) == Without("silent", x, s)
Broken(x, s) == Without("broken", x, s)
Refuse(x, s) == Without("refuse", x, s)
Drop(x, s)   == Without("drop", x, s)

\* Most modules serve the OID of their record only.
Foreign(g, c) == ~c.next /\ c.oid # g.at

---------------------------------------------------------------------------
(***************************************************************************)
(* multiplex: g.keys are the numbers of the snapshots as listdir returned  *)
(* them, g.files their OIDs.  What is replayed is kept under the OID of    *)
(* the record in moduleContext, whichever data file it is in.              *)
(***************************************************************************)
Bisect(keys, v) ==
    LET n == Len(keys)
        f[i \in (0..n) \X (0..n)] ==
            LET lo == i[1]
                hi == i[2]
                mid == (lo + hi) \div 2
            IN  IF lo >= hi THEN lo
                ELSE IF v < keys[mid + 1] THEN f[<<lo, mid>>] ELSE f[<<mid + 1, hi>>]
    IN  f[<<0, n>>]

Due(g, now) ==
    LET n == Len(g.keys)
        slot == (now % (g.period * n)) \div g.period
    IN  Bisect(g.keys, slot + Least({g.keys[i] : i \in 1..n})) - 1

\* The snapshot at fileno, where -1 is the last one as lists have it.
Replay(g, x, s, c) ==
    LET n == Len(g.keys)
        number == g.keys[(s.fileno[g.at] % n) + 1]
        opened == [s EXCEPT !.open[g.at] = <<g.dir, number>>]
        behind == {o \in g.files[number] : o > c.oid}
    IN  IF s.fileno[g.at] >= n THEN Broken(x, s)
        ELSE IF c.next THEN IF behind = {} THEN Silent(x, opened)
                            ELSE Value(x, opened, Least(behind), number)
        ELSE IF c.oid \in g.files[number] THEN Value(x, opened, c.oid, number)
        ELSE Silent(x, opened)

\* A mutant of Switched: always the snapshot that is due.
SwitchedAlways(g, s, due) == [s EXCEPT !.fileno[g.at] = due]

\* wrap is the truth of a string, true for all but the empty one: "false" and "0"
\* wrap as well (multiplex.py:134), although the manual says "if true, instructs the
\* module to cycle" (simulation-with-variation-modules.rst:524).
Switched(g, s, due) ==
    [s EXCEPT !.fileno[g.at] = IF @ = Unset \/ @ < due \/ Given(g.wrap) THEN due ELSE @]

\* The test whether a SET is for the control OID looks for a key in a truth
\* value, or for a key that is not there: every SET ends in an exception.
MultiplexVariate(g, x, s, c) ==
    LET y == Parsed(g, x)
        held == [s EXCEPT !.fileno[g.at] = IF @ = Unset THEN 0 ELSE @]
    IN  IF Raises(g, x) THEN Broken(y, s)
        ELSE IF y.settings = "half" THEN Silent(y, s)
        ELSE IF c.set THEN Broken(y, s)
        ELSE IF ~g.control THEN Replay(g, y, Switched(g, s, Due(g, c.now)), c)
        ELSE IF ~c.next /\ c.oid = g.at THEN Value(y, held, c.oid, held.fileno[g.at])
        ELSE Replay(g, y, held, c)

---------------------------------------------------------------------------
(***************************************************************************)
(* redis: s.list are the key-spaces, s.order the OIDs of each in order,    *)
(* s.stored their values.  An OID is listed as <<1, oid>>, that is with    *)
(* its key-space in front, when it was recorded, and as <<0, oid>>, which  *)
(* sorts before, when it was SET.                                          *)
(***************************************************************************)
Less(a, b) == a[1] < b[1] \/ (a[1] = b[1] /\ a[2] < b[2])
Nowhere == -1

\* getNextOid: -1 for an exception: no tries left, or past the end of the list.
\* An OID that is not listed gets the place of the last comparison.
getNextOid(order, key) ==
    LET n == Len(order)
        f[lo \in 0..n, hi \in -1..n, left \in 0..n, idx \in 0..n] ==
            LET i == lo + (hi - lo) \div 2
            IN  IF left = 0 THEN Nowhere
                ELSE IF hi < lo THEN idx
                ELSE IF i >= n THEN Nowhere
                ELSE IF Less(order[i + 1], key) THEN f[i + 1, hi, left - 1, i]
                ELSE IF Less(key, order[i + 1]) THEN f[lo, i - 1, left - 1, i]
                ELSE IF left = 1 THEN Nowhere ELSE i + 1
    IN  f[0, n, n, 0]

InsertedBehind(order, idx, entry) ==
    IF idx >= Len(order) THEN order
    ELSE SubSeq(order, 1, idx + 1) \o <<entry>> \o SubSeq(order, idx + 2, Len(order))

RedisSet(x, s, ks, c) ==
    LET prev == s.stored[ks, c.oid]
        idx == getNextOid(s.order[ks], <<1, c.oid>>)
        set == [s EXCEPT !.stored[<<ks, c.oid>>] = c.val]
    IN  IF prev # NoVal
        THEN IF Type(prev) # Type(c.val) THEN Refuse(x, s) ELSE Value(x, set, c.oid, c.val)
        ELSE IF idx = Nowhere THEN Broken(x, s)
        ELSE Value(x, [set EXCEPT !.order[ks] = InsertedBehind(@, idx, <<0, c.oid>>)], c.oid, c.val)

RedisGetNext(x, s, ks, c) ==
    LET order == s.order[ks]
        idx == getNextOid(order, <<1, c.oid>>)
    IN  IF idx = Nowhere \/ idx >= Len(order) THEN Broken(x, s)
        ELSE IF order[idx + 1][1] = 0 THEN Silent(x, s)
        ELSE Value(x, s, order[idx + 1][2], s.stored[ks, order[idx + 1][2]])

RedisVariate(g, x, s, c) ==
    LET y == Parsed(g, x)
        ks == s.list[IF g.period = 0 THEN 1 ELSE (c.now % Len(s.list)) + 1]
    IN  IF ~s.connected THEN Broken(x, s)
        ELSE IF Raises(g, x) THEN Broken(y, s)
        ELSE IF y.settings = "half" THEN Silent(y, s)
        ELSE IF s.list = <<>> THEN Broken(y, s)
        ELSE IF c.set THEN RedisSet(y, s, ks, c)
        ELSE IF c.next THEN RedisGetNext(y, s, ks, c)
        ELSE IF s.stored[ks, c.oid] = NoVal THEN Silent(y, s)
        ELSE Value(y, s, c.oid, s.stored[ks, c.oid])

---------------------------------------------------------------------------
(***************************************************************************)
(* sql: s.db are the rows as the connection sees them, s.committed those   *)
(* that are committed.  Nothing is ever rolled back.                       *)
(***************************************************************************)
NoRow == [value |-> NoVal, write |-> FALSE]

\* A mutant of Committed: at the first var-bind of the request.
CommittedFirst(s, c) == IF c.first THEN [s EXCEPT !.committed = s.db] ELSE s

Committed(s, c) == IF c.last THEN [s EXCEPT !.committed = s.db] ELSE s

SqlSet(x, s, c) ==
    LET row == s.db[c.oid]
        written == [s EXCEPT !.db[c.oid] = [value |-> c.val, write |-> TRUE]]
    IN  IF row # NoRow /\ ~row.write THEN Silent(x, s)
        ELSE Value(x, Committed(written, c), c.oid, c.val)

SqlVariate(g, x, s, c) ==
    LET behind == {o \in DOMAIN s.db : o > c.oid /\ s.db[o] # NoRow}
        oid == IF c.next /\ behind # {} THEN Least(behind) ELSE c.oid
    IN  IF ~s.connected THEN Broken(x, s)
        ELSE IF c.set THEN SqlSet(x, s, c)
        ELSE IF (c.next /\ behind = {}) \/ s.db[oid] = NoRow THEN Silent(x, s)
        ELSE Value(x, s, oid, s.db[oid].value)

---------------------------------------------------------------------------
(***************************************************************************)
(* numeric: a function of the time since start, scaled, offset and varied  *)
(* by chance; on top of the last value if it is cumulative.  randrange     *)
(* raises for the floats it is given on recent versions of Python.         *)
(* cumulative and wrap are asked for by name only: "wrap=0" wraps as well, *)
(* although the manual says "if zero, generated value will freeze when     *)
(* reaching max" (simulation-with-variation-modules.rst:176).              *)
(***************************************************************************)
NonNegative(v) == IF v < 0 THEN 0 ELSE v

\* A mutant of Grown: the value may fall.
GrownByAny(g, v, vold) == v + vold

Grown(g, v, vold) == (IF Given(g.cumulative) THEN NonNegative(v) ELSE v) + vold

Within(g, v) == IF v < g.min THEN g.min
                ELSE IF v <= g.max THEN v
                ELSE IF Given(g.wrap) THEN (v % g.max) + g.min ELSE g.max

\* math functions: the identity, and one that swings as a cosine does.
Function(g, t) == IF g.function = "identity" THEN t ELSE IF t % 2 = 0 THEN 1 ELSE -1

NumericVariate(g, x, s, c) ==
    LET y == Parsed(g, x)
        vold == IF Given(g.cumulative) /\ x.value # NoVal THEN x.value ELSE g.initial
        t == IF Given(g.cumulative) THEN (c.now - x.told) * g.rate ELSE 1
        v == Within(g, Grown(g, Function(g, c.now * g.rate) * g.scale + g.offset * t + c.dev, vold))
    IN  IF Foreign(g, c) \/ c.set THEN Silent(x, s)
        ELSE IF y.settings # "full" THEN Broken(y, s)
        ELSE IF c.raises /\ g.deviation > 0 THEN Broken(y, s)
        ELSE Value(IF Given(g.cumulative) THEN [y EXCEPT !.value = v, !.told = c.now] ELSE y, s, g.at, v)

---------------------------------------------------------------------------
(***************************************************************************)
(* Rules for values: the first that fits, eq before lt before gt.  Of a    *)
(* list that does not parse (g.bad is its name) the g.rest rules behind    *)
(* the bad one are left, in pieces, and a list behind that one stays the   *)
(* text it was: the next call to look for a rule there raises.             *)
(***************************************************************************)
Fits(rule, v) == CASE rule.op = "eq" -> v = rule.v
                   [] rule.op = "lt" -> v < rule.v
                   [] rule.op = "gt" -> v > rule.v

Rank(rule) == CASE rule.op = "eq" -> 1 [] rule.op = "lt" -> 2 [] rule.op = "gt" -> 3

FirstRule(fitting) == CHOOSE r \in fitting : \A q \in fitting : Rank(r) <= Rank(q)

\* delay: the time an eq rule of tlist names is compared with the whole rule
\* set and never fits.  The responder sleeps, and everybody waits.
Consulted(g, c) == IF c.set /\ (g.vlist # {} \/ g.bad = "vlist") THEN "vlist" ELSE "tlist"

InPieces(g, c) ==
    \/ Consulted(g, c) = g.bad /\ g.rest > 0
    \/ g.bad = "vlist" /\ Consulted(g, c) = "tlist" /\ g.tlist # {}

DelayFor(g, c) ==
    LET list == Consulted(g, c)
        byValue == {r \in g.vlist : Fits(r, c.val)}
        byTime == {r \in g.tlist : Fits(r, c.now) /\ r.op # "eq"}
        fitting == IF list = g.bad THEN {} ELSE IF list = "vlist" THEN byValue ELSE byTime
    IN  IF fitting = {} THEN g.wait ELSE FirstRule(fitting).d

DelayVariate(g, x, s, c) ==
    LET y == Parsed(g, x)
        delay == NonNegative(DelayFor(g, c) + c.dev)
        v == IF c.set \/ g.value = NoVal THEN c.val ELSE g.value
    IN  IF Foreign(g, c) THEN Silent(x, s)
        ELSE IF Raises(g, x) \/ g.bad = "wait" \/ InPieces(g, c) THEN Broken(y, s)
        ELSE IF c.raises /\ g.deviation > 0 THEN Broken(y, s)
        ELSE IF delay > LIMIT THEN Drop(y, s)
        ELSE [Value(y, s, g.at, v) EXCEPT !.slept = delay]

\* error: g.known tells whether status is a name the module knows.
ErrorVariate(g, x, s, c) ==
    LET y == Parsed(g, x)
        byList == c.set /\ (g.vlist # {} \/ g.bad = "vlist")
        fitting == {r \in g.vlist : g.bad # "vlist" /\ Fits(r, c.val)}
        byStatus == g.op \in {"any", IF c.set THEN "set" ELSE "get"} /\ g.known
        fails == IF byList THEN fitting # {} /\ FirstRule(fitting).d = 1 ELSE byStatus
        kept == IF c.set THEN [y EXCEPT !.value = c.val] ELSE y
        v == IF kept.value = NoVal THEN g.value ELSE kept.value
    IN  IF Foreign(g, c) THEN Silent(x, s)
        ELSE IF Raises(g, x) \/ (byList /\ g.bad = "vlist" /\ g.rest > 0) THEN Broken(y, s)
        ELSE IF fails THEN Refuse(y, s)
        ELSE IF v = NoVal THEN Silent(kept, s)
        ELSE Value(kept, s, g.at, v)

\* notification: a vlist takes the name of the list it was parsed from and
\* always fails; what is left of it, g.rest pairs, is looked into all the same.
NotificationVariate(g, x, s, c) ==
    LET y == Parsed(g, x)
        asked == g.op = "any" \/ (g.op = "get" /\ ~c.set) \/ (g.op = "set" /\ c.set)
        v == IF c.set \/ g.value = NoVal THEN c.val ELSE g.value
        done == Value(y, s, g.at, v)
    IN  IF ~s.engine THEN Broken(x, s)
        ELSE IF Foreign(g, c) THEN Silent(x, s)
        ELSE IF Raises(g, x) THEN Broken(y, s)
        ELSE IF c.set /\ g.bad = "vlist"
             THEN IF g.rest > 0 THEN Broken(y, s) ELSE Value(y, s, g.at, c.val)
        ELSE IF g.op = "unknown" THEN Silent(y, s)
        ELSE IF ~asked THEN done
        ELSE IF g.target = "unknown" THEN Silent(y, s)
        ELSE IF c.raises \/ g.target = "missing" THEN Broken(y, s)
        ELSE [done EXCEPT !.s.sent = IF @ < 2 THEN @ + 1 ELSE @]

\* subprocess: an exit status is caught, a command that cannot be run is not.
SubprocessVariate(g, x, s, c) ==
    IF c.raises THEN Broken(x, s)
    ELSE IF c.fails THEN Silent(x, s)
    ELSE Value(x, s, g.at, g.value)

variate(g, x, s, c) ==
    CASE g.module = "multiplex"    -> MultiplexVariate(g, x, s, c)
      [] g.module = "redis"        -> RedisVariate(g, x, s, c)
      [] g.module = "sql"          -> SqlVariate(g, x, s, c)
      [] g.module = "numeric"      -> NumericVariate(g, x, s, c)
      [] g.module = "delay"        -> DelayVariate(g, x, s, c)
      [] g.module = "error"        -> ErrorVariate(g, x, s, c)
      [] g.module = "notification" -> NotificationVariate(g, x, s, c)
      [] g.module = "subprocess"   -> SubprocessVariate(g, x, s, c)
=============================================================================
