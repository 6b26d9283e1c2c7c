--------------------------- MODULE VariationsProofs ---------------------------
(***************************************************************************)
(* Of variation modules, for any records, stores, requests and times: what *)
(* is half read is never used, and cumulative counters do not fall (IInv); *)
(* the snapshots of multiplex never go back, and what SET of sql answers   *)
(* is committed (Snapshots).                                               *)
(***************************************************************************)
EXTENDS Variations, NaturalsInduction, WellFoundedInduction, TLAPS

Halved == [NewRecord EXCEPT !.settings = "half"]

\* Of the records that must never answer nothing but the failure is remembered.
Never(g) == g.module \in {"multiplex", "redis", "numeric"} /\ g.bad # "no"
Unread(g, x) == Never(g) => x \in {NewRecord, Halved}

\* What a numeric record without wrap remembers: the value told last is within bounds.
Told(g, x) ==
    g.module = "numeric" /\ g.wrap = "absent" =>
        /\ x \in [settings : {"none", "half", "full"}, value : Int, told : Int]
        /\ x.value # NoVal => x.value <= g.max

\* Nothing a sequence of outcomes is made of is the value of a record that must
\* not answer.
Unused(o) == Never(sim.records[o.rec]) => o.ctl # "value"
AllUnused(outcomes) == \E S : outcomes \in Seq(S) /\ \A o \in S : Unused(o)

IInv ==
    /\ sim \in Simulations /\ now \in Int
    /\ record = [r \in Records |-> record[r]]
    /\ \A r \in Records : Unread(sim.records[r], record[r]) /\ Told(sim.records[r], record[r])
    /\ AllUnused(done) /\ AllUnused(ended.done)

---------------------------------------------------------------------------
\* NoVal and the outcomes, for leaves that need them.
LEMMA Outcomes ==
    ASSUME NEW x, NEW s, NEW oid, NEW v
    PROVE  /\ \A out \in {Silent(x, s), Broken(x, s), Refuse(x, s), Drop(x, s)} :
                 out.ctl # "value" /\ out.x = x /\ out.slept = 0
           /\ Value(x, s, oid, v).x = x /\ Value(x, s, oid, v).slept = 0
           /\ Value(x, s, oid, v).value = v
BY DEF Silent, Broken, Refuse, Drop, Without, Value

\* Settings that are bad are half read, at the first reference and ever after, or
\* raise at every one.
LEMMA ParsedHalf ==
    ASSUME NEW g, NEW x \in {NewRecord, Halved}, g.bad # "no"
    PROVE  /\ Parsed(g, x) \in {NewRecord, Halved} /\ Parsed(g, x).settings # "full"
           /\ Parsed(g, x).settings = "half" \/ Raises(g, x)
BY DEF Parsed, NewRecord, Halved, Raises

\* multiplex, redis and numeric do not answer from settings that are half read.
LEMMA HalfReadSilent ==
    ASSUME NEW g, NEW x, NEW s, NEW c, Never(g), Unread(g, x)
    PROVE  /\ variate(g, x, s, c).ctl # "value"
           /\ Unread(g, variate(g, x, s, c).x)
<1> DEFINE y == Parsed(g, x)
           out == variate(g, x, s, c)
<1>1. x \in {NewRecord, Halved} /\ g.bad # "no" BY DEF Never, Unread
<1>2. /\ y \in {NewRecord, Halved} /\ y.settings # "full"
      /\ y.settings = "half" \/ Raises(g, x)
  BY <1>1, ParsedHalf
<1>3. out \in {Silent(x, s), Broken(x, s), Silent(y, s), Broken(y, s)}
  <2>1. CASE g.module = "multiplex"
    <3>1. out = MultiplexVariate(g, x, s, c) BY <2>1 DEF variate
    <3> HIDE DEF y, out
    <3> QED BY <3>1, <1>2 DEF MultiplexVariate, y
  <2>2. CASE g.module = "redis"
    <3>1. out = RedisVariate(g, x, s, c) BY <2>2 DEF variate
    <3> HIDE DEF y, out
    <3> QED BY <3>1, <1>2 DEF RedisVariate, y
  <2>3. CASE g.module = "numeric"
    <3>1. out = NumericVariate(g, x, s, c) BY <2>3 DEF variate
    <3> HIDE DEF y, out
    <3> QED BY <3>1, <1>2 DEF NumericVariate, y
  <2> QED BY <2>1, <2>2, <2>3 DEF Never
<1>4. out.ctl # "value" /\ out.x \in {x, y}
  <2> HIDE DEF out, y
  <2>1. \A z \in {x, y} : \A o \in {Silent(z, s), Broken(z, s)} : o.ctl # "value" /\ o.x = z
    BY Outcomes
  <2> QED BY <2>1, <1>3
<1> QED BY <1>1, <1>2, <1>4 DEF Unread

---------------------------------------------------------------------------
\* The settings of a record are as they are taken to be.
LEMMA Settings ==
    ASSUME NEW t \in Simulations, NEW r \in DOMAIN t.records, NEW g, g = t.records[r]
    PROVE  /\ g.module \in {"multiplex", "redis", "sql", "numeric", "delay", "error",
                            "notification", "subprocess"}
           /\ g.deviation \in Nat
           /\ g.module = "numeric" =>
                /\ g.cumulative \in Written /\ g.wrap \in Written
                /\ g.rate \in Int /\ g.scale \in Int /\ g.offset \in Int
                /\ g.initial \in Int /\ g.min \in Int /\ g.max \in Int /\ g.min <= g.max
           /\ g.module = "delay" =>
                /\ g.wait \in Int
                /\ \A rule \in g.vlist \cup g.tlist : rule.d \in Int /\ rule.op \in {"eq", "lt", "gt"}
BY SettingsAssumption

\* What is added to the last value of a cumulative counter does not lessen it, and
\* without wrap the bounds do not either.
LEMMA GrownWithin ==
    ASSUME NEW g, NEW v \in Int, NEW vold \in Int,
           g.min \in Int, g.max \in Int, g.min <= g.max,
           g.cumulative \in Written, g.wrap = "absent"
    PROVE  /\ Within(g, Grown(g, v, vold)) \in Int
           /\ Within(g, Grown(g, v, vold)) <= g.max
           /\ Given(g.cumulative) /\ vold <= g.max => Within(g, Grown(g, v, vold)) >= vold
BY DEF Within, Grown, NonNegative, Given

\* A call with what the requests, the clock and chance may bring.
LEMMA CallOf ==
    ASSUME NEW g, g.deviation \in Nat, now \in Int, NEW c \in Calls(g)
    PROVE  c.now = now /\ c.now \in Int /\ c.dev \in Int
BY DEF Calls, Deviations

\* The last value of a numeric record is remembered when it is cumulative.
LEMMA NumericTold ==
    ASSUME NEW t \in Simulations, NEW r \in DOMAIN t.records, NEW g, g = t.records[r],
           g.module = "numeric", g.wrap = "absent", NEW x, NEW s, NEW c, Told(g, x),
           c.now \in Int, c.dev \in Int
    PROVE  /\ Told(g, variate(g, x, s, c).x)
           /\ x.value # NoVal => variate(g, x, s, c).x.value >= x.value
<1> DEFINE y == Parsed(g, x)
           vold == IF Given(g.cumulative) /\ x.value # NoVal THEN x.value ELSE g.initial
           tt == IF Given(g.cumulative) THEN (c.now - x.told) * g.rate ELSE 1
           raw == Function(g, c.now * g.rate) * g.scale + g.offset * tt + c.dev
           v == Within(g, Grown(g, raw, vold))
           kept == [y EXCEPT !.value = v, !.told = c.now]
           out == variate(g, x, s, c)
           Goal == /\ Told(g, out.x)
                   /\ x.value # NoVal => out.x.value >= x.value
<1>1. /\ g.cumulative \in Written /\ g.rate \in Int /\ g.scale \in Int /\ g.offset \in Int
      /\ g.initial \in Int /\ g.min \in Int /\ g.max \in Int /\ g.min <= g.max
  BY Settings
<1>2. /\ x \in [settings : {"none", "half", "full"}, value : Int, told : Int]
      /\ x.value # NoVal => x.value <= g.max
  BY DEF Told
<1>3. y \in [settings : {"none", "half", "full"}, value : Int, told : Int] /\ y.value = x.value
  BY <1>2 DEF Parsed
<1>4. vold \in Int /\ tt \in Int
  <2>1. x.value \in Int /\ c.now - x.told \in Int BY <1>2
  <2>2. (c.now - x.told) * g.rate \in Int BY <1>1, <2>1
  <2> QED BY <1>1, <2>1, <2>2
<1>5. raw \in Int
  <2> HIDE DEF tt
  <2>1. c.now * g.rate \in Int BY <1>1
  <2>2. Function(g, c.now * g.rate) \in Int BY <2>1 DEF Function
  <2>3. Function(g, c.now * g.rate) * g.scale \in Int BY <1>1, <2>2
  <2>4. g.offset * tt \in Int BY <1>1, <1>4
  <2> QED BY <2>3, <2>4
<1>6. /\ v \in Int /\ v <= g.max
      /\ Given(g.cumulative) /\ vold <= g.max => v >= vold
  <2> HIDE DEF raw, vold
  <2> QED BY <1>1, <1>4, <1>5, GrownWithin
<1>7. /\ kept \in [settings : {"none", "half", "full"}, value : Int, told : Int]
      /\ kept.value = v
  <2> HIDE DEF v, y
  <2> QED BY <1>3, <1>6
<1>8. out.x \in {x, y} \/ (Given(g.cumulative) /\ out.x = kept)
  <2>1. out = NumericVariate(g, x, s, c) BY DEF variate
  <2>2. \/ out \in {Silent(x, s), Broken(y, s)}
        \/ out = Value(IF Given(g.cumulative) THEN kept ELSE y, s, g.at, v)
    <3> HIDE DEF out
    <3> QED BY <2>1 DEF NumericVariate
  <2>3. CASE out \in {Silent(x, s), Broken(y, s)} BY <2>3, Outcomes
  <2>4. CASE out = Value(IF Given(g.cumulative) THEN kept ELSE y, s, g.at, v)
    <3> HIDE DEF out, kept, y, v
    <3>1. out.x = IF Given(g.cumulative) THEN kept ELSE y BY <2>4, Outcomes
    <3> QED BY <3>1, <1>1
  <2> QED BY <2>2, <2>3, <2>4
<1>9. ASSUME out.x \in {x, y} PROVE Goal
  <2> HIDE DEF out, y
  <2> QED BY <1>2, <1>3, <1>9 DEF Told
<1>10. ASSUME Given(g.cumulative) /\ out.x = kept PROVE Goal
  <2>1. x.value # NoVal => vold = x.value BY <1>10
  <2> HIDE DEF out, kept, v, vold
  <2> QED BY <1>1, <1>2, <1>6, <1>7, <1>10, <2>1 DEF Told
<1> QED BY <1>8, <1>9, <1>10

---------------------------------------------------------------------------
\* Of rules that fit, the one taken is one of them.
LEMMA FirstFits ==
    ASSUME NEW rules, rules # {}, \A q \in rules : q.op \in {"eq", "lt", "gt"}
    PROVE  FirstRule(rules) \in rules
<1>1. \A q \in rules : Rank(q) = IF q.op = "eq" THEN 1 ELSE IF q.op = "lt" THEN 2 ELSE 3
  <2>1. ASSUME NEW q \in rules, q.op = "eq" PROVE Rank(q) = 1 BY <2>1, Zenon DEF Rank
  <2>2. ASSUME NEW q \in rules, q.op = "lt" PROVE Rank(q) = 2 BY <2>2, Zenon DEF Rank
  <2>3. ASSUME NEW q \in rules, q.op = "gt" PROVE Rank(q) = 3 BY <2>3, Zenon DEF Rank
  <2> QED BY <2>1, <2>2, <2>3
<1>2. \E r \in rules : \A q \in rules : Rank(r) <= Rank(q)
  <2>1. CASE \E r \in rules : r.op = "eq" BY <1>1, <2>1
  <2>2. CASE (\A r \in rules : r.op # "eq") /\ \E r \in rules : r.op = "lt" BY <1>1, <2>2
  <2>3. CASE \A r \in rules : r.op # "eq" /\ r.op # "lt" BY <1>1, <2>3
  <2> QED BY <2>1, <2>2, <2>3
<1> QED BY <1>2 DEF FirstRule

\* delay waits for a whole number of seconds.
LEMMA DelaySlept ==
    ASSUME NEW t \in Simulations, NEW r \in DOMAIN t.records, NEW g, g = t.records[r],
           g.module = "delay", NEW x, NEW s, NEW c, c.dev \in Int
    PROVE  DelayVariate(g, x, s, c).slept \in Int
<1> DEFINE y == Parsed(g, x)
           byValue == {q \in g.vlist : Fits(q, c.val)}
           byTime == {q \in g.tlist : Fits(q, c.now) /\ q.op # "eq"}
           delay == NonNegative(DelayFor(g, c) + c.dev)
           v == IF c.set \/ g.value = NoVal THEN c.val ELSE g.value
<1>1. /\ g.wait \in Int
      /\ \A q \in g.vlist \cup g.tlist : q.d \in Int /\ q.op \in {"eq", "lt", "gt"}
  BY Settings
<1>2. \A rules \in {byValue, byTime} : rules # {} => FirstRule(rules).d \in Int
  <2>1. byValue \subseteq g.vlist /\ byTime \subseteq g.tlist OBVIOUS
  <2> HIDE DEF byValue, byTime
  <2> QED BY <1>1, <2>1, FirstFits
<1>3. DelayFor(g, c) \in Int
  <2>1. \/ DelayFor(g, c) = g.wait
        \/ byValue # {} /\ DelayFor(g, c) = FirstRule(byValue).d
        \/ byTime # {} /\ DelayFor(g, c) = FirstRule(byTime).d
    BY DEF DelayFor
  <2> HIDE DEF byValue, byTime
  <2> QED BY <1>1, <1>2, <2>1
<1>4. delay \in Int BY <1>3 DEF NonNegative
<1>5. \/ DelayVariate(g, x, s, c) \in {Silent(x, s), Broken(y, s), Drop(y, s)}
      \/ DelayVariate(g, x, s, c) = [Value(y, s, g.at, v) EXCEPT !.slept = delay]
  BY DEF DelayVariate
<1>6. [Value(y, s, g.at, v) EXCEPT !.slept = delay].slept = delay BY DEF Value
<1>7. \A o \in {Silent(x, s), Broken(y, s), Drop(y, s)} : o.slept \in Int BY Outcomes
<1> DEFINE out == DelayVariate(g, x, s, c)
<1>8. out.slept \in Int
  <2> HIDE DEF y, delay, v, out
  <2> QED BY <1>4, <1>5, <1>6, <1>7 DEF out
<1> QED BY <1>8

\* No handler makes time stand on anything but a number.
LEMMA Slept ==
    ASSUME NEW t \in Simulations, NEW r \in DOMAIN t.records, NEW g, g = t.records[r],
           NEW x, NEW s, NEW c, c.dev \in Int
    PROVE  variate(g, x, s, c).slept \in Int
<1> DEFINE out == variate(g, x, s, c)
<1>0. \A z, u, oid, v : \A o \in {Silent(z, u), Broken(z, u), Refuse(z, u), Drop(z, u), Value(z, u, oid, v)} :
         o.slept \in Int
  BY Outcomes
<1>1. CASE g.module = "multiplex"
  <2>1. ASSUME NEW y, NEW u PROVE Replay(g, y, u, c).slept \in Int
    BY <1>0 DEF Replay
  <2>2. out = MultiplexVariate(g, x, s, c) BY <1>1 DEF variate
  <2> QED BY <1>0, <2>1, <2>2 DEF MultiplexVariate
<1>2. CASE g.module = "redis"
  <2>1. ASSUME NEW y, NEW u, NEW ks PROVE RedisSet(y, u, ks, c).slept \in Int
    BY <1>0 DEF RedisSet
  <2>2. ASSUME NEW y, NEW u, NEW ks PROVE RedisGetNext(y, u, ks, c).slept \in Int
    BY <1>0 DEF RedisGetNext
  <2>3. out = RedisVariate(g, x, s, c) BY <1>2 DEF variate
  <2> QED BY <1>0, <2>1, <2>2, <2>3 DEF RedisVariate
<1>3. CASE g.module = "sql"
  <2>1. SqlSet(x, s, c).slept \in Int BY <1>0 DEF SqlSet
  <2>2. out = SqlVariate(g, x, s, c) BY <1>3 DEF variate
  <2> QED BY <1>0, <2>1, <2>2 DEF SqlVariate
<1>4. CASE g.module = "numeric"
  <2>1. out = NumericVariate(g, x, s, c) BY <1>4 DEF variate
  <2>2. \E y, z, v : out \in {Silent(x, s), Broken(y, s), Value(z, s, g.at, v)}
    <3> HIDE DEF out
    <3> QED BY <2>1 DEF NumericVariate
  <2> QED BY <1>0, <2>2
<1>5. CASE g.module = "delay"
  <2>1. out = DelayVariate(g, x, s, c) BY <1>5 DEF variate
  <2> QED BY <1>5, <2>1, DelaySlept
<1>6. CASE g.module = "error"
  <2>1. out = ErrorVariate(g, x, s, c) BY <1>6 DEF variate
  <2> QED BY <1>0, <2>1 DEF ErrorVariate
<1>7. CASE g.module = "notification"
  <2>1. ASSUME NEW y, NEW u, NEW v, NEW w
        PROVE  [Value(y, u, g.at, v) EXCEPT !.s = w].slept \in Int
    BY DEF Value
  <2>2. out = NotificationVariate(g, x, s, c) BY <1>7 DEF variate
  <2> QED BY <1>0, <2>1, <2>2 DEF NotificationVariate
<1>8. CASE g.module = "subprocess"
  <2>1. out = SubprocessVariate(g, x, s, c) BY <1>8 DEF variate
  <2> QED BY <1>0, <2>1 DEF SubprocessVariate
<1> QED BY <1>1, <1>2, <1>3, <1>4, <1>5, <1>6, <1>7, <1>8, Settings

---------------------------------------------------------------------------
LEMMA NothingDone == AllUnused(<<>>)
<1> DEFINE silent == [rec |-> 0, ctl |-> "silent"]
           T == {silent}
<1>1. \A o \in T : Unused(o) BY DEF Unused
<1>2. <<>> \in Seq(T) OBVIOUS
<1> HIDE DEF T
<1> QED BY <1>1, <1>2 DEF AllUnused

LEMMA OneMoreUnused ==
    ASSUME NEW outcomes, AllUnused(outcomes), NEW o, Unused(o)
    PROVE  AllUnused(Append(outcomes, o))
<1>1. PICK S : outcomes \in Seq(S) /\ \A q \in S : Unused(q) BY DEF AllUnused
<1>2. outcomes \in Seq(S \cup {o}) BY <1>1
<1>3. Append(outcomes, o) \in Seq(S \cup {o}) BY <1>2
<1>4. \A q \in S \cup {o} : Unused(q) BY <1>1
<1> QED BY <1>3, <1>4 DEF AllUnused

\* Unused looks at the simulation, which never changes.
LEMMA UnusedStays ==
    ASSUME sim' = sim, NEW outcomes, AllUnused(outcomes)
    PROVE  \E S : outcomes \in Seq(S)
                  /\ \A o \in S : Never(sim'.records[o.rec]) => o.ctl # "value"
BY DEF AllUnused, Unused

\* A record that is remembered as new.
LEMMA FreshRecord ==
    ASSUME NEW t, NEW r \in DOMAIN t.records
    PROVE  Unread(t.records[r], Fresh(t)[r]) /\ Told(t.records[r], Fresh(t)[r])
BY DEF Unread, Told, Fresh, NewRecord, NoVal

LEMMA InitInv == Init => IInv
<1> SUFFICES ASSUME Init PROVE IInv
    OBVIOUS
<1>1. sim \in Simulations /\ now = 0 /\ record = Fresh(sim) /\ done = <<>> /\ ended.done = <<>>
  BY DEF Init, NotYet
<1>2. record = [r \in Records |-> record[r]] BY <1>1 DEF Fresh, Records
<1> QED BY <1>1, <1>2, FreshRecord, NothingDone DEF IInv, Records

\* Whatever the call brings, the record keeps its promises, and so does the outcome.
LEMMA Called ==
    ASSUME IInv, NEW r \in Records, NEW c \in Calls(sim.records[r])
    PROVE  LET g == sim.records[r]
               out == variate(g, record[r], store, c)
           IN  /\ Unread(g, out.x) /\ Told(g, out.x) /\ out.slept \in Int
               /\ Never(g) => out.ctl # "value"
               /\ g.module = "numeric" /\ g.wrap = "absent" /\ record[r].value # NoVal
                    => out.x.value >= record[r].value
<1> DEFINE g == sim.records[r]
           x == record[r]
           out == variate(g, x, store, c)
<1>1. sim \in Simulations /\ r \in DOMAIN sim.records /\ now \in Int /\ Unread(g, x) /\ Told(g, x)
  BY DEF IInv, Records
<1>2. g.deviation \in Nat BY <1>1, Settings
<1> HIDE DEF g, x
<1>3. c.now \in Int /\ c.dev \in Int BY <1>1, <1>2, CallOf DEF g
<1>4. out.slept \in Int BY <1>1, <1>3, Slept DEF g
<1>5. Unread(g, out.x) /\ (Never(g) => out.ctl # "value")
  BY <1>1, HalfReadSilent DEF Unread
<1>6. Told(g, out.x) /\ (g.module = "numeric" /\ g.wrap = "absent" /\ x.value # NoVal => out.x.value >= x.value)
  <2>1. CASE g.module = "numeric" /\ g.wrap = "absent" BY <1>1, <1>3, <2>1, NumericTold DEF g
  <2>2. CASE ~(g.module = "numeric" /\ g.wrap = "absent") BY <2>2 DEF Told
  <2> QED BY <2>1, <2>2
<1> QED BY <1>4, <1>5, <1>6 DEF g, x

\* The step that answers a var-bind, whatever the outcome is.
LEMMA AnsweredStep ==
    ASSUME IInv, NEW r \in Records, NEW out, Answered(r, out), sim' = sim,
           Unread(sim.records[r], out.x), Told(sim.records[r], out.x), out.slept \in Int,
           Never(sim.records[r]) => out.ctl # "value"
    PROVE  IInv'
<1> DEFINE o == [rec |-> r, ctl |-> out.ctl, value |-> out.value]
           outcomes == Append(done, o)
<1>1. AllUnused(outcomes)
  <2>1. Unused(o) BY DEF Unused
  <2> HIDE DEF o
  <2> QED BY <2>1, OneMoreUnused DEF IInv
<1>2. now' \in Int BY VariationsAssumption DEF Answered, IInv
<1>3. record' = [record EXCEPT ![r] = out.x] BY DEF Answered
<1>4. record' = [q \in Records' |-> record'[q]] BY <1>3 DEF IInv, Records
<1>5. \A q \in Records' : Unread(sim'.records[q], record'[q]) /\ Told(sim'.records[q], record'[q])
  <2>1. \A q \in Records : record'[q] = IF q = r THEN out.x ELSE record[q]
    BY <1>3 DEF IInv
  <2> QED BY <2>1 DEF IInv, Records
<1>6. done' \in {<<>>, outcomes} /\ ended'.done \in {outcomes, ended.done}
  <2> DEFINE Ends == \E reply : End(outcomes, reply)
             Goes == done' = outcomes /\ UNCHANGED <<request, ended>>
  <2>1. Ends \/ Goes
    <3> HIDE DEF outcomes
    <3> QED BY DEF Answered, outcomes
  <2>2. CASE Ends BY <2>2 DEF End
  <2>3. CASE Goes BY <2>3
  <2> QED BY <2>1, <2>2, <2>3
<1>7. AllUnused(done)' /\ AllUnused(ended.done)'
  <2> HIDE DEF outcomes
  <2>1. AllUnused(done') /\ AllUnused(ended'.done)
    BY <1>1, <1>6, NothingDone DEF IInv
  <2> QED BY <2>1, UnusedStays DEF AllUnused, Unused
<1> QED BY <1>2, <1>4, <1>5, <1>7 DEF IInv

LEMMA NextInv == IInv /\ [Next]_vars => IInv'
<1> SUFFICES ASSUME IInv, [Next]_vars PROVE IInv'
    OBVIOUS
<1>1. CASE Receive
  <2>1. sim' = sim /\ record' = record /\ now' = now /\ done' = done /\ ended'.done = <<>>
    BY <1>1 DEF Receive, NotYet
  <2>2. AllUnused(ended'.done) BY <2>1, NothingDone
  <2>3. AllUnused(done)' /\ AllUnused(ended.done)'
    BY <2>1, <2>2, UnusedStays DEF IInv, AllUnused, Unused
  <2> QED BY <2>1, <2>3 DEF IInv, Records
<1>2. CASE Variate
  <2>1. PICK r \in Records : \E c \in Calls(sim.records[r]) :
            Answered(r, variate(sim.records[r], record[r], store, c))
    BY <1>2 DEF Variate
  <2>2. PICK c \in Calls(sim.records[r]) :
            Answered(r, variate(sim.records[r], record[r], store, c))
    BY <2>1
  <2>3. sim' = sim BY <1>2 DEF Variate
  <2> QED BY <2>2, <2>3, Called, AnsweredStep
<1>3. CASE Tick
  <2>1. sim' = sim /\ record' = record /\ now' \in Int /\ done' = done /\ ended' = ended
    BY <1>3 DEF Tick, IInv
  <2>2. AllUnused(done)' /\ AllUnused(ended.done)'
    BY <2>1, UnusedStays DEF IInv, AllUnused, Unused
  <2> QED BY <2>1, <2>2 DEF IInv, Records
<1>4. CASE Restart
  <2>1. sim' = sim /\ record' = Fresh(sim) /\ now' = 0 /\ done' = <<>> /\ ended'.done = <<>>
    BY <1>4 DEF Restart, NotYet
  <2>2. AllUnused(done') /\ AllUnused(ended'.done) BY <2>1, NothingDone
  <2>3. AllUnused(done)' /\ AllUnused(ended.done)'
    BY <2>1, <2>2, UnusedStays DEF AllUnused, Unused
  <2>4. record' = [r \in Records' |-> record'[r]] BY <2>1 DEF Fresh, Records
  <2> QED BY <2>1, <2>3, <2>4, FreshRecord DEF IInv, Records
<1>5. CASE UNCHANGED vars
  <2>1. sim' = sim /\ record' = record /\ now' = now /\ done' = done /\ ended' = ended
    BY <1>5 DEF vars
  <2>2. AllUnused(done)' /\ AllUnused(ended.done)'
    BY <2>1, UnusedStays DEF IInv, AllUnused, Unused
  <2> QED BY <2>1, <2>2 DEF IInv, Records
<1> QED BY <1>1, <1>2, <1>3, <1>4, <1>5 DEF Next

(* Whatever the settings of records are, whatever is asked, and however    *)
(* often: multiplex, redis and numeric never answer from settings that are *)
(* bad, at the first reference or later (multiplex.py:152, redis.py:120,   *)
(* numeric.py:79).                                                         *)
THEOREM VariationsHalfRead == Spec => []HalfReadIsUnused
<1>1. IInv => HalfReadIsUnused
  <2> SUFFICES ASSUME IInv, NEW i \in 1..Len(ended.done) PROVE Unused(ended.done[i])
    BY DEF HalfReadIsUnused, Unused, Never
  <2>1. PICK S : ended.done \in Seq(S) /\ \A o \in S : Unused(o) BY DEF IInv, AllUnused
  <2>2. ended.done[i] \in S BY <2>1
  <2> QED BY <2>1, <2>2
<1> QED BY <1>1, InitInv, NextInv, PTL DEF Spec

(* Cumulative counters without wrap do not fall, for any function with     *)
(* whole values, any scale, offset, rate and deviation, and any times      *)
(* (numeric.py:118-183).                                                   *)
THEOREM VariationsCounters == Spec => CumulativeNeverFalls
<1> DEFINE Falls(r) == /\ sim.records[r].module = "numeric" /\ sim.records[r].wrap = "absent"
                       /\ record[r].value # NoVal /\ record'[r].value # NoVal
                       /\ ~(record'[r].value >= record[r].value)
<1>1. IInv /\ [Next]_vars => [\A r \in Records : ~Falls(r)]_vars
  <2> SUFFICES ASSUME IInv, [Next]_vars, NEW r \in Records, Falls(r) PROVE vars' = vars
    OBVIOUS
  <2>1. record[r].value \in Int BY DEF IInv, Told
  <2>2. record'[r] # record[r] BY <2>1
  <2>3. CASE Variate
    <3>1. PICK q \in Records : \E c \in Calls(sim.records[q]) :
              Answered(q, variate(sim.records[q], record[q], store, c))
      BY <2>3 DEF Variate
    <3>2. PICK c \in Calls(sim.records[q]) :
              Answered(q, variate(sim.records[q], record[q], store, c))
      BY <3>1
    <3> DEFINE out == variate(sim.records[q], record[q], store, c)
    <3>3. record' = [record EXCEPT ![q] = out.x] BY <3>2 DEF Answered
    <3>4. q = r /\ record'[r] = out.x
      <4> HIDE DEF out
      <4> QED BY <2>2, <3>3 DEF IInv
    <3> QED BY <3>4, Called
  <2>4. CASE Restart
    <3>1. record'[r].value = NoVal BY <2>4 DEF Restart, Fresh, NewRecord, Records
    <3> QED BY <3>1
  <2>5. CASE Receive \/ Tick BY <2>2, <2>5 DEF Receive, Tick
  <2>6. CASE UNCHANGED vars BY <2>6
  <2> QED BY <2>3, <2>4, <2>5, <2>6 DEF Next
<1>2. [\A r \in Records : ~Falls(r)]_vars =>
        [\A r \in Records : (/\ sim.records[r].module = "numeric" /\ sim.records[r].wrap = "absent"
                             /\ record[r].value # NoVal /\ record'[r].value # NoVal)
                               => record'[r].value >= record[r].value]_vars
  OBVIOUS
<1> QED BY <1>1, <1>2, InitInv, NextInv, PTL DEF Spec, CumulativeNeverFalls

---------------------------------------------------------------------------
(***************************************************************************)
(* The bisection of multiplex.  It is a recursive function, that is, a     *)
(* choice of one that fits the equation: PlacesExist builds one, for       *)
(* longer and longer intervals, up to the least that there were none for.  *)
(***************************************************************************)
LEMMA LeastNat ==
    ASSUME NEW T \in SUBSET Nat, T # {}
    PROVE  \E m \in T : \A n \in T : m <= n
<1>1. PICK m \in T : \A n \in T : <<n, m>> \notin OpToRel(<, Nat)
  BY WFMin, NatLessThanWellFounded, Zenon
<1>2. \A n \in T : ~(n < m) BY <1>1 DEF OpToRel
<1> QED BY <1>2

Halfway(lo, hi) == (lo + hi) \div 2

Intervals(n) == (0..n) \X (0..n)

\* Where bisect goes for v from the interval i, f being where it ends.
Bisected(f, keys, v, i) ==
    IF i[1] >= i[2] THEN i[1]
    ELSE IF v < keys[Halfway(i[1], i[2]) + 1] THEN f[<<i[1], Halfway(i[1], i[2])>>]
    ELSE f[<<Halfway(i[1], i[2]) + 1, i[2]>>]

\* f is that for the intervals of up to m keys.
Places(f, keys, v, m) ==
    f = [i \in Intervals(Len(keys)) |-> IF i[2] - i[1] > m THEN 0 ELSE Bisected(f, keys, v, i)]

LEMMA Halves ==
    ASSUME NEW n \in Nat, NEW lo \in 0..n, NEW hi \in 0..n, lo < hi
    PROVE  /\ Halfway(lo, hi) \in 0..n /\ Halfway(lo, hi) + 1 \in 0..n
           /\ lo <= Halfway(lo, hi) /\ Halfway(lo, hi) < hi
BY DEF Halfway

LEMMA PlacesExist ==
    ASSUME NEW keys, Len(keys) \in Nat, NEW v, NEW n \in Nat
    PROVE  \E f : Places(f, keys, v, n)
<1> DEFINE Bad == {m \in Nat : ~\E f : Places(f, keys, v, m)}
           I == Intervals(Len(keys))
<1> SUFFICES ASSUME Bad # {} PROVE FALSE
    OBVIOUS
<1>1. PICK m \in Bad : \A k \in Bad : m <= k
  <2> HIDE DEF Bad
  <2>1. Bad \in SUBSET Nat BY DEF Bad
  <2> QED BY <2>1, LeastNat
<1>2. \A i \in I : i[1] \in 0..Len(keys) /\ i[2] \in 0..Len(keys) BY DEF Intervals
<1>3. CASE m = 0
  <2> DEFINE f == [i \in I |-> IF i[2] - i[1] > 0 THEN 0 ELSE i[1]]
  <2>1. f = [i \in I |-> IF i[2] - i[1] > 0 THEN 0 ELSE Bisected(f, keys, v, i)]
    <3>1. \A i \in I : ~(i[2] - i[1] > 0) => i[1] = Bisected(f, keys, v, i)
      <4> HIDE DEF f
      <4> QED BY <1>2 DEF Bisected
    <3> HIDE DEF f
    <3>2. \A i \in I : f[i] = IF i[2] - i[1] > 0 THEN 0 ELSE Bisected(f, keys, v, i)
      BY <3>1 DEF f
    <3>3. f = [i \in I |-> f[i]] BY DEF f
    <3> QED BY <3>2, <3>3
  <2>2. Places(f, keys, v, 0) BY <2>1 DEF Places
  <2> QED BY <1>3, <2>2
<1>4. CASE m # 0
  <2>1. m - 1 \in Nat /\ m - 1 \notin Bad BY <1>1, <1>4
  <2>2. PICK g : Places(g, keys, v, m - 1) BY <2>1
  <2> DEFINE f == [i \in I |-> IF i[2] - i[1] > m THEN 0 ELSE Bisected(g, keys, v, i)]
  <2>3. \A i \in I : g[i] = IF i[2] - i[1] > m - 1 THEN 0 ELSE Bisected(g, keys, v, i)
    <3> DEFINE B(i) == IF i[2] - i[1] > m - 1 THEN 0 ELSE Bisected(g, keys, v, i)
    <3>1. g = [i \in I |-> B(i)] BY <2>2 DEF Places
    <3> HIDE DEF B
    <3>2. \A i \in I : g[i] = B(i) BY <3>1
    <3> QED BY <3>2 DEF B
  <2>4. \A i \in I : f[i] = IF i[2] - i[1] > m THEN 0 ELSE Bisected(g, keys, v, i)
    OBVIOUS
  <2>5. f = [i \in I |-> f[i]] OBVIOUS
  <2> HIDE DEF f
  <2>6. \A i \in I : i[2] - i[1] <= m - 1 => f[i] = g[i] BY <1>2, <2>3, <2>4
  <2>7. ASSUME NEW i \in I, i[2] - i[1] <= m
        PROVE  Bisected(g, keys, v, i) = Bisected(f, keys, v, i)
    <3>1. CASE i[1] >= i[2] BY <3>1 DEF Bisected
    <3>2. CASE ~(i[1] >= i[2])
      <4> DEFINE lo == i[1]
                 hi == i[2]
                 mid == Halfway(lo, hi)
      <4>1. lo \in 0..Len(keys) /\ hi \in 0..Len(keys) /\ lo < hi BY <1>2, <3>2
      <4>2. /\ mid \in 0..Len(keys) /\ mid + 1 \in 0..Len(keys) /\ lo <= mid /\ mid < hi
        <5> HIDE DEF lo, hi
        <5> QED BY <4>1, Halves
      <4> HIDE DEF mid
      <4>3. <<lo, mid>> \in I /\ <<mid + 1, hi>> \in I BY <4>1, <4>2 DEF Intervals
      <4>4. f[<<lo, mid>>] = g[<<lo, mid>>]
        <5>1. mid - lo <= m - 1 BY <2>7, <4>1, <4>2
        <5> QED BY <2>6, <4>3, <5>1
      <4>5. f[<<mid + 1, hi>>] = g[<<mid + 1, hi>>]
        <5>1. hi - (mid + 1) <= m - 1 BY <2>7, <4>1, <4>2
        <5> QED BY <2>6, <4>3, <5>1
      <4> QED BY <3>2, <4>4, <4>5 DEF Bisected, mid
    <3> QED BY <3>1, <3>2
  <2>8. Places(f, keys, v, m)
    <3>1. \A i \in I : f[i] = IF i[2] - i[1] > m THEN 0 ELSE Bisected(f, keys, v, i)
      <4> TAKE i \in I
      <4>1. i[2] - i[1] <= m \/ i[2] - i[1] > m BY <1>2
      <4> QED BY <2>4, <2>7, <4>1
    <3>2. f = [i \in I |-> IF i[2] - i[1] > m THEN 0 ELSE Bisected(f, keys, v, i)]
      BY <2>5, <3>1
    <3> QED BY <3>2 DEF Places
  <2> QED BY <1>1, <2>8
<1> QED BY <1>3, <1>4

LEMMA BisectIs ==
    ASSUME NEW keys, Len(keys) \in Nat, NEW v
    PROVE  \E f : /\ Bisect(keys, v) = f[<<0, Len(keys)>>]
                  /\ \A i \in Intervals(Len(keys)) : f[i] = Bisected(f, keys, v, i)
<1> DEFINE I == Intervals(Len(keys))
           Eq(f) == f = [i \in I |-> Bisected(f, keys, v, i)]
           F == CHOOSE f : Eq(f)
<1>1. \E f : Eq(f)
  <2>1. PICK f : Places(f, keys, v, Len(keys)) BY PlacesExist
  <2>2. \A i \in I : ~(i[2] - i[1] > Len(keys)) BY DEF Intervals
  <2>3. f = [i \in I |-> IF i[2] - i[1] > Len(keys) THEN 0 ELSE Bisected(f, keys, v, i)]
    BY <2>1 DEF Places
  <2>4. f = [i \in I |-> Bisected(f, keys, v, i)] BY <2>2, <2>3
  <2> QED BY <2>4
<1>2. Eq(F)
  <2> HIDE DEF Eq
  <2> QED BY <1>1
<1>3. Bisect(keys, v) = F[<<0, Len(keys)>>]
  BY DEF Bisect, Bisected, Halfway, Intervals
<1> HIDE DEF F
<1>4. \A i \in I : F[i] = Bisected(F, keys, v, i)
  <2> DEFINE B(i) == Bisected(F, keys, v, i)
  <2>1. F = [i \in I |-> B(i)] BY <1>2
  <2> HIDE DEF B
  <2>2. \A i \in I : F[i] = B(i) BY <2>1
  <2> QED BY <2>2 DEF B
<1> QED BY <1>3, <1>4

\* bisect stays in the interval, and ends behind the first key when that is not
\* greater than what it looks for.
LEMMA BisectBounds ==
    ASSUME NEW keys, Len(keys) \in Nat \ {0}, NEW v, ~(v < keys[1])
    PROVE  Bisect(keys, v) \in 1..Len(keys)
<1> DEFINE L == Len(keys)
<1>1. PICK f : /\ Bisect(keys, v) = f[<<0, L>>]
               /\ \A i \in Intervals(L) : f[i] = Bisected(f, keys, v, i)
  BY BisectIs
<1> DEFINE Good(lo, hi) == f[<<lo, hi>>] \in lo..hi /\ f[<<lo, hi>>] > 0
           Bad == {m \in Nat : \E lo, hi \in 0..L : hi > 0 /\ hi - lo = m /\ ~Good(lo, hi)}
<1>2. Bad = {}
  <2> SUFFICES ASSUME Bad # {} PROVE FALSE
    <3> HIDE DEF Bad
    <3> QED OBVIOUS
  <2>1. PICK m \in Bad : \A k \in Bad : m <= k
    <3>1. Bad \in SUBSET Nat OBVIOUS
    <3> HIDE DEF Bad
    <3> QED BY <3>1, LeastNat
  <2>2. PICK lo \in 0..L, hi \in 0..L : hi > 0 /\ hi - lo = m /\ ~Good(lo, hi)
    BY <2>1
  <2>3. \A a, b \in 0..L : a <= b /\ b > 0 /\ b - a < m => Good(a, b)
    <3> TAKE a \in 0..L, b \in 0..L
    <3> HAVE a <= b /\ b > 0 /\ b - a < m
    <3>0. m \in Nat BY <2>1
    <3>1. b - a \in Nat /\ ~(m <= b - a)
      <4> HIDE DEF Bad, Good
      <4> QED BY <3>0
    <3>2. b - a \notin Bad BY <2>1, <3>1
    <3> QED BY <3>1, <3>2
  <2>4. <<lo, hi>> \in Intervals(L) /\ lo <= hi BY <2>1, <2>2 DEF Intervals
  <2>5. f[<<lo, hi>>] = Bisected(f, keys, v, <<lo, hi>>) BY <1>1, <2>4
  <2> DEFINE mid == Halfway(lo, hi)
  <2>6. f[<<lo, hi>>] = IF lo >= hi THEN lo
                        ELSE IF v < keys[mid + 1] THEN f[<<lo, mid>>] ELSE f[<<mid + 1, hi>>]
    BY <2>5 DEF Bisected
  <2>7. CASE lo >= hi BY <2>2, <2>4, <2>6, <2>7
  <2>8. CASE lo < hi
    <3>1. mid \in 0..L /\ mid + 1 \in 0..L /\ lo <= mid /\ mid < hi BY <2>8, Halves
    <3> HIDE DEF mid
    <3>2. CASE v < keys[mid + 1]
      <4>1. mid > 0 BY <3>1, <3>2
      <4>2. Good(lo, mid) BY <2>2, <2>3, <3>1, <4>1
      <4>3. f[<<lo, hi>>] = f[<<lo, mid>>] BY <2>6, <2>8, <3>2
      <4> QED BY <2>2, <3>1, <4>2, <4>3
    <3>3. CASE ~(v < keys[mid + 1])
      <4>1. Good(mid + 1, hi) BY <2>2, <2>3, <2>8, <3>1
      <4>2. f[<<lo, hi>>] = f[<<mid + 1, hi>>] BY <2>6, <2>8, <3>3
      <4> QED BY <2>2, <3>1, <4>1, <4>2
    <3> QED BY <3>2, <3>3
  <2> QED BY <2>2, <2>4, <2>7, <2>8
<1>3. \A lo, hi \in 0..L : hi > 0 /\ lo <= hi => Good(lo, hi)
  <2> TAKE lo \in 0..L, hi \in 0..L
  <2>0. SUFFICES ASSUME hi > 0, lo <= hi PROVE Good(lo, hi)
    OBVIOUS
  <2>1. hi - lo \in Nat BY <2>0
  <2>2. hi - lo \notin Bad
    <3> HIDE DEF Bad
    <3> QED BY <1>2
  <2> HIDE DEF Good
  <2> QED BY <2>0, <2>1, <2>2
<1>4. Good(0, L)
  <2> HIDE DEF Good
  <2> QED BY <1>3
<1> QED BY <1>1, <1>4

\* A multiplex record that goes by time, once through snapshots listed in order.
Timed(g) == /\ g.module = "multiplex" /\ ~g.control /\ g.wrap = "absent" /\ Ascending(g.keys)

LEMMA Remainder ==
    ASSUME NEW n \in Nat, NEW a \in 0..(n - 1)
    PROVE  a % n = a
OBVIOUS

LEMMA DueInRange ==
    ASSUME NEW g, g.keys \in Seq(Nat), g.keys # <<>>, g.period \in Nat \ {0},
           Ascending(g.keys), NEW now0 \in Int
    PROVE  Due(g, now0) \in 0..(Len(g.keys) - 1)
<1> DEFINE n == Len(g.keys)
           S == {g.keys[i] : i \in 1..n}
           slot == (now0 % (g.period * n)) \div g.period
<1>1. n \in Nat \ {0} /\ \A i \in 1..n : g.keys[i] \in Nat OBVIOUS
<1>2. g.keys[1] \in S /\ \A k \in S : g.keys[1] <= k
  BY <1>1 DEF Ascending
<1>3. Least(S) = g.keys[1]
  <2>1. S \subseteq Nat BY <1>1
  <2> HIDE DEF S
  <2>2. Least(S) \in S /\ \A k \in S : Least(S) <= k BY <1>2 DEF Least
  <2> DEFINE a == g.keys[1]
             l == Least(S)
  <2>3. a \in S /\ l \in S /\ a <= l /\ l <= a BY <1>2, <2>2
  <2> HIDE DEF a, l
  <2>4. a = l BY <2>1, <2>3
  <2> QED BY <2>4 DEF a, l
<1>4. slot \in Nat
  <2> DEFINE whole == g.period * n
  <2>1. whole \in Nat /\ whole > 0 BY <1>1
  <2> HIDE DEF whole
  <2>2. now0 % whole \in Nat BY <2>1
  <2>3. (now0 % whole) \div g.period \in Nat
    <3> DEFINE k == now0 % whole
    <3>1. k \in Nat BY <2>2
    <3> HIDE DEF k
    <3>2. k \div g.period \in Nat BY <3>1
    <3> QED BY <3>2 DEF k
  <2> QED BY <2>3 DEF whole
<1> HIDE DEF slot, S
<1>5. g.keys[1] \in Nat BY <1>1
<1>6. ~(slot + Least(S) < g.keys[1]) BY <1>3, <1>4, <1>5
<1>7. Bisect(g.keys, slot + Least(S)) \in 1..n BY <1>1, <1>6, BisectBounds
<1>8. Due(g, now0) = Bisect(g.keys, slot + Least(S)) - 1 BY DEF Due, slot, S
<1> QED BY <1>1, <1>7, <1>8

---------------------------------------------------------------------------
\* What handlers make of the store, as far as it matters here.
Same(s, u) == DOMAIN u = DOMAIN s /\ u.fileno = s.fileno

LEMMA StoresOf ==
    ASSUME NEW x, NEW s, NEW oid, NEW v
    PROVE  /\ Silent(x, s).s = s /\ Broken(x, s).s = s /\ Refuse(x, s).s = s /\ Drop(x, s).s = s
           /\ Silent(x, s).ctl # "value" /\ Broken(x, s).ctl # "value"
           /\ Refuse(x, s).ctl # "value" /\ Drop(x, s).ctl # "value"
           /\ Value(x, s, oid, v).s = s /\ Value(x, s, oid, v).ctl = "value"
           /\ Value(x, s, oid, v).value = v
BY DEF Silent, Broken, Refuse, Drop, Without, Value

\* Where a multiplex record stands, when it goes by time.
Stands(g, at, latest) ==
    \/ at = Unset /\ latest = 0
    \/ at \in 0..(Len(g.keys) - 1) /\ latest <= g.keys[at + 1]

LEMMA MultiplexSteps ==
    ASSUME NEW t \in Simulations, NEW r \in DOMAIN t.records, NEW g, g = t.records[r],
           g.module = "multiplex", NEW x, NEW s, NEW c, c.now \in Int,
           "fileno" \in DOMAIN s, DOMAIN s.fileno = OIDs
    PROVE  LET out == variate(g, x, s, c)
           IN  /\ DOMAIN out.s = DOMAIN s /\ DOMAIN out.s.fileno = OIDs
               /\ \A o \in OIDs \ {g.at} : out.s.fileno[o] = s.fileno[o]
               /\ \A latest \in Nat : Timed(g) /\ Stands(g, s.fileno[g.at], latest) =>
                     /\ Stands(g, out.s.fileno[g.at], latest)
                     /\ out.ctl = "value" =>
                           /\ out.value \in Nat /\ latest <= out.value
                           /\ Stands(g, out.s.fileno[g.at], out.value)
<1> DEFINE out == variate(g, x, s, c)
           y == Parsed(g, x)
           due == Due(g, c.now)
           held == [s EXCEPT !.fileno[g.at] = IF @ = Unset THEN 0 ELSE @]
           switched == Switched(g, s, due)
           n == Len(g.keys)
           at == s.fileno[g.at]
<1>1. /\ g.at \in OIDs /\ g.control \in BOOLEAN /\ g.wrap \in Written
      /\ g.keys \in Seq(Nat) /\ g.keys # <<>> /\ g.period \in Nat \ {0}
  BY SettingsAssumption
<1>2. out = MultiplexVariate(g, x, s, c) BY DEF variate
<1>3. \/ out \in {Broken(y, s), Silent(y, s)}
      \/ ~g.control /\ out = Replay(g, y, switched, c)
      \/ g.control /\ out = Value(y, held, c.oid, held.fileno[g.at])
      \/ g.control /\ out = Replay(g, y, held, c)
  <2> HIDE DEF out, switched, held, y, due
  <2>1. MultiplexVariate(g, x, s, c) =
          IF Raises(g, x) THEN Broken(y, s)
          ELSE IF y.settings = "half" THEN Silent(y, s)
          ELSE IF c.set THEN Broken(y, s)
          ELSE IF ~g.control THEN Replay(g, y, switched, c)
          ELSE IF ~c.next /\ c.oid = g.at THEN Value(y, held, c.oid, held.fileno[g.at])
          ELSE Replay(g, y, held, c)
    BY DEF MultiplexVariate, switched, held, y, due
  <2> QED BY <1>1, <1>2, <2>1
\* Replay chooses no snapshot, it opens the one that is chosen.
<1>4. ASSUME NEW u, "fileno" \in DOMAIN u
      PROVE  LET p == Replay(g, y, u, c)
             IN  /\ Same(u, p.s)
                 /\ p.ctl = "value" => p.value = g.keys[(u.fileno[g.at] % n) + 1]
  <2> DEFINE p == Replay(g, y, u, c)
             number == g.keys[(u.fileno[g.at] % n) + 1]
             opened == [u EXCEPT !.open[g.at] = <<g.dir, number>>]
  <2>1. Same(u, opened) /\ Same(u, u) BY <1>4 DEF Same
  <2>2. \/ p = Broken(y, u) /\ u.fileno[g.at] >= n
        \/ ~(u.fileno[g.at] >= n) /\ (p = Silent(y, opened) \/ \E o : p = Value(y, opened, o, number))
    <3> HIDE DEF p, opened, number, y
    <3>1. p = IF u.fileno[g.at] >= n THEN Broken(y, u)
              ELSE IF c.next
                   THEN IF {o \in g.files[number] : o > c.oid} = {} THEN Silent(y, opened)
                        ELSE Value(y, opened, Least({o \in g.files[number] : o > c.oid}), number)
              ELSE IF c.oid \in g.files[number] THEN Value(y, opened, c.oid, number)
              ELSE Silent(y, opened)
      BY DEF Replay, p, opened, number
    <3> QED BY <3>1
  <2> HIDE DEF p, opened, number, y
  <2>3. CASE p = Broken(y, u)
    <3>1. p.s = u /\ p.ctl # "value" BY <2>3, StoresOf
    <3> QED BY <2>1, <3>1 DEF p
  <2>4. CASE p = Silent(y, opened)
    <3>1. p.s = opened /\ p.ctl # "value" BY <2>4, StoresOf
    <3> QED BY <2>1, <3>1 DEF p
  <2>5. CASE ~(u.fileno[g.at] >= n) /\ \E o : p = Value(y, opened, o, number)
    <3>1. p.s = opened /\ p.value = number BY <2>5, StoresOf
    <3> QED BY <2>1, <2>5, <3>1 DEF p, number
  <2> QED BY <2>2, <2>3, <2>4, <2>5 DEF p
\* What is chosen is chosen for the OID of the record.
<1>5. \A u \in {s, held, switched} :
         /\ "fileno" \in DOMAIN u /\ DOMAIN u = DOMAIN s /\ DOMAIN u.fileno = OIDs
         /\ \A o \in OIDs \ {g.at} : u.fileno[o] = s.fileno[o]
  <2>1. /\ DOMAIN held = DOMAIN s /\ DOMAIN held.fileno = OIDs
        /\ \A o \in OIDs \ {g.at} : held.fileno[o] = s.fileno[o]
    BY <1>1
  <2>2. /\ DOMAIN switched = DOMAIN s /\ DOMAIN switched.fileno = OIDs
        /\ \A o \in OIDs \ {g.at} : switched.fileno[o] = s.fileno[o]
    BY <1>1 DEF Switched
  <2> HIDE DEF held, switched
  <2> QED BY <2>1, <2>2
<1>6. \E u \in {s, held, switched} : Same(u, out.s)
  <2> HIDE DEF out, held, switched, y
  <2>1. CASE out \in {Broken(y, s), Silent(y, s)} BY <2>1, StoresOf DEF Same
  <2>2. CASE out = Replay(g, y, switched, c) BY <1>4, <1>5, <2>2
  <2>3. CASE out = Value(y, held, c.oid, held.fileno[g.at]) BY <2>3, StoresOf DEF Same
  <2>4. CASE out = Replay(g, y, held, c) BY <1>4, <1>5, <2>4
  <2> QED BY <1>3, <2>1, <2>2, <2>3, <2>4
<1>7. /\ DOMAIN out.s = DOMAIN s /\ DOMAIN out.s.fileno = OIDs
      /\ \A o \in OIDs \ {g.at} : out.s.fileno[o] = s.fileno[o]
  <2> HIDE DEF out, held, switched
  <2> QED BY <1>5, <1>6 DEF Same
<1>8. ASSUME NEW latest \in Nat, Timed(g), Stands(g, at, latest)
      PROVE  /\ Stands(g, out.s.fileno[g.at], latest)
             /\ out.ctl = "value" =>
                   /\ out.value \in Nat /\ latest <= out.value
                   /\ Stands(g, out.s.fileno[g.at], out.value)
  <2>0. due \in 0..(n - 1) BY <1>1, <1>8, DueInRange DEF Timed
  <2> HIDE DEF due
  <2>1. due \in 0..(n - 1) /\ n \in Nat /\ \A i \in 1..n : g.keys[i] \in Nat
    BY <1>1, <2>0
  <2> HIDE DEF due
  <2>2. switched.fileno[g.at] = IF at = Unset \/ at < due THEN due ELSE at
    BY <1>1, <1>8 DEF Switched, Timed, Given
  <2> DEFINE now_at == switched.fileno[g.at]
  <2>3. now_at \in 0..(n - 1) /\ (at # Unset => at \in 0..(n - 1) /\ at <= now_at)
    BY <2>1, <2>2, <1>8 DEF Stands, Unset
  <2>4. latest <= g.keys[now_at + 1]
    <3>1. CASE at = Unset BY <1>8, <2>1, <2>3, <3>1 DEF Stands, Unset
    <3>2. CASE at # Unset
      <4>1. latest <= g.keys[at + 1] /\ at \in 0..(n - 1) BY <1>8, <3>2 DEF Stands
      <4>2. g.keys[at + 1] <= g.keys[now_at + 1]
        <5> DEFINE i == at + 1
                   j == now_at + 1
        <5>1. i \in 1..n /\ j \in 1..n /\ i <= j
          <6> HIDE DEF n, at, now_at
          <6> QED BY <2>1, <2>3, <3>2
        <5> HIDE DEF i, j
        <5>0. \A k, l \in 1..n : k < l => g.keys[k] < g.keys[l]
          BY <1>8 DEF Timed, Ascending
        <5>3. g.keys[i] \in Nat /\ g.keys[j] \in Nat BY <2>1, <5>1
        <5>2. g.keys[i] <= g.keys[j]
          <6> HIDE DEF n
          <6>1. CASE i = j BY <5>3, <6>1
          <6>2. CASE i < j BY <5>0, <5>1, <5>3, <6>2
          <6> QED BY <2>1, <5>1, <6>1, <6>2
        <5> QED BY <5>2 DEF i, j
      <4>3. g.keys[at + 1] \in Nat /\ g.keys[now_at + 1] \in Nat
        <5> HIDE DEF n, at, now_at
        <5>1. at + 1 \in 1..n /\ now_at + 1 \in 1..n BY <2>1, <2>3, <3>2
        <5> QED BY <2>1, <5>1
      <4> QED BY <4>1, <4>2, <4>3
    <3> QED BY <3>1, <3>2
  <2> HIDE DEF switched, held, out, y
  <2>5. CASE out \in {Broken(y, s), Silent(y, s)}
    <3>1. out.s = s /\ out.ctl # "value" BY <2>5, StoresOf, Outcomes
    <3> QED BY <1>8, <3>1
  <2>6. CASE out = Replay(g, y, switched, c)
    <3>1. Same(switched, out.s) /\ (out.ctl = "value" => out.value = g.keys[(now_at % n) + 1])
      BY <1>4, <1>5, <2>6
    <3>2. now_at % n = now_at
      <4> HIDE DEF n, now_at
      <4> QED BY <2>1, <2>3, Remainder
    <3>3. out.s.fileno[g.at] = now_at BY <3>1 DEF Same
    <3>4. g.keys[now_at + 1] \in Nat BY <2>1, <2>3
    <3> DEFINE f == out.s.fileno[g.at]
    <3>5. now_at \in 0..(n - 1) BY <2>3
    <3>6. out.ctl = "value" => out.value = g.keys[now_at + 1] BY <3>1, <3>2
    <3>7. f = now_at BY <3>3
    <3> HIDE DEF now_at, f
    <3>8. Stands(g, f, latest) BY <2>4, <3>5, <3>7 DEF Stands
    <3>9. Stands(g, f, g.keys[now_at + 1])
      <4>1. g.keys[now_at + 1] <= g.keys[now_at + 1] BY <3>4
      <4> QED BY <3>5, <3>7, <4>1 DEF Stands
    <3>10. out.ctl = "value" =>
             /\ out.value \in Nat /\ latest <= out.value
             /\ Stands(g, f, out.value)
      BY <2>4, <3>4, <3>6, <3>9
    <3> QED BY <3>8, <3>10 DEF f
  <2> QED BY <1>3, <1>8, <2>5, <2>6 DEF Timed
<1> QED BY <1>7, <1>8

\* The other modules leave the snapshots alone.
LEMMA StoreKept ==
    ASSUME NEW t \in Simulations, NEW r \in DOMAIN t.records, NEW g, g = t.records[r],
           g.module # "multiplex", NEW x, NEW s, NEW c, "fileno" \in DOMAIN s
    PROVE  Same(s, variate(g, x, s, c).s)
<1> DEFINE out == variate(g, x, s, c)
<1>0. \A z, u, oid, v : \A o \in {Silent(z, u), Broken(z, u), Refuse(z, u), Drop(z, u), Value(z, u, oid, v)} :
         o.s = u
  BY StoresOf
<1>00. Same(s, s) BY DEF Same
<1>2. CASE g.module = "redis"
  <2>1. ASSUME NEW y, NEW ks PROVE Same(s, RedisSet(y, s, ks, c).s)
    <3> DEFINE set == [s EXCEPT !.stored[<<ks, c.oid>>] = c.val]
               put(idx) == [set EXCEPT !.order[ks] = InsertedBehind(@, idx, <<0, c.oid>>)]
               idx0 == getNextOid(s.order[ks], <<1, c.oid>>)
               made == RedisSet(y, s, ks, c)
    <3>1. Same(s, set) /\ \A idx : Same(s, put(idx)) BY DEF Same
    <3>2. made \in {Refuse(y, s), Broken(y, s), Value(y, set, c.oid, c.val), Value(y, put(idx0), c.oid, c.val)}
      BY DEF RedisSet
    <3>3. made.s \in {s, set, put(idx0)}
      <4> HIDE DEF set, put, idx0, made
      <4> QED BY <1>0, <3>2
    <3> HIDE DEF set, put, idx0
    <3> QED BY <1>00, <3>1, <3>3
  <2>2. ASSUME NEW y, NEW ks PROVE Same(s, RedisGetNext(y, s, ks, c).s)
    <3> DEFINE made == RedisGetNext(y, s, ks, c)
    <3>1. made \in {Broken(y, s), Silent(y, s)} \/ \E o, v : made = Value(y, s, o, v)
      <4> HIDE DEF made
      <4> QED BY DEF RedisGetNext, made
    <3> HIDE DEF made
    <3>2. made.s = s BY <1>0, <3>1
    <3> QED BY <1>00, <3>2 DEF made
  <2>3. out = RedisVariate(g, x, s, c) BY <1>2 DEF variate
  <2>4. \E y, ks, v : out \in {Broken(x, s), Broken(y, s), Silent(y, s), RedisSet(y, s, ks, c),
                              RedisGetNext(y, s, ks, c), Value(y, s, c.oid, v)}
    <3> HIDE DEF out
    <3> QED BY <2>3 DEF RedisVariate
  <2> HIDE DEF out
  <2>5. Same(s, out.s) BY <1>0, <1>00, <2>1, <2>2, <2>4
  <2> QED BY <2>5 DEF out
<1>3. CASE g.module = "sql"
  <2>1. Same(s, SqlSet(x, s, c).s)
    <3> DEFINE written == [s EXCEPT !.db[c.oid] = [value |-> c.val, write |-> TRUE]]
               made == SqlSet(x, s, c)
    <3>1. Same(s, Committed(written, c)) BY DEF Same, Committed
    <3>2. made \in {Silent(x, s), Value(x, Committed(written, c), c.oid, c.val)} BY DEF SqlSet
    <3>3. made.s \in {s, Committed(written, c)}
      <4> HIDE DEF written, made
      <4> QED BY <1>0, <3>2
    <3> HIDE DEF written
    <3> QED BY <1>00, <3>1, <3>3
  <2>2. out = SqlVariate(g, x, s, c) BY <1>3 DEF variate
  <2> QED BY <1>0, <1>00, <2>1, <2>2 DEF SqlVariate
<1>4. CASE g.module = "numeric"
  <2>1. out = NumericVariate(g, x, s, c) BY <1>4 DEF variate
  <2>2. \E y, z, v : out \in {Silent(x, s), Broken(y, s), Value(z, s, g.at, v)}
    <3> HIDE DEF out
    <3> QED BY <2>1 DEF NumericVariate
  <2> QED BY <1>0, <1>00, <2>2
<1>5. CASE g.module = "delay"
  <2>0. ASSUME NEW y, NEW v, NEW d PROVE [Value(y, s, g.at, v) EXCEPT !.slept = d].s = s
    BY DEF Value
  <2>1. out = DelayVariate(g, x, s, c) BY <1>5 DEF variate
  <2> QED BY <1>0, <1>00, <2>0, <2>1 DEF DelayVariate
<1>6. CASE g.module = "error"
  <2>1. out = ErrorVariate(g, x, s, c) BY <1>6 DEF variate
  <2> QED BY <1>0, <1>00, <2>1 DEF ErrorVariate
<1>7. CASE g.module = "notification"
  <2>1. ASSUME NEW y, NEW v
        PROVE  Same(s, [Value(y, s, g.at, v) EXCEPT !.s.sent = IF @ < 2 THEN @ + 1 ELSE @].s)
    BY DEF Value, Same
  <2>2. out = NotificationVariate(g, x, s, c) BY <1>7 DEF variate
  <2>3. \E y, v : \/ out \in {Broken(x, s), Silent(x, s), Broken(y, s), Silent(y, s), Value(y, s, g.at, v)}
                  \/ out = [Value(y, s, g.at, v) EXCEPT !.s.sent = IF @ < 2 THEN @ + 1 ELSE @]
    <3> DEFINE y == Parsed(g, x)
               v == IF c.set \/ g.value = NoVal THEN c.val ELSE g.value
               sent(w) == [Value(y, s, g.at, w) EXCEPT !.s.sent = IF @ < 2 THEN @ + 1 ELSE @]
    <3>1. out \in {Broken(x, s), Silent(x, s), Broken(y, s), Silent(y, s), Value(y, s, g.at, v),
                   Value(y, s, g.at, c.val), sent(v)}
      <4> HIDE DEF out
      <4> QED BY <2>2 DEF NotificationVariate
    <3> HIDE DEF out, y, v
    <3> QED BY <3>1
  <2> HIDE DEF out
  <2>4. Same(s, out.s)
    <3>1. PICK y, v : \/ out \in {Broken(x, s), Silent(x, s), Broken(y, s), Silent(y, s), Value(y, s, g.at, v)}
                      \/ out = [Value(y, s, g.at, v) EXCEPT !.s.sent = IF @ < 2 THEN @ + 1 ELSE @]
      BY <2>3
    <3>2. CASE out = [Value(y, s, g.at, v) EXCEPT !.s.sent = IF @ < 2 THEN @ + 1 ELSE @]
      BY <2>1, <3>2
    <3>3. CASE out \in {Broken(x, s), Silent(x, s), Broken(y, s), Silent(y, s), Value(y, s, g.at, v)}
      BY <1>0, <1>00, <3>3
    <3> QED BY <3>1, <3>2, <3>3
  <2> QED BY <2>4 DEF out
<1>8. CASE g.module = "subprocess"
  <2>1. out = SubprocessVariate(g, x, s, c) BY <1>8 DEF variate
  <2> QED BY <1>0, <1>00, <2>1 DEF SubprocessVariate
<1> QED BY <1>2, <1>3, <1>4, <1>5, <1>6, <1>7, <1>8, Settings

\* A SET of sql that is the last of its request commits all of it.
LEMMA SqlCommits ==
    ASSUME NEW g, g.module = "sql", NEW x, NEW s, NEW c, c.set, c.last,
           "db" \in DOMAIN s, "committed" \in DOMAIN s,
           variate(g, x, s, c).ctl = "value"
    PROVE  variate(g, x, s, c).s.committed = variate(g, x, s, c).s.db
<1> DEFINE out == variate(g, x, s, c)
           written == [s EXCEPT !.db[c.oid] = [value |-> c.val, write |-> TRUE]]
           kept == [written EXCEPT !.committed = written.db]
<1>1. out = SqlVariate(g, x, s, c) BY DEF variate
<1>2. Committed(written, c) = kept BY DEF Committed
<1>3. out \in {Broken(x, s), Silent(x, s), Value(x, Committed(written, c), c.oid, c.val)}
  <2> HIDE DEF out
  <2> QED BY <1>1 DEF SqlVariate, SqlSet
<1>4. kept.committed = kept.db
  <2>1. "db" \in DOMAIN written /\ "committed" \in DOMAIN written OBVIOUS
  <2> HIDE DEF written
  <2> QED BY <2>1
<1>5. out.s = kept
  <2> HIDE DEF out, written, kept
  <2> QED BY <1>2, <1>3, StoresOf DEF out
<1> HIDE DEF kept
<1> QED BY <1>4, <1>5

---------------------------------------------------------------------------
\* Alone(r), LastServed and OfRecords, for any simulation.
AloneIn(t, r) == \A q \in DOMAIN t.records : q # r => t.records[q].at # t.records[r].at

\* A record whose snapshots cannot go back.
Forwards(t, r) == Timed(t.records[r]) /\ AloneIn(t, r)

\* The last value a record is served from in a sequence of outcomes is its newest.
LastServed(t, latest, outcomes) ==
    \A i \in 1..Len(outcomes) :
        (/\ Forwards(t, outcomes[i].rec) /\ outcomes[i].ctl = "value"
         /\ \A j \in 1..Len(outcomes) : j > i => outcomes[j].rec # outcomes[i].rec)
        => outcomes[i].value = latest[outcomes[i].rec]

OfRecords(t, outcomes) ==
    \E S : outcomes \in Seq(S) /\ \A o \in S : o.rec \in DOMAIN t.records

\* What the store is made of.
Shelved(s) == {"fileno", "db", "committed"} \subseteq DOMAIN s /\ DOMAIN s.fileno = OIDs

Snapshots ==
    /\ Shelved(store)
    /\ newest = [r \in Records |-> newest[r]]
    /\ request # NoRequest => ended = NotYet
    /\ \A r \in Records : Forwards(sim, r) =>
          newest[r] \in Nat /\ Stands(sim.records[r], store.fileno[sim.records[r].at], newest[r])
    /\ OfRecords(sim, done) /\ OfRecords(sim, ended.done)
    /\ LastServed(sim, newest, done) /\ LastServed(sim, newest, ended.done)
    /\ CommittedWhenAnswered

LEMMA NothingServed ==
    ASSUME NEW t, NEW latest
    PROVE  LastServed(t, latest, <<>>) /\ OfRecords(t, <<>>)
<1>1. \A i \in 1..Len(<<>>) : FALSE OBVIOUS
<1>2. LastServed(t, latest, <<>>) BY <1>1 DEF LastServed
<1>3. OfRecords(t, <<>>)
  <2> DEFINE S == {}
  <2>1. <<>> \in Seq(S) OBVIOUS
  <2>2. \A o \in S : o.rec \in DOMAIN t.records OBVIOUS
  <2> HIDE DEF S
  <2> QED BY <2>1, <2>2 DEF OfRecords
<1> QED BY <1>2, <1>3

\* One more outcome, and newest as it is with it.
Advances(t, latest, after, o) ==
    /\ o.rec \in DOMAIN t.records
    /\ \A q \in DOMAIN t.records : q # o.rec => after[q] = latest[q]
    /\ Forwards(t, o.rec) /\ o.ctl = "value" => o.value = after[o.rec]

LEMMA OneMoreServed ==
    ASSUME NEW t, NEW latest, NEW after, NEW outcomes, NEW o,
           OfRecords(t, outcomes), LastServed(t, latest, outcomes), Advances(t, latest, after, o)
    PROVE  /\ OfRecords(t, Append(outcomes, o)) /\ LastServed(t, after, Append(outcomes, o))
           /\ Len(Append(outcomes, o)) = Len(outcomes) + 1
           /\ Append(outcomes, o)[Len(Append(outcomes, o))] = o
<1> DEFINE more == Append(outcomes, o)
           n == Len(outcomes)
           r == o.rec
<1>0. /\ r \in DOMAIN t.records /\ \A q \in DOMAIN t.records : q # r => after[q] = latest[q]
      /\ Forwards(t, r) /\ o.ctl = "value" => o.value = after[r]
  BY DEF Advances
<1>1. PICK S : outcomes \in Seq(S) /\ \A q \in S : q.rec \in DOMAIN t.records BY DEF OfRecords
<1>2. /\ n \in Nat /\ Len(more) = n + 1 /\ more[n + 1] = o
      /\ \A i \in 1..n : more[i] = outcomes[i] /\ outcomes[i] \in S
  BY <1>1
<1>3. OfRecords(t, more)
  <2>1. outcomes \in Seq(S \cup {o}) BY <1>1
  <2>2. more \in Seq(S \cup {o}) BY <2>1
  <2>3. \A q \in S \cup {o} : q.rec \in DOMAIN t.records BY <1>0, <1>1
  <2> HIDE DEF more
  <2> QED BY <2>2, <2>3 DEF OfRecords
<1> HIDE DEF more
<1>4. ASSUME NEW i \in 1..(n + 1), Forwards(t, more[i].rec), more[i].ctl = "value",
             \A j \in 1..(n + 1) : j > i => more[j].rec # more[i].rec
      PROVE  more[i].value = after[more[i].rec]
  <2>1. CASE i = n + 1 BY <1>0, <1>2, <1>4, <2>1
  <2>2. CASE i # n + 1
    <3>1. i \in 1..n /\ n + 1 > i BY <1>2, <2>2
    <3> HIDE DEF n
    <3>2. more[i] = outcomes[i] /\ outcomes[i].rec \in DOMAIN t.records BY <1>1, <1>2, <3>1
    <3>3. more[i].rec # r
      <4>1. n + 1 \in 1..(n + 1) BY <1>2
      <4> QED BY <1>2, <1>4, <3>1, <4>1
    <3>4. \A j \in 1..n : j > i => outcomes[j].rec # outcomes[i].rec
      <4> TAKE j \in 1..n
      <4>1. j \in 1..(n + 1) BY <1>2
      <4> QED BY <1>2, <1>4, <3>2, <4>1
    <3>5. outcomes[i].value = latest[outcomes[i].rec]
      BY <1>4, <3>1, <3>2, <3>4 DEF LastServed, n
    <3> QED BY <1>0, <3>2, <3>3, <3>5
  <2> QED BY <2>1, <2>2
<1>5. LastServed(t, after, more)
  <2> HIDE DEF n
  <2> QED BY <1>2, <1>4 DEF LastServed
<1>6. Len(more) = n + 1 /\ more[Len(more)] = o
  <2> HIDE DEF n
  <2> QED BY <1>2
<1> QED BY <1>3, <1>5, <1>6 DEF more

LEMMA InitSnapshots == Init => Snapshots
<1> SUFFICES ASSUME Init PROVE Snapshots
    OBVIOUS
<1>1. /\ sim \in Simulations /\ store = sim.store /\ request = NoRequest
      /\ done = <<>> /\ ended = NotYet /\ newest = [r \in Records |-> 0]
  BY DEF Init
<1>2. Shelved(store) /\ store.fileno = [o \in OIDs |-> Unset]
  BY <1>1, StoreAssumption DEF Shelved
<1>3. ended.done = <<>> /\ ended.reply # "response" BY <1>1 DEF NotYet
<1>4. ASSUME NEW r \in Records, Forwards(sim, r)
      PROVE  newest[r] \in Nat /\ Stands(sim.records[r], store.fileno[sim.records[r].at], newest[r])
  <2>1. sim.records[r].at \in OIDs BY <1>1, <1>4, SettingsAssumption DEF Records, Forwards, Timed
  <2>2. newest[r] = 0 /\ store.fileno[sim.records[r].at] = Unset BY <1>1, <1>2, <2>1
  <2> QED BY <2>2 DEF Stands
<1>5. newest = [r \in Records |-> newest[r]] BY <1>1
<1>6. CommittedWhenAnswered BY <1>3 DEF CommittedWhenAnswered
<1>7. LastServed(sim, newest, done) /\ OfRecords(sim, done) BY <1>1, NothingServed
<1>8. LastServed(sim, newest, ended.done) /\ OfRecords(sim, ended.done) BY <1>3, NothingServed
<1> QED BY <1>1, <1>2, <1>4, <1>5, <1>6, <1>7, <1>8 DEF Snapshots

\* What a call does to the snapshots of all records, and to what is committed.
Moved(r, out) ==
    /\ Shelved(out.s)
    /\ Forwards(sim, r) =>
          /\ newest[r] \in Nat
          /\ Stands(sim.records[r], out.s.fileno[sim.records[r].at], newest[r])
          /\ out.ctl = "value" =>
                /\ out.value \in Nat /\ newest[r] <= out.value
                /\ Stands(sim.records[r], out.s.fileno[sim.records[r].at], out.value)
    /\ \A q \in Records : q # r /\ Forwards(sim, q) =>
          out.s.fileno[sim.records[q].at] = store.fileno[sim.records[q].at]
    /\ (/\ request.kind = "SET" /\ Len(done) + 1 = request.size
        /\ sim.records[r].module = "sql" /\ out.ctl = "value")
          => out.s.committed = out.s.db

LEMMA Moves ==
    ASSUME IInv, Snapshots, NEW r \in Records, NEW c \in Calls(sim.records[r])
    PROVE  Moved(r, variate(sim.records[r], record[r], store, c))
<1> DEFINE g == sim.records[r]
           x == record[r]
           out == variate(g, x, store, c)
<1>1. sim \in Simulations /\ r \in DOMAIN sim.records /\ now \in Int BY DEF IInv, Records
<1>2. Shelved(store) /\ "fileno" \in DOMAIN store /\ DOMAIN store.fileno = OIDs
  BY DEF Snapshots, Shelved
<1>3. g.deviation \in Nat BY <1>1, Settings
<1>4. /\ c.now \in Int
      /\ c.set <=> request.kind = "SET"
      /\ c.last <=> Len(done) + 1 = request.size
  BY <1>1, <1>3 DEF Calls
<1>5. Forwards(sim, r) =>
         /\ g.module = "multiplex" /\ Timed(g) /\ newest[r] \in Nat
         /\ Stands(g, store.fileno[g.at], newest[r])
  BY DEF Snapshots, Forwards, Timed
<1>6. \A q \in Records : q # r /\ Forwards(sim, q) => sim.records[q].at \in OIDs \ {g.at}
  <2> TAKE q \in Records
  <2> HAVE q # r /\ Forwards(sim, q)
  <2>1. sim.records[q].at \in OIDs BY <1>1, SettingsAssumption DEF Records, Forwards, Timed
  <2>2. sim.records[q].at # g.at BY <1>1 DEF Forwards, AloneIn
  <2> QED BY <2>1, <2>2
<1>7. CASE g.module = "multiplex"
  <2> DEFINE Goes(latest) ==
               /\ Stands(g, out.s.fileno[g.at], latest)
               /\ out.ctl = "value" =>
                     /\ out.value \in Nat /\ latest <= out.value
                     /\ Stands(g, out.s.fileno[g.at], out.value)
  <2>1. /\ DOMAIN out.s = DOMAIN store /\ DOMAIN out.s.fileno = OIDs
        /\ \A o \in OIDs \ {g.at} : out.s.fileno[o] = store.fileno[o]
        /\ \A latest \in Nat : Timed(g) /\ Stands(g, store.fileno[g.at], latest) => Goes(latest)
    <3> HIDE DEF x
    <3> QED BY <1>1, <1>2, <1>4, <1>7, MultiplexSteps
  <2> HIDE DEF out
  <2>2. Shelved(out.s) BY <1>2, <2>1 DEF Shelved
  <2>3. Forwards(sim, r) => Goes(newest[r]) BY <1>5, <2>1
  <2>4. \A q \in Records : q # r /\ Forwards(sim, q) =>
           out.s.fileno[sim.records[q].at] = store.fileno[sim.records[q].at]
    BY <1>6, <2>1
  <2>5. Moved(r, out) BY <1>5, <1>7, <2>2, <2>3, <2>4 DEF Moved
  <2> QED BY <2>5 DEF out
<1>8. CASE g.module # "multiplex"
  <2>1. Same(store, out.s)
    <3> HIDE DEF x
    <3> QED BY <1>1, <1>2, <1>8, StoreKept
  <2>2. g.module = "sql" /\ c.set /\ c.last /\ out.ctl = "value" => out.s.committed = out.s.db
    <3> HIDE DEF g, x
    <3> QED BY <1>2, SqlCommits DEF Shelved
  <2> HIDE DEF out
  <2>3. Shelved(out.s) BY <1>2, <2>1 DEF Shelved, Same
  <2>4. \A q \in Records : q # r /\ Forwards(sim, q) =>
           out.s.fileno[sim.records[q].at] = store.fileno[sim.records[q].at]
    BY <2>1 DEF Same
  <2>5. ~Forwards(sim, r) BY <1>5, <1>8
  <2>6. Moved(r, out) BY <1>4, <2>2, <2>3, <2>4, <2>5 DEF Moved
  <2> QED BY <2>6 DEF out
<1> QED BY <1>7, <1>8

\* The two ways a request goes on.
LEMMA Replied ==
    ASSUME NEW r, NEW out, Answered(r, out), NEW outcomes,
           outcomes = Append(done, [rec |-> r, ctl |-> out.ctl, value |-> out.value])
    PROVE  \/ done' = outcomes /\ request' = request /\ ended' = ended
           \/ /\ done' = <<>> /\ request' = NoRequest
              /\ ended'.done = outcomes /\ ended'.request = request
              /\ ended'.reply = "response" => Len(outcomes) = request.size
<1> DEFINE Goes == done' = outcomes /\ UNCHANGED <<request, ended>>
           Ends(reply) == End(outcomes, reply)
<1>1. \/ Goes \/ Ends("dropped") \/ Ends("error")
      \/ Ends("response") /\ Len(outcomes) = request.size
  BY DEF Answered
<1>2. \A reply : Ends(reply) => /\ done' = <<>> /\ request' = NoRequest
                                /\ ended'.done = outcomes /\ ended'.request = request
                                /\ ended'.reply = reply
  BY DEF End
<1>3. CASE Goes BY <1>3
<1>4. CASE Ends("dropped") BY <1>2, <1>4
<1>5. CASE Ends("error") BY <1>2, <1>5
<1>6. CASE Ends("response") /\ Len(outcomes) = request.size BY <1>2, <1>6
<1> HIDE DEF Ends, Goes
<1> QED BY <1>1, <1>3, <1>4, <1>5, <1>6

LEMMA VariateSnapshots ==
    ASSUME Snapshots, request # NoRequest, NEW r \in Records, NEW out, Answered(r, out),
           sim' = sim, Moved(r, out)
    PROVE  Snapshots'
<1> DEFINE o == [rec |-> r, ctl |-> out.ctl, value |-> out.value]
           outcomes == Append(done, o)
<1>1. /\ store' = out.s /\ ended = NotYet
      /\ newest' = IF out.ctl = "value" /\ out.value > newest[r]
                   THEN [newest EXCEPT ![r] = out.value] ELSE newest
  BY DEF Answered, Snapshots
<1>2. newest' = [q \in Records' |-> newest'[q]] BY <1>1 DEF Snapshots, Records
<1>3. \A q \in Records : q # r => newest'[q] = newest[q] BY <1>1 DEF Snapshots
<1>4. Forwards(sim, r) => newest'[r] = IF out.ctl = "value" THEN out.value ELSE newest[r]
  <2> SUFFICES ASSUME Forwards(sim, r)
               PROVE  newest'[r] = IF out.ctl = "value" THEN out.value ELSE newest[r]
    OBVIOUS
  <2>1. r \in DOMAIN newest BY DEF Snapshots
  <2>2. newest'[r] = IF out.ctl = "value" /\ out.value > newest[r] THEN out.value ELSE newest[r]
    BY <1>1, <2>1
  <2>3. newest[r] \in Nat /\ (out.ctl = "value" => out.value \in Nat /\ newest[r] <= out.value)
    BY DEF Moved
  <2> QED BY <2>2, <2>3
<1>5. \A q \in Records : Forwards(sim, q) =>
         newest'[q] \in Nat /\ Stands(sim.records[q], store'.fileno[sim.records[q].at], newest'[q])
  <2> TAKE q \in Records
  <2> HAVE Forwards(sim, q)
  <2>1. CASE q = r BY <1>1, <1>4, <2>1 DEF Moved
  <2>2. CASE q # r
    <3>1. newest[q] \in Nat /\ Stands(sim.records[q], store.fileno[sim.records[q].at], newest[q])
      BY DEF Snapshots
    <3>2. store'.fileno[sim.records[q].at] = store.fileno[sim.records[q].at]
      BY <1>1, <2>2 DEF Moved
    <3> QED BY <1>3, <2>2, <3>1, <3>2
  <2> QED BY <2>1, <2>2
<1>6. /\ OfRecords(sim, outcomes) /\ LastServed(sim, newest', outcomes)
      /\ Len(outcomes) = Len(done) + 1 /\ outcomes[Len(outcomes)] = o
  <2>1. OfRecords(sim, done) /\ LastServed(sim, newest, done) /\ r \in DOMAIN sim.records
    BY DEF Snapshots, Records
  <2>2. o.rec = r /\ o.ctl = out.ctl /\ o.value = out.value OBVIOUS
  <2>3. \A q \in DOMAIN sim.records : q # r => newest'[q] = newest[q] BY <1>3 DEF Records
  <2>4. Forwards(sim, r) /\ o.ctl = "value" => o.value = newest'[r] BY <1>4, <2>2
  <2> DEFINE after == newest'
  <2>5. /\ \A q \in DOMAIN sim.records : q # r => after[q] = newest[q]
        /\ Forwards(sim, r) /\ o.ctl = "value" => o.value = after[r]
    BY <2>3, <2>4
  <2> HIDE DEF o, after
  <2>6. /\ OfRecords(sim, Append(done, o)) /\ LastServed(sim, after, Append(done, o))
        /\ Len(Append(done, o)) = Len(done) + 1
        /\ Append(done, o)[Len(Append(done, o))] = o
    <3>1. Advances(sim, newest, after, o) BY <2>1, <2>2, <2>5 DEF Advances
    <3> QED BY <2>1, <3>1, OneMoreServed
  <2> QED BY <2>6 DEF after
<1>7. \/ done' = outcomes /\ request' = request /\ ended' = NotYet
      \/ /\ done' = <<>> /\ request' = NoRequest
         /\ ended'.done = outcomes /\ ended'.request = request
         /\ ended'.reply = "response" => Len(outcomes) = request.size
  <2> HIDE DEF outcomes, o
  <2>1. outcomes = Append(done, [rec |-> r, ctl |-> out.ctl, value |-> out.value])
    BY DEF outcomes, o
  <2> QED BY <1>1, <2>1, Replied
<1> HIDE DEF outcomes
<1>8. NotYet.done = <<>> /\ NotYet.reply # "response" BY DEF NotYet
<1>9. OfRecords(sim, done') /\ OfRecords(sim, ended'.done)
  BY <1>6, <1>7, <1>8, NothingServed
<1>10. LastServed(sim, newest', done') /\ LastServed(sim, newest', ended'.done)
  BY <1>6, <1>7, <1>8, NothingServed
<1>11. request' # NoRequest => ended' = NotYet BY <1>7
<1>12. CommittedWhenAnswered'
  <2> SUFFICES ASSUME ended'.reply = "response", ended'.request.kind = "SET",
                      \A i \in 1..Len(ended'.done) :
                         /\ ended'.done[i].ctl = "value"
                         /\ sim'.records[ended'.done[i].rec].module = "sql"
               PROVE  store'.committed = store'.db
    BY DEF CommittedWhenAnswered
  <2>1. ended'.done = outcomes /\ request.kind = "SET" /\ Len(outcomes) = request.size
    BY <1>7, <1>8
  <2>2. Len(outcomes) \in 1..Len(outcomes)
    <3>1. Len(done) \in Nat BY DEF Snapshots, OfRecords
    <3> QED BY <1>6, <3>1
  <2>3. out.ctl = "value" /\ sim.records[r].module = "sql"
    <3>1. o.ctl = "value" /\ sim.records[o.rec].module = "sql" BY <1>6, <2>1, <2>2
    <3> QED BY <3>1
  <2> QED BY <1>1, <1>6, <2>1, <2>3 DEF Moved
<1>13. Shelved(store') BY <1>1 DEF Moved
<1>14. \A q \in Records' : Forwards(sim', q) =>
          newest'[q] \in Nat /\ Stands(sim'.records[q], store'.fileno[sim'.records[q].at], newest'[q])
  BY <1>5 DEF Records
<1>15. /\ OfRecords(sim', done') /\ OfRecords(sim', ended'.done)
       /\ LastServed(sim', newest', done') /\ LastServed(sim', newest', ended'.done)
  BY <1>9, <1>10
<1> QED BY <1>2, <1>11, <1>12, <1>13, <1>14, <1>15 DEF Snapshots

\* Snapshots looks at the simulation, which never changes.
LEMMA NextSnapshots == IInv /\ Snapshots /\ [Next]_vars => Snapshots'
<1> SUFFICES ASSUME IInv, Snapshots, [Next]_vars PROVE Snapshots'
    OBVIOUS
<1>0. NotYet.done = <<>> /\ NotYet.reply # "response" BY DEF NotYet
<1>1. CASE Receive
  <2>1. /\ sim' = sim /\ store' = store /\ done' = done /\ newest' = newest /\ ended' = NotYet
    BY <1>1 DEF Receive
  <2>2. OfRecords(sim, ended'.done) /\ LastServed(sim, newest, ended'.done)
    BY <1>0, <2>1, NothingServed
  <2>3. CommittedWhenAnswered' BY <1>0, <2>1 DEF CommittedWhenAnswered
  <2> QED BY <2>1, <2>2, <2>3 DEF Snapshots, Records
<1>2. CASE Variate
  <2>1. PICK r \in Records : \E c \in Calls(sim.records[r]) :
            Answered(r, variate(sim.records[r], record[r], store, c))
    BY <1>2 DEF Variate
  <2>2. PICK c \in Calls(sim.records[r]) :
            Answered(r, variate(sim.records[r], record[r], store, c))
    BY <2>1
  <2>3. sim' = sim /\ request # NoRequest BY <1>2 DEF Variate
  <2>4. Moved(r, variate(sim.records[r], record[r], store, c)) BY Moves
  <2> QED BY <2>2, <2>3, <2>4, VariateSnapshots
<1>3. CASE Tick
  <2>1. /\ sim' = sim /\ store' = store /\ done' = done /\ newest' = newest /\ ended' = ended
        /\ request' = request
    BY <1>3 DEF Tick
  <2> QED BY <2>1 DEF Snapshots, Records, CommittedWhenAnswered
<1>4. CASE Restart
  <2>1. /\ sim' = sim /\ request' = NoRequest /\ done' = <<>> /\ ended' = NotYet
        /\ newest' = [r \in Records |-> 0]
        /\ DOMAIN store' = DOMAIN sim.store
        /\ "fileno" \in DOMAIN sim.store => store'.fileno = sim.store.fileno
    BY <1>4 DEF Restart
  <2>2. sim \in Simulations BY DEF IInv
  <2>3. Shelved(store') /\ store'.fileno = [o \in OIDs |-> Unset]
    BY <2>1, <2>2, StoreAssumption DEF Shelved
  <2>4. ASSUME NEW r \in Records, Forwards(sim, r)
        PROVE  newest'[r] \in Nat /\ Stands(sim.records[r], store'.fileno[sim.records[r].at], newest'[r])
    <3>1. sim.records[r].at \in OIDs BY <2>2, <2>4, SettingsAssumption DEF Records, Forwards, Timed
    <3>2. newest'[r] = 0 /\ store'.fileno[sim.records[r].at] = Unset BY <2>1, <2>3, <3>1
    <3> QED BY <3>2 DEF Stands
  <2>5. newest' = [r \in Records' |-> newest'[r]] BY <2>1 DEF Records
  <2>6. CommittedWhenAnswered' BY <1>0, <2>1 DEF CommittedWhenAnswered
  <2>7. /\ OfRecords(sim, done') /\ OfRecords(sim, ended'.done)
        /\ LastServed(sim, newest', done') /\ LastServed(sim, newest', ended'.done)
    BY <1>0, <2>1, NothingServed
  <2> QED BY <2>1, <2>3, <2>4, <2>5, <2>6, <2>7 DEF Snapshots, Records
<1>5. CASE UNCHANGED vars
  <2>1. /\ sim' = sim /\ store' = store /\ done' = done /\ newest' = newest /\ ended' = ended
        /\ request' = request
    BY <1>5 DEF vars
  <2> QED BY <2>1 DEF Snapshots, Records, CommittedWhenAnswered
<1> QED BY <1>1, <1>2, <1>3, <1>4, <1>5 DEF Next

(* Whatever snapshots a directory holds, listed in order, whatever their   *)
(* period, and whenever requests come: the snapshot a record is served     *)
(* from last is the newest it was ever served from (multiplex.py:207-231). *)
THEOREM VariationsNeverBack == Spec => []NeverBack
<1>1. Snapshots => NeverBack
  <2> SUFFICES ASSUME Snapshots, NEW i \in 1..Len(ended.done),
                      Timed(sim.records[ended.done[i].rec]), Alone(ended.done[i].rec),
                      ended.done[i].ctl = "value",
                      \A j \in 1..Len(ended.done) : j > i => ended.done[j].rec # ended.done[i].rec
               PROVE  ended.done[i].value = newest[ended.done[i].rec]
    BY DEF NeverBack, Timed
  <2>1. Forwards(sim, ended.done[i].rec) BY DEF Forwards, Alone, AloneIn, Records
  <2> QED BY <2>1 DEF Snapshots, LastServed
<1> QED BY <1>1, InitInv, NextInv, InitSnapshots, NextSnapshots, PTL DEF Spec

(* Whatever the table of sql holds, and whatever failed before: a SET that *)
(* is answered without error is committed (sql.py:148-181).                *)
THEOREM VariationsCommitted == Spec => []CommittedWhenAnswered
<1>1. Snapshots => CommittedWhenAnswered BY DEF Snapshots
<1> QED BY <1>1, InitInv, NextInv, InitSnapshots, NextSnapshots, PTL DEF Spec
=============================================================================
