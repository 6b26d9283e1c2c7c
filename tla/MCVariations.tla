---------------------------- MODULE MCVariations ----------------------------
(***************************************************************************)
(* Each module with one or two records: multiplex with snapshots listed in *)
(* order, out of order and with gaps, replayed by time, with wrap and by a *)
(* control OID, and two data files that share an OID; redis and sql with   *)
(* small stores; numeric counters and gauges up to their limits; rules of  *)
(* each kind; settings that are bad.                                       *)
(***************************************************************************)
EXTENDS Variations, TLC

G(module) == [module |-> module, at |-> 1, bad |-> "no", deviation |-> 0]

Mux(keys) == [keys |-> keys, dir |-> "d", period |-> 2, wrap |-> "absent", control |-> FALSE,
              files |-> [n \in {keys[i] : i \in 1..Len(keys)} |-> {1, 2, 3} \ {n}]] @@ G("multiplex")

NoStore == [connected |-> TRUE, engine |-> TRUE, sent |-> 0,
            fileno |-> [o \in OIDs |-> Unset], open |-> [o \in OIDs |-> <<"", -1>>],
            list |-> <<>>, order |-> [k \in {1, 2} |-> <<>>],
            stored |-> [k \in {1, 2}, o \in OIDs |-> NoVal],
            db |-> [o \in OIDs |-> NoRow], committed |-> [o \in OIDs |-> NoRow]]

One(g, s) == [records |-> [r \in {"a"} |-> g], store |-> s]
Both(g, h, s) == [records |-> [r \in {"a", "b"} |-> IF r = "a" THEN g ELSE h], store |-> s]

Multiplexes ==
    {One(Mux(<<0, 1>>), NoStore), One(Mux(<<1, 0>>), NoStore), One(Mux(<<0, 4>>), NoStore),
     One([Mux(<<0, 1>>) EXCEPT !.control = TRUE], NoStore),
     Both(Mux(<<0, 1>>), [Mux(<<3>>) EXCEPT !.dir = "e"], NoStore)}
    \cup {One([Mux(<<0, 1>>) EXCEPT !.wrap = w], NoStore) : w \in {"off", "on"}}
    \cup {One([Mux(<<0, 1>>) EXCEPT !.bad = b], NoStore) : b \in {"raise", "silent", "unsplit"}}

Redis(period) == [period |-> period] @@ G("redis")
Spaces == [NoStore EXCEPT !.list = <<1, 2>>, !.order[1] = <<<<1, 1>>, <<1, 2>>, <<1, 3>>>>,
                          !.order[2] = <<<<1, 2>>>>,
                          !.stored[1, 1] = 5, !.stored[1, 2] = 5, !.stored[1, 3] = 15,
                          !.stored[2, 2] = 5]
Redises == {One(Redis(p), s) : p \in {0, 1}, s \in {NoStore, Spaces, [Spaces EXCEPT !.connected = FALSE]}}
           \cup {One([Redis(0) EXCEPT !.bad = b], Spaces) : b \in {"silent", "raise", "unsplit"}}

Rows == [o \in OIDs |-> IF o = 1 THEN NoRow ELSE [value |-> 5, write |-> (o = 2)]]
Table == [NoStore EXCEPT !.db = Rows, !.committed = Rows]
Sqls == {One(G("sql"), s) : s \in {Table, [Table EXCEPT !.connected = FALSE]}}

Num(f, cumulative, scale, offset, dev, wrap) ==
    [module |-> "numeric", at |-> 1, bad |-> "no", deviation |-> dev,
     function |-> f, cumulative |-> cumulative, scale |-> scale, offset |-> offset, rate |-> 1,
     min |-> 0, max |-> 9, initial |-> 2, wrap |-> wrap]
Numerics == {One(Num(f, c, sc, off, dev, w), NoStore) :
                f \in {"identity", "swing"}, c \in Written, sc \in {-1, 2}, off \in {-1, 1},
                dev \in {0, 2}, w \in {"absent", "off"}}
            \cup {One([Num("identity", "on", 1, 0, 0, "on") EXCEPT !.bad = b], NoStore) :
                     b \in {"raise", "unsplit"}}

Rule(op, v, d) == [op |-> op, v |-> v, d |-> d]
Eased(g) == [wait |-> 1, value |-> NoVal, vlist |-> {}, tlist |-> {}, op |-> "any", known |-> TRUE,
             rest |-> 0, target |-> "known"] @@ g
OnValues(d) == {Rule("eq", 5, d), Rule("lt", 5, 0), Rule("gt", 5, 3)}
OnTime == {Rule("eq", 1, 9), Rule("gt", 2, 9), Rule("lt", 1, 2)}
BadLists == {[bad |-> b, rest |-> n] : b \in {"vlist", "tlist"}, n \in {0, 1}}
            \cup {[bad |-> b, rest |-> 0] : b \in {"no", "wait", "unsplit"}}
Delays == {One([Eased(G("delay")) EXCEPT !.vlist = l, !.tlist = t, !.bad = b.bad, !.rest = b.rest,
                                         !.deviation = d], NoStore) :
              l \in {{}, OnValues(9)}, t \in {{}, OnTime}, b \in BadLists, d \in {0, 2}}
Errors == {One([Eased(G("error")) EXCEPT !.vlist = l, !.bad = b.bad, !.rest = b.rest, !.op = op,
                                         !.known = k, !.value = 5], NoStore) :
              l \in {{}, OnValues(1)}, b \in {q \in BadLists : q.bad \in {"no", "vlist", "unsplit"}},
              op \in {"any", "get", "set"}, k \in BOOLEAN}
Notifications == {One([Eased(G("notification")) EXCEPT !.bad = b, !.op = op, !.target = t, !.rest = n],
                      [NoStore EXCEPT !.engine = e]) :
                     b \in {"no", "vlist", "unsplit"}, op \in {"any", "get", "set", "unknown"},
                     t \in {"known", "unknown", "missing"}, n \in {0, 1}, e \in BOOLEAN}
Commands == {One(Eased(G("subprocess")), NoStore)}

SimulationsDef == Multiplexes \cup Redises \cup Sqls \cup Numerics \cup Delays \cup Errors
                  \cup Notifications \cup Commands
=============================================================================
