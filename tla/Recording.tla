------------------------------ MODULE Recording ------------------------------
(***************************************************************************)
(* What the variation modules do with a record when an agent or a capture  *)
(* is recorded: the record handlers of multiplex, redis, sql, delay and    *)
(* numeric (snmpsim/variation/*.py), reached through the format_value of   *)
(* the recorder.  The handlers are operators from the state of the module  *)
(* and the record to the outcome, which the recorders act on.              *)
(*                                                                         *)
(* multiplex writes the OIDs of each pass over the agent to a file of its  *)
(* own, redis to a key-space of its own, sql all of them to one table.     *)
(* These are the slots of the store: 0 is the table, the file or the       *)
(* key-space numbered 0.  Values are left out: what is kept are OIDs.      *)
(***************************************************************************)
EXTENDS Integers, Sequences

MODULES == {"none", "delay", "numeric", "sql", "multiplex", "redis"}

(***************************************************************************)
(* moduleContext and the store behind it:                                  *)
(*   ready     init has succeeded: "ready", "dbConn"                       *)
(*   left      "iterations", passes to make after this one                 *)
(*   filenum   the number of the snapshot file, -1 when there is none yet  *)
(*   open      "file" is there: the snapshot file is being written         *)
(*   slot      the OIDs of the snapshots, temporary key-spaces included    *)
(*   listed    redis: the key-spaces that may be replayed, in order        *)
(*   committed sql: the transaction is committed                           *)
(***************************************************************************)
Fresh(module, ok, iterations, slots) ==
    [module |-> module, ready |-> ok,
     left |-> IF iterations = 0 THEN 0 ELSE iterations - 1,
     filenum |-> -1, open |-> FALSE, slot |-> [s \in slots |-> <<>>],
     listed |-> <<>>, committed |-> FALSE]

\* The outcome of a handler: a line for the data file, nothing, another pass,
\* an SnmpsimError that is logged, or an exception that nobody expects.
Line(m)     == [ctl |-> "line", m |-> m]
NoData(m)   == [ctl |-> "nodata", m |-> m]
MoreData(m) == [ctl |-> "moredata", m |-> m]
Failed(m)   == [ctl |-> "error", m |-> m]
Raised(m)   == [ctl |-> "raise", m |-> m]

Keep(m, s, oid) == [m EXCEPT !.slot[s] = Append(@, oid)]

\* The first record of a data file becomes the one that refers to the module,
\* at the start OID - which the recorder must have passed.
Reference(m, first, c) == IF ~first THEN NoData(m)
                          ELSE IF c.startOID THEN Line(m) ELSE Raised(m)

\* No module, delay and numeric (whose settings never hold iterations nor a
\* taglist: its init fails to split any option).
PlainRecord(m, c)   == IF c.stopFlag THEN NoData(m) ELSE Line(m)
NumericRecord(m, c) == Line(m)

SqlRecord(m, c) ==
    IF ~m.ready THEN Failed(m)
    ELSE IF c.stopFlag THEN NoData(m)
    ELSE LET known == \E i \in 1..Len(m.slot[0]) : m.slot[0][i] = c.oid
         IN  Reference(IF known THEN m ELSE Keep(m, 0, c.oid), c.count = 0, c)

(***************************************************************************)
(* multiplex: a stop closes the snapshot, or numbers it 0 when there is    *)
(* none open, and asks for another pass while there are iterations left.   *)
(***************************************************************************)
MultiplexStop(m) ==
    LET closed == IF m.open THEN [m EXCEPT !.open = FALSE] ELSE [m EXCEPT !.filenum = 0]
    IN  IF m.left = 0 THEN NoData(closed)
        ELSE MoreData([closed EXCEPT !.left = @ - 1, !.filenum = @ + 1])

\* Opening a snapshot truncates the file of that number.
MultiplexOpen(m) ==
    LET n == IF m.filenum < 0 THEN 0 ELSE m.filenum
    IN  IF m.open THEN m
        ELSE [m EXCEPT !.filenum = n, !.open = TRUE, !.slot[n] = <<>>]

MultiplexRecord(m, c) ==
    IF ~m.ready THEN Failed(m)
    ELSE IF c.stopFlag THEN MultiplexStop(m)
    ELSE LET o == MultiplexOpen(m)
         IN  Reference(Keep(o, o.filenum, c.oid), c.total = 0, c)

(***************************************************************************)
(* redis: the key-space is numbered by the iterations left.  A stop moves  *)
(* it into place, lists it, and asks for another pass likewise.            *)
(***************************************************************************)
RedisStop(m) ==
    LET done == [m EXCEPT !.listed = Append(@, m.left)]
    IN  IF m.left = 0 THEN NoData(done) ELSE MoreData([done EXCEPT !.left = @ - 1])

RedisRecord(m, c) ==
    IF ~m.ready THEN Failed(m)
    ELSE IF c.stopFlag THEN RedisStop(m)
    ELSE Reference(Keep(m, m.left, c.oid), c.count = 0, c)

Record(m, c) == CASE m.module = "numeric"   -> NumericRecord(m, c)
                  [] m.module = "sql"       -> SqlRecord(m, c)
                  [] m.module = "multiplex" -> MultiplexRecord(m, c)
                  [] m.module = "redis"     -> RedisRecord(m, c)
                  [] OTHER                  -> PlainRecord(m, c)

\* shutdown: sql commits, a snapshot left open is closed with the process.
Shutdown(m) == [m EXCEPT !.committed = (m.module = "sql" /\ m.ready), !.open = FALSE]

=============================================================================
