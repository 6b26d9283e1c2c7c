------------------------------ MODULE Reporting ------------------------------
(***************************************************************************)
(* Activity reports (snmpsim/reporting): each responder counts what it     *)
(* serves and, when a counter changes after the period is over, dumps its  *)
(* counters to a file that is named after the second, through a temporary  *)
(* one.  Consumers take the reports away.  Responders may share a          *)
(* directory; they end without a last dump.  Temporary files have names of *)
(* their own that nobody reads: that one is there is what "rename" says.   *)
(*                                                                         *)
(* The counters are those of one scope of the full reporter - one peer,    *)
(* data file and variation module; the minimal one has packets, pdus and   *)
(* failures of them only.                                                  *)
(***************************************************************************)
EXTENDS Integers, FiniteSetsExt

CONSTANTS
    Responders,
    Setups,       \* [kind, period, lite] of each responder, and dir
    MaxVarBinds,  \* bound: var-binds of a request
    MaxErrors,    \* failures of a var-bind: max_broken_records and one more
    MaxUpdates,   \* bound: updates of a responder
    MaxTime,      \* bound: seconds
    MaxCrashes    \* bound: crashes

ASSUME ReportingAssumption ==
    /\ \A s \in Setups : \A p \in Responders :
         s[p].kind \in {"null", "minimal", "full"} /\ s[p].period \in Nat /\ s[p].lite \in BOOLEAN
    /\ MaxVarBinds \in Nat /\ MaxErrors \in Nat
    /\ MaxUpdates \in Nat /\ MaxTime \in Nat /\ MaxCrashes \in Nat

VARIABLES
    setup,
    clock,
    metrics,    \* _metrics of each responder, Empty at first and after a dump
    next_dump,
    pc,         \* "idle", "flush", "write", "rename", "clear"
    stamp,      \* `now' of the dump under way: its file name
    reports,    \* the dumps there are: [dir, at, by, metrics]
    updates, crashes,
    counted, taken, crashed, overwritten  \* history: packets of each responder

counts == <<updates, crashes, counted, taken, crashed, overwritten>>
vars == <<setup, clock, metrics, next_dump, pc, stamp, reports, counts>>

Nothing == [packets |-> 0, pdus |-> 0, varbinds |-> 0, failures |-> 0, calls |-> 0, vfailures |-> 0]
Empty == [used |-> FALSE, n |-> Nothing]

Zero == [p \in Responders |-> 0]

Init ==
    /\ setup \in Setups
    /\ clock = 0
    /\ metrics = [p \in Responders |-> Empty]
    /\ next_dump = [p \in Responders |-> setup[p].period]
    /\ pc = [p \in Responders |-> "idle"] /\ stamp = Zero
    /\ reports = {}
    /\ updates = Zero /\ crashes = 0
    /\ counted = Zero /\ taken = Zero /\ crashed = Zero /\ overwritten = Zero

---------------------------------------------------------------------------
(***************************************************************************)
(* What process_var_binds and evaluate_value tell of: requests with the    *)
(* var-binds there are, none perhaps, and the failures in them, a data     *)
(* file that could not be opened, calls of a variation module, references  *)
(* to one that is missing.  One request is several of these, and a dump    *)
(* may come between them.                                                  *)
(***************************************************************************)
Updates ==
    {u \in [of : {"request"}, varbinds : 0 .. MaxVarBinds, failures : 0 .. MaxErrors * MaxVarBinds] :
        u.failures <= MaxErrors * u.varbinds}
      \cup [of : {"unopened", "call", "missing"}, varbinds : {0}, failures : {0}]

IsPdu(u) == u.of = "request"
IsPacket(u) == u.of \in {"request", "unopened"}
Add(n, yes) == IF yes THEN n + 1 ELSE n

\* A mutant of Pdus: a call of a module counts as a PDU.
PdusAndCalls(n, u) == [n EXCEPT !.pdus = Add(@, u.of # "unopened"), !.varbinds = @ + u.varbinds,
                                !.failures = @ + u.failures + IF u.of = "unopened" THEN 1 ELSE 0]

Pdus(n, u) == [n EXCEPT !.pdus = Add(@, IsPdu(u)), !.varbinds = @ + u.varbinds,
                        !.failures = @ + u.failures + IF u.of = "unopened" THEN 1 ELSE 0]

\* The calls of a module are read from a key nobody sets: one, always.
Variations(n, u) == IF IsPacket(u) THEN n
                    ELSE [n EXCEPT !.calls = IF u.of = "call" THEN 1 ELSE 0,
                                   !.vfailures = Add(@, u.of = "missing")]

\* The full reporter finds none of its scopes in what the lite responder tells,
\* and gives up.
Scoped(p) == setup[p].kind = "minimal" \/ ~setup[p].lite

Updated(p, n, u) ==
    IF ~Scoped(p) THEN n
    ELSE LET m == Pdus([n EXCEPT !.packets = Add(@, IsPacket(u))], u)
         IN  IF setup[p].kind = "full" THEN Variations(m, u) ELSE [m EXCEPT !.varbinds = 0]

Update(p) ==
    /\ pc[p] = "idle" /\ updates[p] < MaxUpdates /\ setup[p].kind # "null"
    /\ \E u \in Updates :
         /\ metrics' = [metrics EXCEPT ![p] = [used |-> TRUE, n |-> Updated(p, @.n, u)]]
         /\ counted' = [counted EXCEPT ![p] = IF Scoped(p) THEN Add(@, IsPacket(u)) ELSE @]
    /\ pc' = [pc EXCEPT ![p] = "flush"] /\ updates' = [updates EXCEPT ![p] = @ + 1]
    /\ UNCHANGED <<setup, clock, next_dump, stamp, reports, crashes, taken, crashed,
                   overwritten>>

---------------------------------------------------------------------------
NotDue(p) == ~metrics[p].used \/ next_dump[p] > clock

FlushNotDue(p) ==
    /\ pc[p] = "flush" /\ NotDue(p)
    /\ pc' = [pc EXCEPT ![p] = "idle"]
    /\ UNCHANGED <<setup, clock, metrics, next_dump, stamp, reports, counts>>

\* A mutant of FlushDue: the next dump is due at once.
FlushDueAtOnce(p) ==
    /\ pc[p] = "flush" /\ ~NotDue(p)
    /\ next_dump' = [next_dump EXCEPT ![p] = clock]
    /\ stamp' = [stamp EXCEPT ![p] = clock]
    /\ pc' = [pc EXCEPT ![p] = "write"]
    /\ UNCHANGED <<setup, clock, metrics, reports, counts>>

FlushDue(p) ==
    /\ pc[p] = "flush" /\ ~NotDue(p)
    /\ next_dump' = [next_dump EXCEPT ![p] = clock + setup[p].period]
    /\ stamp' = [stamp EXCEPT ![p] = clock]
    /\ pc' = [pc EXCEPT ![p] = "write"]
    /\ UNCHANGED <<setup, clock, metrics, reports, counts>>

\* Each format has a subdirectory of its own.
Dir(p) == <<setup[p].dir, setup[p].kind>>

WriteTemporary(p) ==
    /\ pc[p] = "write"
    /\ pc' = [pc EXCEPT ![p] = "rename"]
    /\ UNCHANGED <<setup, clock, metrics, next_dump, stamp, reports, counts>>

\* A mutant of FailToDump: counters are cleared whatever happens.
FailToDumpClearing(p) ==
    /\ pc[p] \in {"write", "rename"}
    /\ pc' = [pc EXCEPT ![p] = "idle"] /\ metrics' = [metrics EXCEPT ![p] = Empty]
    /\ UNCHANGED <<setup, clock, next_dump, stamp, reports, counts>>

\* An exception anywhere on the way: the counters stay.
FailToDump(p) ==
    /\ pc[p] \in {"write", "rename"}
    /\ pc' = [pc EXCEPT ![p] = "idle"]
    /\ UNCHANGED <<setup, clock, metrics, next_dump, stamp, reports, counts>>

Packets(r) == r.metrics.packets
Sum(S) == IF S = {} THEN 0 ELSE MapThenSumSet(Packets, S)
By(p, S) == {r \in S : r.by = p}

Rename(p) ==
    LET old == {r \in reports : r.dir = Dir(p) /\ r.at = stamp[p]}
        new == [dir |-> Dir(p), at |-> stamp[p], by |-> p, metrics |-> metrics[p].n]
    IN  /\ pc[p] = "rename"
        /\ reports' = (reports \ old) \cup {new}
        /\ overwritten' = [q \in Responders |-> overwritten[q] + Sum(By(q, old))]
        /\ pc' = [pc EXCEPT ![p] = "clear"]
        /\ UNCHANGED <<setup, clock, metrics, next_dump, stamp, updates, crashes, counted, taken,
                       crashed>>

Clear(p) ==
    /\ pc[p] = "clear"
    /\ metrics' = [metrics EXCEPT ![p] = Empty] /\ pc' = [pc EXCEPT ![p] = "idle"]
    /\ UNCHANGED <<setup, clock, next_dump, stamp, reports, counts>>

---------------------------------------------------------------------------
\* What is in memory and not in a report.
Held(p) == IF pc[p] = "clear" THEN 0 ELSE metrics[p].n.packets

\* The responder ends, in whatever state, and another is started.
Crash(p) ==
    /\ crashes < MaxCrashes /\ crashes' = crashes + 1
    /\ crashed' = [crashed EXCEPT ![p] = @ + Held(p)]
    /\ metrics' = [metrics EXCEPT ![p] = Empty] /\ pc' = [pc EXCEPT ![p] = "idle"]
    /\ next_dump' = [next_dump EXCEPT ![p] = clock + setup[p].period]
    /\ UNCHANGED <<setup, clock, stamp, reports, updates, counted, taken, overwritten>>

\* External: a consumer.
Take ==
    \E r \in reports :
        /\ reports' = reports \ {r} /\ taken' = [taken EXCEPT ![r.by] = @ + Packets(r)]
        /\ UNCHANGED <<setup, clock, metrics, next_dump, pc, stamp, updates, crashes,
                       counted, crashed, overwritten>>

Tick ==
    /\ clock < MaxTime /\ clock' = clock + 1
    /\ UNCHANGED <<setup, metrics, next_dump, pc, stamp, reports, counts>>

Flush(p) == \/ FlushNotDue(p) \/ FlushDue(p) \/ WriteTemporary(p) \/ FailToDump(p) \/ Rename(p)
            \/ Clear(p)

Next == (\E p \in Responders : Update(p) \/ Flush(p) \/ Crash(p)) \/ Take \/ Tick

Spec == Init /\ [][Next]_vars

---------------------------------------------------------------------------
(* Every packet counted is in one report, in memory or known to be lost -  *)
(* never in two, and never dropped because a dump failed: the counters are *)
(* cleared after the rename only (alljson.py:146-196).                     *)
Conserved ==
    \A p \in Responders :
        counted[p] = Held(p) + Sum(By(p, reports)) + taken[p] + crashed[p] + overwritten[p]

(* No report is overwritten before it was taken, however many dumps fail   *)
(* and responders crash - if the directory is not shared and the period is *)
(* at least a second, as reports are named after the second only           *)
(* (alljson.py:154-165).                                                   *)
NotOverwritten ==
    \A p \in Responders :
        (setup[p].period > 0 /\ \A q \in Responders \ {p} : Dir(q) # Dir(p)) => overwritten[p] = 0

(* The counters of a report agree with each other, wherever a dump cuts    *)
(* what is told of a request: a packet that is not a processed PDU is one  *)
(* that failed because of its data file, and there are no more failures    *)
(* than those and the ones the var-binds can have; a PDU may have none of  *)
(* them (alljson.py:359-422, datafile.py:76-91, 225-262).                  *)
Unprocessed(n) == n.packets - n.pdus

Agreeing(n, kind) ==
    /\ 0 <= Unprocessed(n) /\ Unprocessed(n) <= n.failures
    /\ kind = "full" => n.failures <= Unprocessed(n) + MaxErrors * n.varbinds

CountersAgree == /\ \A p \in Responders : Agreeing(metrics[p].n, setup[p].kind)
                 /\ \A r \in reports : Agreeing(r.metrics, setup[r.by].kind)
=============================================================================
