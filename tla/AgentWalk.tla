------------------------------ MODULE AgentWalk ------------------------------
(***************************************************************************)
(* The recorder (snmpsim/commands/cmd2rec.py): walks an agent from         *)
(* start_object with GETNEXT or GETBULK and writes what it serves to a     *)
(* data file, through a variation module if there is one.  A walk that the *)
(* agent breaks off is resumed behind the OID that seems to be to blame, a *)
(* module may ask for another pass over the agent.                         *)
(*                                                                         *)
(* An OID is the sequence of its arcs behind the first two.  The agent and *)
(* pysnmp's walk_cmd and bulk_walk_cmd are external: they serve the OIDs   *)
(* of the agent in order, or break off, or end.                            *)
(***************************************************************************)
EXTENDS Recording, FiniteSets

CONSTANTS
    Agents,      \* the sets of OIDs the agent may serve
    START,       \* start_object
    Stops,       \* values of stop_object, NoStop for none
    Retries,     \* values of --continue-on-errors
    Repetitions, \* values of --getbulk-repetitions, 1 for GETNEXT
    Iterations   \* values of the option iterations of the modules

NoStop == <<>>

\* Lexicographic order, a prefix coming first.
Before(a, b) == \E i \in 1..Len(b) : /\ \A j \in 1..(i - 1) : j <= Len(a) /\ a[j] = b[j]
                                     /\ i > Len(a) \/ a[i] < b[i]

Arcs(oid) == oid \in Seq(Nat) /\ oid # <<>>

ASSUME AgentWalkAssumption ==
    /\ \A a \in Agents : IsFiniteSet(a) /\ \A o \in a : Arcs(o) /\ Len(o) > 1
    /\ Arcs(START) /\ Retries \subseteq Nat /\ Iterations \subseteq Nat
    /\ Repetitions \subseteq Nat \ {0}
    /\ \A s \in Stops : s = NoStop \/ Arcs(s)

VARIABLES
    agent, stop, continue_on_errors, repetitions,  \* what is walked, and how
    m,          \* the variation module
    pc,         \* "send", "await", "record", "close", "done"
    start_oid,  \* what to send, or what has been sent
    retries, lastOID, errors, count, total,        \* state
    rsp,        \* the var-binds of the response that are to be recorded yet
    flags,      \* stop_flag and restarted
    at,         \* external: where the walk of pysnmp stands
    output,     \* the OIDs of the data file
    rc,         \* the exit code
    aborted,    \* history: an exception nobody expects has ended the walk
    resumed     \* history: the walk has been resumed after an error

options == <<agent, stop, continue_on_errors, repetitions>>
counts  == <<retries, lastOID, errors, count, total>>
vars == <<options, m, pc, start_oid, counts, rsp, flags, at, output, rc, aborted, resumed>>

NoFlags == [stop |-> FALSE, restarted |-> FALSE]

Init ==
    /\ agent \in Agents /\ stop \in Stops
    /\ continue_on_errors \in Retries /\ repetitions \in Repetitions
    /\ \E module \in MODULES, ok \in BOOLEAN, n \in Iterations :
         m = Fresh(module, ok, n, 0..(n + 1))
    /\ pc = "send" /\ start_oid = START /\ at = START
    /\ retries = continue_on_errors /\ lastOID = START
    /\ errors = 0 /\ count = 0 /\ total = 0
    /\ rsp = <<>> /\ flags = NoFlags /\ output = <<>>
    /\ rc = -1 /\ aborted = FALSE /\ resumed = FALSE

---------------------------------------------------------------------------
\* `while start_oid is not None': pysnmp walks from there.
Send ==
    /\ pc = "send"
    /\ pc' = "await" /\ at' = start_oid
    /\ UNCHANGED <<options, m, start_oid, counts, rsp, flags, output, rc, aborted, resumed>>

Behind(oid) == {o \in agent : Before(oid, o)}
Following(oid) == CHOOSE o \in Behind(oid) : \A p \in Behind(oid) : p = o \/ Before(o, p)

Onward(oid) == IF Behind(oid) = {} THEN oid ELSE Following(oid)

\* The n var-binds behind an OID, end of MIB being served at the last one.
Served(oid, n) ==
    LET f[k \in 0..n] == IF k = 0 THEN oid ELSE Onward(f[k - 1])
    IN  [k \in 1..n |-> [oid |-> f[k], end |-> Behind(f[k - 1]) = {}]]

\* A response: the agent may cut it short.  Status noSuchName is let through.
Answer ==
    /\ pc = "await"
    /\ \E n \in 1..repetitions : rsp' = Served(at, n)
    /\ retries' = IF continue_on_errors # retries THEN retries + 1 ELSE retries
    /\ lastOID' = rsp'[Len(rsp')].oid /\ at' = lastOID'
    /\ pc' = "record" /\ flags' = NoFlags
    /\ UNCHANGED <<options, m, start_oid, errors, count, total, output, rc, aborted, resumed>>

\* pysnmp may also end the walk at the end of the MIB without a word.
WalkEnds ==
    /\ pc = "await" /\ Behind(at) = {}
    /\ pc' = "close"
    /\ UNCHANGED <<options, m, start_oid, counts, rsp, flags, at, output, rc, aborted, resumed>>

Bump(oid, k) == [SubSeq(oid, 1, k) EXCEPT ![k] = @ + 1]

\* A mutant of oid_after_error: the walk starts over.
oid_after_error_start(oid) == IF Len(oid) < 2 THEN oid ELSE SubSeq(oid, 1, 1)

oid_after_error(oid) ==
    LET n == Len(oid)
    IN  IF n < 2 THEN oid
        ELSE IF (continue_on_errors - retries) * 10 > 5 * continue_on_errors THEN Bump(oid, n - 1)
        ELSE IF oid[n] # 0 THEN Bump(oid, n)
        ELSE Append(Bump(oid, n - 1), 0)

\* A mutant of BreakOff: attempts are not counted.
BreakOffUncounted ==
    /\ pc = "await"
    /\ errors' = 1
    /\ IF retries = 0
         THEN pc' = "close" /\ UNCHANGED <<start_oid, retries, lastOID, resumed>>
         ELSE /\ \E failed \in {at, lastOID} : start_oid' = oid_after_error(failed)
              /\ lastOID' = start_oid' /\ retries' = retries
              /\ pc' = "send" /\ resumed' = TRUE
    /\ UNCHANGED <<options, m, count, total, rsp, flags, at, output, rc, aborted>>

\* A timeout or an error status, with the var-binds of the request or without.
BreakOff ==
    /\ pc = "await"
    /\ errors' = errors + 1
    /\ IF retries = 0
         THEN pc' = "close" /\ UNCHANGED <<start_oid, retries, lastOID, resumed>>
         ELSE /\ \E failed \in {at, lastOID} : start_oid' = oid_after_error(failed)
              /\ retries' = retries - 1 /\ lastOID' = start_oid'
              /\ pc' = "send" /\ resumed' = TRUE
    /\ UNCHANGED <<options, m, count, total, rsp, flags, at, output, rc, aborted>>

---------------------------------------------------------------------------
\* One var-bind of the response: stop_flag stays set for those behind it.
OutOfRange(vb) == vb.end \/ (stop # NoStop /\ ~Before(vb.oid, stop))

RecordOne ==
    /\ pc = "record" /\ rsp # <<>>
    /\ LET vb == Head(rsp)
           stop_flag == flags.stop \/ OutOfRange(vb)
           done == Record(m, [oid |-> vb.oid, stopFlag |-> stop_flag, count |-> count,
                              total |-> total, startOID |-> FALSE])
       IN  /\ m' = done.m
           /\ flags' = IF done.ctl = "moredata" THEN [stop |-> TRUE, restarted |-> TRUE]
                       ELSE [flags EXCEPT !.stop = stop_flag]
           /\ IF done.ctl = "line"
                THEN output' = Append(output, vb.oid) /\ count' = count + 1 /\ total' = total + 1
                ELSE /\ count' = IF done.ctl = "moredata" THEN 0 ELSE count
                     /\ UNCHANGED <<output, total>>
           /\ pc' = IF done.ctl = "raise" THEN "close" ELSE pc
           /\ aborted' = (done.ctl = "raise")
    /\ rsp' = Tail(rsp)
    /\ UNCHANGED <<options, start_oid, retries, lastOID, errors, at, rc, resumed>>

\* The response is recorded: another pass, the end, or the next request.
Recorded ==
    /\ pc = "record" /\ rsp = <<>>
    /\ IF flags.restarted THEN pc' = "send" /\ start_oid' = START
       ELSE /\ pc' = IF flags.stop THEN "close" ELSE "await"
            /\ UNCHANGED start_oid
    /\ UNCHANGED <<options, m, counts, rsp, flags, at, output, rc, aborted, resumed>>

\* A mutant of Close: one error is forgiven.
CloseForgiving ==
    /\ pc = "close"
    /\ pc' = "done" /\ m' = Shutdown(m) /\ rc' = IF errors > 1 THEN 1 ELSE 0
    /\ UNCHANGED <<options, start_oid, counts, rsp, flags, at, output, aborted, resumed>>

\* The `return' in the finally clause also ends an exception.
Close ==
    /\ pc = "close"
    /\ pc' = "done" /\ m' = Shutdown(m) /\ rc' = IF errors > 0 THEN 1 ELSE 0
    /\ UNCHANGED <<options, start_oid, counts, rsp, flags, at, output, aborted, resumed>>

Next == Send \/ Answer \/ WalkEnds \/ BreakOff \/ RecordOne \/ Recorded \/ Close

(***************************************************************************)
(* The recorder is one thread: it takes its steps, and pysnmp answers a    *)
(* request or gives it up after its timeout.                               *)
(***************************************************************************)
Spec == Init /\ [][Next]_vars /\ WF_vars(Next)

---------------------------------------------------------------------------
Wanted == {o \in agent : Before(START, o) /\ (stop = NoStop \/ Before(o, stop))}

Writes(oid) == \E i \in 1..Len(output) : output[i] = oid

(* However often the walk is broken off and resumed, and however many      *)
(* var-binds lie past the stop object in a response, an OID is recorded    *)
(* once, in order, and none from outside of the range asked for            *)
(* (cmd2rec.py:560-677).  numeric does not look at stopFlag and writes     *)
(* what lies past the end of the range too.                                *)
InOrder ==
    m.module # "numeric" =>
        /\ \A i \in 1..Len(output) : output[i] \in Wanted
        /\ \A i, j \in 1..Len(output) : i < j => Before(output[i], output[j])

(* A recorder that tells of no error (exit code 0) has recorded all that   *)
(* the agent has in the range, whatever the agent cut its responses to     *)
(* (cmd2rec.py:734-834) - without a module that keeps records elsewhere.   *)
SuccessIsComplete ==
    (rc = 0 /\ m.module \in {"none", "delay", "numeric"}) => \A o \in Wanted : Writes(o)

(* The walk ends: an agent that breaks it off may not send the recorder    *)
(* round in circles, and neither may a module that asks for more passes.   *)
Ends == <>(pc = "done")

(* docs/source/documentation/recording-with-variation-modules.rst:147 says *)
(* of multiplex that it "can record a series of snapshots", and of sql and *)
(* redis likewise: what is walked without an error is kept.  The recorder  *)
(* does not pass the start OID these modules need for their first record   *)
(* (cmd2rec.py:629), the KeyError ends the walk and is swallowed.          *)
KeepsWhatItWalks ==
    (rc = 0 /\ m.ready) =>
        \A o \in Wanted : \/ Writes(o)
                         \/ \E s \in DOMAIN m.slot : \E i \in 1..Len(m.slot[s]) : m.slot[s][i] = o
=============================================================================
