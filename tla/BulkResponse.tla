---------------------------- MODULE BulkResponse ----------------------------
(***************************************************************************)
(* get_bulk_var_binds (snmpsim/utils.py): the var-binds of one GETBULK     *)
(* response.  The first var-binds of the request (non-repeaters) are       *)
(* advanced once, the others repeatedly, a row at a time, until            *)
(* max_repetitions or max_var_binds is reached or the next var-bind does   *)
(* not fit into max_response_size octets any more.                         *)
(*                                                                         *)
(* The instances of the data file are numbered 1 to Instances in the order *)
(* of their OIDs, 0 is an OID in front of them.  A var-bind is the pair of *)
(* the number and whether it holds a value.                                *)
(***************************************************************************)
EXTENDS Integers, Sequences

CONSTANTS
    Instances,        \* the number of instances
    Sizes,            \* functions giving the octets of each var-bind on the wire
    EndSize,          \* the octets of a var-bind that holds endOfMib
    Silences,         \* sets of instances whose variation module drops the request
    Requests,         \* [var_binds, non_repeaters, max_repetitions]
    MaxVarBinds,      \* the values of max_var_binds
    MaxResponseSize   \* max_response_size

ASSUME BulkAssumption ==
    /\ Instances \in Nat /\ EndSize \in Nat /\ MaxResponseSize \in Nat
    /\ Sizes \subseteq [1..Instances -> Nat] /\ MaxVarBinds \subseteq Nat
    /\ Silences \subseteq SUBSET (1..Instances)
    /\ \A r \in Requests :
          /\ r.var_binds \in Seq(0..Instances)
          /\ r.non_repeaters \in Nat /\ r.max_repetitions \in Nat

VARIABLES
    req,             \* the request
    max_var_binds,
    octets,          \* the size of each instance's var-bind
    silent,          \* the instances whose variation module drops the request
    pc,              \* "start", "repeat", "row", "done", "aborted"
    rsp_var_binds,
    size,            \* octets collected, the var-bind that did not fit included
    var_binds,       \* the var-binds the next row follows
    row,             \* what is left of the row that was read
    M                \* the repetitions left

call == <<req, max_var_binds, octets, silent>>
vars == <<call, pc, rsp_var_binds, size, var_binds, row, M>>

-----------------------------------------------------------------------------
Smaller(a, b) == IF a < b THEN a ELSE b

\* The last n elements of a sequence that has them.
LastOf(s, n) == SubSeq(s, Len(s) - n + 1, Len(s))

Name(vb) == vb[1]

\* GETNEXT behind an OID: the next instance, or the OID itself and endOfMib.
ReadNext(p) == IF p < Instances THEN <<p + 1, "value">> ELSE <<p, "endOfMib">>

read_next_vars(names) == [i \in DOMAIN names |-> ReadNext(names[i])]

\* A variation module raises on the way; the exception leaves the function.
Raises(names) == \E i \in DOMAIN names : names[i] + 1 \in silent

var_bind_size(vb) == IF vb[2] = "value" THEN octets[Name(vb)] ELSE EndSize

SizeOf(vbs) ==
    LET sum[k \in 0..Len(vbs)] == IF k = 0 THEN 0 ELSE sum[k - 1] + var_bind_size(vbs[k])
    IN  sum[Len(vbs)]

N == Smaller(req.non_repeaters, Len(req.var_binds))
R == Len(req.var_binds) - N

Repetitions ==
    IF R > 0 THEN Smaller(req.max_repetitions, max_var_binds \div R)
             ELSE req.max_repetitions

Init ==
    /\ req \in Requests /\ max_var_binds \in MaxVarBinds /\ octets \in Sizes
    /\ silent \in Silences
    /\ pc = "start"
    /\ rsp_var_binds = <<>> /\ size = 0 /\ var_binds = <<>> /\ row = <<>>
    /\ M = Repetitions

\* A mutant of ReadNonRepeaters: the repeaters are taken from the front.
ReadNonRepeatersFront ==
    /\ pc = "start"
    /\ ~Raises(SubSeq(req.var_binds, 1, N))
    /\ rsp_var_binds' = read_next_vars(SubSeq(req.var_binds, 1, N))
    /\ size' = SizeOf(rsp_var_binds')
    /\ var_binds' = SubSeq(req.var_binds, 1, R)
    /\ pc' = "repeat"
    /\ UNCHANGED <<call, row, M>>

\* The var-binds that are advanced once; their size is not limited.
ReadNonRepeaters ==
    /\ pc = "start"
    /\ ~Raises(SubSeq(req.var_binds, 1, N))
    /\ rsp_var_binds' = read_next_vars(SubSeq(req.var_binds, 1, N))
    /\ size' = SizeOf(rsp_var_binds')
    /\ var_binds' = LastOf(req.var_binds, R)
    /\ pc' = "repeat"
    /\ UNCHANGED <<call, row, M>>

ReadRow ==
    /\ pc = "repeat" /\ M > 0 /\ R > 0
    /\ ~Raises(var_binds)
    /\ row' = read_next_vars(var_binds)
    /\ pc' = "row"
    /\ UNCHANGED <<call, rsp_var_binds, size, var_binds, M>>

Abort ==
    /\ \/ pc = "start" /\ Raises(SubSeq(req.var_binds, 1, N))
       \/ pc = "repeat" /\ M > 0 /\ R > 0 /\ Raises(var_binds)
    /\ pc' = "aborted"
    /\ UNCHANGED <<call, rsp_var_binds, size, var_binds, row, M>>

\* Mutants of Take: the var-bind at hand is not counted, one that just fits is
\* left out, and a large one at the beginning is waited with.
TakeBeforeCounting ==
    /\ pc = "row" /\ row # <<>>
    /\ size' = size + var_bind_size(Head(row))
    /\ IF size > MaxResponseSize /\ rsp_var_binds # <<>>
       THEN pc' = "done" /\ UNCHANGED <<rsp_var_binds, row>>
       ELSE /\ rsp_var_binds' = Append(rsp_var_binds, Head(row))
            /\ row' = Tail(row)
            /\ UNCHANGED pc
    /\ UNCHANGED <<call, var_binds, M>>

TakeBelowLimit ==
    /\ pc = "row" /\ row # <<>>
    /\ size' = size + var_bind_size(Head(row))
    /\ IF size' >= MaxResponseSize /\ rsp_var_binds # <<>>
       THEN pc' = "done" /\ UNCHANGED <<rsp_var_binds, row>>
       ELSE /\ rsp_var_binds' = Append(rsp_var_binds, Head(row))
            /\ row' = Tail(row)
            /\ UNCHANGED pc
    /\ UNCHANGED <<call, var_binds, M>>

TakeFitting ==
    /\ pc = "row" /\ row # <<>>
    /\ size' = size + var_bind_size(Head(row))
    /\ IF size' > MaxResponseSize
       THEN rsp_var_binds # <<>> /\ pc' = "done" /\ UNCHANGED <<rsp_var_binds, row>>
       ELSE /\ rsp_var_binds' = Append(rsp_var_binds, Head(row))
            /\ row' = Tail(row)
            /\ UNCHANGED pc
    /\ UNCHANGED <<call, var_binds, M>>

\* The next var-bind of the row is taken if it fits, or if it is the first one.
Take ==
    /\ pc = "row" /\ row # <<>>
    /\ size' = size + var_bind_size(Head(row))
    /\ IF size' > MaxResponseSize /\ rsp_var_binds # <<>>
       THEN pc' = "done" /\ UNCHANGED <<rsp_var_binds, row>>
       ELSE /\ rsp_var_binds' = Append(rsp_var_binds, Head(row))
            /\ row' = Tail(row)
            /\ UNCHANGED pc
    /\ UNCHANGED <<call, var_binds, M>>

EndRow ==
    /\ pc = "row" /\ row = <<>>
    /\ var_binds' = [i \in 1..R |-> Name(LastOf(rsp_var_binds, R)[i])]
    /\ M' = M - 1
    /\ pc' = "repeat"
    /\ UNCHANGED <<call, rsp_var_binds, size, row>>

Return ==
    /\ pc = "repeat" /\ ~(M > 0 /\ R > 0)
    /\ pc' = "done"
    /\ UNCHANGED <<call, rsp_var_binds, size, var_binds, row, M>>

Next == ReadNonRepeaters \/ ReadRow \/ Abort \/ Take \/ EndRow \/ Return

\* A plain function call on a single thread: it runs until it returns.
Spec == Init /\ [][Next]_vars /\ WF_vars(Next)

-----------------------------------------------------------------------------
\* What RFC 3416 has at place k of a response that is never cut: the k-th
\* non-repeater's successor, or that many successors behind a repeater.
Uncut(k) ==
    IF k <= N THEN ReadNext(req.var_binds[k])
    ELSE LET column == N + 1 + ((k - N - 1) % R)
             times  == 1 + ((k - N - 1) \div R)
             at     == req.var_binds[column]
         IN  IF at + times <= Instances
             THEN <<at + times, "value">> ELSE <<Instances, "endOfMib">>

\* However the repetitions are cut short, the response is the beginning of the
\* uncut one: a manager that resumes from the last var-binds misses nothing and
\* reads nothing twice (docstring of get_bulk_var_binds).
BeginningOfUncut ==
    \A k \in DOMAIN rsp_var_binds : rsp_var_binds[k] = Uncut(k)

\* A repetition never makes the response outgrow its limits, except that a
\* response of a single var-bind goes out whatever its size. max_var_binds,
\* "maximum number of variable bindings to include in a single response"
\* (responder.py:420), bounds the repetitions of all columns together; the
\* non-repeaters come on top of it, and with more repeaters than that there is no
\* repetition at all: the response may "come back empty-handed" then, which
\* utils.py:153 means never to happen.
Fits ==
    /\ \/ SizeOf(rsp_var_binds) <= MaxResponseSize
       \/ Len(rsp_var_binds) <= N
       \/ Len(rsp_var_binds) = 1
    /\ Len(rsp_var_binds) - N <= max_var_binds

\* Repetitions are dropped for a reason only: the response holds all that was
\* asked for and allowed, or the next var-bind does not fit.
CutForSize ==
    pc = "done" =>
       \/ Len(rsp_var_binds) = N + R * Repetitions
       \/ /\ rsp_var_binds # <<>>
          /\ SizeOf(rsp_var_binds) + var_bind_size(Uncut(Len(rsp_var_binds) + 1))
                > MaxResponseSize

\* Every call returns or raises.
Ends == <>(pc \in {"done", "aborted"})
=============================================================================
