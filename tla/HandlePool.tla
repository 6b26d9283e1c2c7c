----------------------------- MODULE HandlePool -----------------------------
(***************************************************************************)
(* The pool of open data files (snmpsim/datafile.py, DataFile.get_handles  *)
(* with RecordIndex.get_handles, open and close under it).  All DataFile   *)
(* objects share the list opened_queue: a file asked for while it is       *)
(* closed goes to the end of the list, and when the list is full the file  *)
(* at its head is closed first.  A file that is open but was modified is   *)
(* closed and opened again without moving in the list.                     *)
(*                                                                         *)
(* The files change under the responder: an editor may replace one, with   *)
(* a readable text, with one that cannot be indexed, or remove it.         *)
(***************************************************************************)
EXTENDS Integers, Sequences, FiniteSets

CONSTANTS
    Files,           \* the data files
    MaxQueueEntries, \* max_queue_entries
    Faults           \* what an editor may do to a file, of AllFaults

AllFaults == {"corrupt", "missing"}

ASSUME PoolAssumption ==
    /\ IsFiniteSet(Files)
    /\ MaxQueueEntries \in Nat
    /\ Faults \subseteq AllFaults

VARIABLES
    opened_queue,  \* DataFile.opened_queue
    open,          \* the files whose index is open (RecordIndex.is_open)
    text,          \* text[f]: the file on disk is "ok", "corrupt" or "missing"
    touched,       \* files modified since they were opened last
    outcome,       \* how the last request went
    failed         \* history: files an attempt to open which has failed

poolVars == <<opened_queue, open, text, touched, outcome, failed>>

\* The last request: nobody asked yet, the handles were returned, SnmpsimError
\* was raised (answered with an error status), or any other exception was.
Outcomes == {"none", "handles", "SnmpsimError", "Exception"}

Queued == {opened_queue[i] : i \in DOMAIN opened_queue}

PoolInit ==
    /\ opened_queue = <<>>
    /\ open = {}
    /\ text = [f \in Files |-> "ok"]   \* the responder indexed them all at startup
    /\ touched = {}
    /\ outcome = "none"
    /\ failed = {}

-----------------------------------------------------------------------------
Full == Len(opened_queue) > MaxQueueEntries

\* A closed file has no handles: closing it again raises AttributeError.
Jammed == Full /\ Head(opened_queue) \notin open

\* A mutant of OpenIndex: any error is passed on as it is.
OpenIndexRaw(f, kept) ==
    /\ open' = IF text[f] = "ok" THEN kept \cup {f} ELSE kept
    /\ touched' = IF text[f] = "ok" THEN touched \ {f} ELSE touched
    /\ failed' = IF text[f] = "ok" THEN failed ELSE failed \cup {f}
    /\ outcome' = IF text[f] = "ok" THEN "handles" ELSE text[f]
    /\ UNCHANGED text

(***************************************************************************)
(* RecordIndex.get_handles of a closed file f when `kept' is open besides: *)
(* create raises SnmpsimError for a text it cannot index, os.stat OSError  *)
(* for a text that is not there.                                           *)
(***************************************************************************)
OpenIndex(f, kept) ==
    /\ open' = IF text[f] = "ok" THEN kept \cup {f} ELSE kept
    /\ touched' = IF text[f] = "ok" THEN touched \ {f} ELSE touched
    /\ failed' = IF text[f] = "ok" THEN failed ELSE failed \cup {f}
    /\ outcome' = CASE text[f] = "ok"      -> "handles"
                    [] text[f] = "corrupt" -> "SnmpsimError"
                    [] text[f] = "missing" -> "Exception"
    /\ UNCHANGED text

\* The list is full and its head cannot be closed.
GetJammed(f) ==
    /\ f \notin open /\ Jammed
    /\ outcome' = "Exception"
    /\ UNCHANGED <<opened_queue, open, text, touched, failed>>

\* A mutant of GetEvicting: the head leaves the list, the tail is closed.
GetEvictingNewest(f) ==
    /\ f \notin open /\ Full /\ ~Jammed
    /\ opened_queue' = Append(Tail(opened_queue), f)
    /\ OpenIndex(f, open \ {opened_queue[Len(opened_queue)]})

\* The list is full: close the head, queue and open f.
GetEvicting(f) ==
    /\ f \notin open /\ Full /\ ~Jammed
    /\ opened_queue' = Append(Tail(opened_queue), f)
    /\ OpenIndex(f, open \ {Head(opened_queue)})

\* Mutants of GetClosed: not queued, and queued without a look at the limit.
GetClosedUnqueued(f) ==
    /\ f \notin open /\ ~Full
    /\ OpenIndex(f, open)
    /\ UNCHANGED opened_queue

GetClosedUnlimited(f) ==
    /\ f \notin open
    /\ opened_queue' = Append(opened_queue, f)
    /\ OpenIndex(f, open)

\* Queue and open f.
GetClosed(f) ==
    /\ f \notin open /\ ~Full
    /\ opened_queue' = Append(opened_queue, f)
    /\ OpenIndex(f, open)

\* f is open and as it was when it was opened.
GetOpen(f) ==
    /\ f \in open /\ text[f] # "missing" /\ f \notin touched
    /\ outcome' = "handles"
    /\ UNCHANGED <<opened_queue, open, text, touched, failed>>

\* f is open and its modification time changed: close it, then open it.
GetModified(f) ==
    /\ f \in open /\ text[f] # "missing" /\ f \in touched
    /\ OpenIndex(f, open \ {f})
    /\ UNCHANGED opened_queue

\* f is open but gone from the disk: os.stat raises before anything changes.
GetMissing(f) ==
    /\ f \in open /\ text[f] = "missing"
    /\ outcome' = "Exception"
    /\ UNCHANGED <<opened_queue, open, text, touched, failed>>

GetHandles(f) == \/ GetJammed(f) \/ GetEvicting(f) \/ GetClosed(f)
                 \/ GetOpen(f) \/ GetModified(f) \/ GetMissing(f)

\* An editor replaces or removes a file; its modification time changes.
Edit(f) ==
    /\ \E t \in {"ok"} \cup Faults : text' = [text EXCEPT ![f] = t]
    /\ touched' = touched \cup {f}
    /\ UNCHANGED <<opened_queue, open, outcome, failed>>

PoolNext == \E f \in Files : GetHandles(f) \/ Edit(f)

PoolSpec == PoolInit /\ [][PoolNext]_poolVars

-----------------------------------------------------------------------------
TypeOK ==
    /\ opened_queue \in Seq(Files)
    /\ open \subseteq Files /\ touched \subseteq Files /\ failed \subseteq Files
    /\ text \in [Files -> {"ok"} \cup Faults]
    /\ outcome \in Outcomes

\* No file stays open without an entry in the list: each open file can still
\* be evicted, no handle leaks, whatever fails in between.
OpenIsQueued == open \subseteq Queued

\* The list, and with it the "number of open text and index files"
\* (datafile.py:38), is bounded: get_handles compares before it appends, so
\* the list grows to one entry more than max_queue_entries.
Bounded == Len(opened_queue) <= MaxQueueEntries + 1

\* Only a file that once failed to open has an entry that cannot be closed, or
\* several entries: without failures the list is exactly the open files, in
\* the order they were opened.
OnlyFailedLinger ==
    /\ \A i \in DOMAIN opened_queue :
          opened_queue[i] \in open \/ opened_queue[i] \in failed
    /\ \A i, j \in DOMAIN opened_queue :
          i # j /\ opened_queue[i] = opened_queue[j] => opened_queue[i] \in failed

\* A file is closed because it was modified, or because it is the one that was
\* opened first and the list is full; being asked for keeps a file open.
ClosedForAReason ==
    [][\A f \in open \ open' :
          \/ f \in touched
          \/ Full /\ f = Head(opened_queue)]_poolVars

\* As long as no file ever fails to open, no request for a readable one is turned
\* down. Without that proviso it would be: a file that failed to open stays in
\* the list, and once it is the head, closing it raises (datafile.py:57-65,
\* AttributeError of None), for every file that is not open from then on.
OkIsServedWithoutFailure ==
    [][\A f \in Files :
          failed = {} /\ text[f] = "ok" /\ GetHandles(f) => outcome' = "handles"]_poolVars
=============================================================================
