---------------------------- MODULE RecordIndex -----------------------------
(***************************************************************************)
(* The index of a data file (snmpsim/record/search/database.py,            *)
(* RecordIndex): a DBM file in the cache directory that maps each OID of   *)
(* the text to the offset of its record.  It outlives the responder, is    *)
(* trusted when it is younger than the text and is built again otherwise.  *)
(* An editor writes the text at any time; file times have a granularity    *)
(* of one second.  Every system call is a step of its own, so an edit or a *)
(* crash can come between any two of them.                                 *)
(***************************************************************************)
EXTENDS Integers

CONSTANTS
    Versions,        \* the versions of the text an editor writes, in order
    Broken,          \* those with a last line that does not parse
    BadOids,         \* those with a last line that parses, but not its OID
    ValidateData,    \* --validate-data
    Lines,           \* number of record lines of a text
    MaxClock,        \* bound: seconds modelled
    MaxCrashes,      \* bound: crashes of the responder
    Hazards          \* which of AllHazards the environment is allowed

(***************************************************************************)
(* What may go wrong around the responder:                                 *)
(*   while_indexing   the text is edited while a request is being served   *)
(*                    or the index is being built,                         *)
(*   same_second      it is edited twice within a second,                  *)
(*   backdated        it is replaced by a file with an older time (mv,     *)
(*                    cp -p, rsync -t, tar -x),                            *)
(*   crash_indexing   the responder dies while it builds the index,        *)
(*   unreadable       the text cannot be opened for a moment.              *)
(***************************************************************************)
AllHazards ==
    {"while_indexing", "same_second", "backdated", "crash_indexing", "unreadable"}

ASSUME IndexAssumption ==
    /\ Versions \subseteq Nat /\ 0 \in Versions
    /\ Broken \subseteq Versions \ {0}
    /\ BadOids \subseteq Versions \ {0} /\ ValidateData \in BOOLEAN
    /\ Lines \in Nat \ {0}
    /\ MaxClock \in Nat /\ MaxCrashes \in Nat
    /\ Hazards \subseteq AllHazards

None == -1      \* no version
Error == -2     \* an answer with an error status instead of data
Mixed == -3     \* an answer from an index that matches no version
Unhandled == -4 \* an exception that process_var_binds lets pass

VARIABLES
    clock,      \* the time in seconds
    version,    \* the version of the text on disk
    text_mtime, \* its modification time
    entries,    \* entries[i]: the version line i was indexed from, None if it is not
    db_exists,  \* the index file is there
    db_mtime,   \* its modification time
    pc,         \* what the responder is doing
    goal,       \* why it runs create: index_text at "boot", the same with
                \* --force-index-rebuild ("force"), or get_handles to "serve"
    line,       \* the line that create indexes next
    text_file_time,  \* create's local: the time of the text as it began
    stamp,      \* self._text_file_time
    is_open,    \* the index is open
    answered,   \* what the last request was answered from
    recognised, \* dbm.whichdb knows the files of the DBM library in use
    crashes,    \* the crashes so far
    unnoticed   \* history: the text was edited in a way the times do not tell
                \* of, and the index has not been built since

textVars == <<version, text_mtime, unnoticed>>
dbVars == <<entries, db_exists, db_mtime>>
ownVars == <<pc, goal, line, text_file_time, stamp, is_open, answered>>
envVars == <<clock, recognised, crashes>>
vars == <<textVars, dbVars, ownVars, envVars>>

NoEntries == [i \in 1..Lines |-> None]

Init ==
    /\ clock = 1
    /\ version = 0 /\ text_mtime \in {0, 1}
    /\ entries = NoEntries /\ db_exists = FALSE /\ db_mtime = 0
    /\ pc = "down" /\ goal = "boot" /\ line = 1
    /\ text_file_time = 0 /\ stamp = 0 /\ is_open = FALSE
    /\ answered = None
    /\ recognised \in BOOLEAN /\ crashes = 0
    /\ unnoticed = FALSE

-----------------------------------------------------------------------------
\* The responder starts and indexes its data files (DataFile.index_text).
Boot ==
    /\ pc = "down"
    /\ pc' = "create" /\ goal' \in {"boot", "force"}
    /\ UNCHANGED <<envVars, textVars, dbVars, line, text_file_time, stamp, is_open,
                   answered>>

\* A mutant of GetCurrent: it does not look at the time of the text.
GetCurrentUnchecked ==
    /\ pc = "idle" /\ is_open
    /\ pc' = "serve"
    /\ UNCHANGED <<envVars, textVars, dbVars, goal, line, text_file_time, stamp,
                   is_open, answered>>

\* get_handles finds the index open and the text as old as it was.
GetCurrent ==
    /\ pc = "idle" /\ is_open /\ stamp = text_mtime
    /\ pc' = "serve"
    /\ UNCHANGED <<envVars, textVars, dbVars, goal, line, text_file_time, stamp,
                   is_open, answered>>

\* get_handles finds the index closed, or closes it because the text was modified.
GetClosed ==
    /\ pc = "idle" /\ ~(is_open /\ stamp = text_mtime)
    /\ is_open' = FALSE
    /\ pc' = "create" /\ goal' = "serve"
    /\ UNCHANGED <<envVars, textVars, dbVars, line, text_file_time, stamp,
                   answered>>

\* create begins by taking the time of the text.
StatText ==
    /\ pc = "create"
    /\ text_file_time' = text_mtime
    /\ pc' = "check"
    /\ UNCHANGED <<envVars, textVars, dbVars, goal, line, stamp, is_open, answered>>

\* A mutant of IndexNeeded: an index as old as the text is trusted.
IndexNeededIfOlder ==
    \/ ~db_exists
    \/ text_file_time > db_mtime
    \/ ~recognised
    \/ goal = "force"

\* The index file needs to be built: it is not there, not younger than the
\* text, of an unknown format, or the operator said so.
IndexNeeded ==
    \/ ~db_exists
    \/ text_file_time >= db_mtime
    \/ ~recognised
    \/ goal = "force"

TrustIndex ==
    /\ pc = "check" /\ ~IndexNeeded
    /\ pc' = "restat"
    /\ UNCHANGED <<envVars, textVars, dbVars, goal, line, text_file_time, stamp,
                   is_open, answered>>

\* A mutant of StartBuild: the index file is opened without emptying it.
StartBuildOver ==
    /\ pc = "check" /\ IndexNeeded
    /\ db_exists' = TRUE /\ db_mtime' = clock
    /\ line' = 1
    /\ pc' = "build"
    /\ unnoticed' = FALSE
    /\ UNCHANGED <<envVars, version, text_mtime, entries, goal, text_file_time, stamp, is_open,
                   answered>>

\* DBM_BACKEND.open with "n" empties the index file, then the text is opened.
StartBuild ==
    /\ pc = "check" /\ IndexNeeded
    /\ entries' = NoEntries /\ db_exists' = TRUE /\ db_mtime' = clock
    /\ line' = 1
    /\ pc' = "build"
    /\ unnoticed' = FALSE
    /\ UNCHANGED <<envVars, version, text_mtime, goal, text_file_time, stamp, is_open,
                   answered>>

\* An exception leaves create: at boot it ends the responder, otherwise the
\* request is answered with an error status.
Raise == /\ pc' = IF goal = "serve" THEN "idle" ELSE "down"
         /\ answered' = IF goal = "serve" THEN Error ELSE answered

\* The text cannot be opened: the empty index file stays behind.
CannotReadText ==
    /\ "unreadable" \in Hazards
    /\ pc = "check" /\ IndexNeeded
    /\ entries' = NoEntries /\ db_exists' = TRUE /\ db_mtime' = clock
    /\ Raise
    /\ unnoticed' = FALSE
    /\ UNCHANGED <<envVars, version, text_mtime, goal, line, text_file_time, stamp, is_open>>

\* A line ends the build when it does not parse; its OID is looked at with
\* --validate-data only, and then by index_text only, although the manual says
\* of every build that "it evaluates the OIDs" (command-line-options.rst:275).
Unparsable ==
    /\ line = Lines
    /\ \/ version \in Broken
       \/ version \in BadOids /\ ValidateData /\ goal # "serve"

\* One record of the text goes into the index.
IndexLine ==
    /\ pc = "build" /\ line <= Lines /\ ~Unparsable
    /\ entries' = [entries EXCEPT ![line] = version]
    /\ db_mtime' = clock
    /\ line' = line + 1
    /\ UNCHANGED <<envVars, textVars, db_exists, pc, goal, text_file_time, stamp,
                   is_open, answered>>

\* A mutant of DataError: the index file stays.
DataErrorKeepsIndex ==
    /\ pc = "build" /\ line <= Lines /\ Unparsable
    /\ Raise
    /\ UNCHANGED <<envVars, textVars, dbVars, goal, line, text_file_time, stamp,
                   is_open>>

\* A line does not parse: the index file is removed again.
DataError ==
    /\ pc = "build" /\ line <= Lines /\ Unparsable
    /\ db_exists' = FALSE /\ entries' = NoEntries
    /\ Raise
    /\ UNCHANGED <<envVars, textVars, db_mtime, goal, line, text_file_time, stamp,
                   is_open>>

\* The end of the text: "last" is written and the index file is closed.
FinishBuild ==
    /\ pc = "build" /\ line > Lines
    /\ db_mtime' = clock
    /\ pc' = "restat"
    /\ UNCHANGED <<envVars, textVars, entries, db_exists, goal, line,
                   text_file_time, stamp, is_open, answered>>

\* dbm.open of get_handles goes by whichdb as well, which raises for a format it
\* does not know, although a comment takes such an index to be "rebuilt on every
\* start", no more (database.py:27).
Openable == goal = "serve" => recognised

\* Mutants of Restat: the time of the index file is remembered, and the handles
\* are not kept.
RestatIndexFile ==
    /\ pc = "restat" /\ Openable
    /\ stamp' = db_mtime
    /\ is_open' = (goal = "serve")
    /\ pc' = IF goal = "serve" THEN "serve" ELSE "idle"
    /\ UNCHANGED <<envVars, textVars, dbVars, goal, line, text_file_time, answered>>

RestatLeavesClosed ==
    /\ pc = "restat" /\ Openable
    /\ stamp' = text_mtime
    /\ is_open' = FALSE
    /\ pc' = "idle"
    /\ UNCHANGED <<envVars, textVars, dbVars, goal, line, text_file_time, answered>>

\* create ends by remembering the time the text has now; get_handles opens
\* the text and the index next, index_text does not.
Restat ==
    /\ pc = "restat" /\ Openable
    /\ stamp' = text_mtime
    /\ is_open' = (goal = "serve")
    /\ pc' = IF goal = "serve" THEN "serve" ELSE "idle"
    /\ UNCHANGED <<envVars, textVars, dbVars, goal, line, text_file_time, answered>>

\* get_handles cannot open the text or the index in the end. That is not an
\* SnmpsimError, and the request ends with the exception (datafile.py:79).
CannotOpen ==
    /\ pc = "restat" /\ goal = "serve"
    /\ ~Openable \/ "unreadable" \in Hazards
    /\ stamp' = text_mtime
    /\ pc' = "idle" /\ answered' = Unhandled
    /\ UNCHANGED <<envVars, textVars, dbVars, goal, line, text_file_time, is_open>>

\* The request is answered: text and index are read together.
IndexedVersion ==
    IF \A i \in 1..Lines : entries[i] = version THEN version ELSE Mixed

Serve ==
    /\ pc = "serve"
    /\ answered' = IndexedVersion
    /\ pc' = "idle"
    /\ UNCHANGED <<envVars, textVars, dbVars, goal, line, text_file_time, stamp,
                   is_open>>

\* The pool of open files closes this one to open another (DataFile.close).
Close ==
    /\ pc = "idle" /\ is_open
    /\ is_open' = FALSE
    /\ UNCHANGED <<envVars, textVars, dbVars, pc, goal, line, text_file_time, stamp,
                   answered>>

-----------------------------------------------------------------------------
\* The responder dies.  DBM files are written without syncing ("f"), so of the
\* entries written by an unfinished build any may be lost.
Crash ==
    /\ pc # "down" /\ crashes < MaxCrashes
    /\ pc = "build" => "crash_indexing" \in Hazards
    /\ pc' = "down" /\ is_open' = FALSE
    /\ crashes' = crashes + 1
    /\ IF pc = "build"
       THEN \E lost \in SUBSET (1..Lines) :
               entries' = [i \in 1..Lines |-> IF i \in lost THEN None ELSE entries[i]]
       ELSE UNCHANGED entries
    /\ UNCHANGED <<clock, recognised, textVars, db_exists, db_mtime, goal, line, text_file_time,
                   stamp, answered>>

\* The times a text written now can get.
EditTimes == IF "backdated" \in Hazards THEN (0..clock) \ {text_mtime} ELSE {clock}

\* The edits that the times do not tell of: while the index is built or served; in
\* the second of the edit before, with the index open; and back to the time an open
\* index was made for, or to one before the index file's.
Unnoticed(t) ==
    \/ pc \in {"check", "build", "restat", "serve"}
    \/ is_open /\ t = text_mtime
    \/ t < clock /\ ((is_open /\ t = stamp) \/ (db_exists /\ t < db_mtime))

Edit ==
    /\ pc \in {"idle", "down"} \/ "while_indexing" \in Hazards
    /\ text_mtime < clock \/ "same_second" \in Hazards
    /\ \E v \in Versions, t \in EditTimes :
          /\ v > version
          /\ version' = v /\ text_mtime' = t
          /\ unnoticed' = (unnoticed \/ Unnoticed(t))
    /\ UNCHANGED <<envVars, dbVars, ownVars>>

Tick == /\ clock < MaxClock
        /\ clock' = clock + 1
        /\ UNCHANGED <<textVars, dbVars, ownVars, recognised, crashes>>

Create == \/ StatText \/ TrustIndex \/ StartBuild \/ CannotReadText \/ IndexLine
          \/ DataError \/ FinishBuild \/ Restat \/ CannotOpen

Request == GetCurrent \/ GetClosed \/ Serve

Next == Boot \/ Request \/ Create \/ Close \/ Crash \/ Edit \/ Tick

(***************************************************************************)
(* The responder keeps running what it began, is started again when it     *)
(* died, and managers keep asking.  Editor, clock and crashes are free.    *)
(***************************************************************************)
Spec == Init /\ [][Next]_vars /\ WF_vars(Boot) /\ WF_vars(Create) /\ WF_vars(Request)

-----------------------------------------------------------------------------
TypeOK ==
    /\ clock \in Nat /\ version \in Versions /\ text_mtime \in Nat
    /\ entries \in [1..Lines -> Versions \cup {None}]
    /\ db_exists \in BOOLEAN /\ db_mtime \in Nat
    /\ pc \in {"down", "idle", "create", "check", "build", "restat", "serve"}
    /\ goal \in {"boot", "force", "serve"} /\ line \in 1..(Lines + 1)
    /\ text_file_time \in Nat /\ stamp \in Nat /\ is_open \in BOOLEAN
    /\ answered \in Versions \cup {None, Error, Mixed, Unhandled}
    /\ recognised \in BOOLEAN /\ crashes \in Nat /\ unnoticed \in BOOLEAN

Current == db_exists /\ \A i \in 1..Lines : entries[i] = version

\* A request is served from an index of the text as it is on disk, except after an
\* edit the times do not tell of: create trusts an index younger than the text, be
\* the text an older file moved there (database.py:105), and remembers the time the
\* text has after it was indexed (database.py:244). The first build after such an edit
\* makes it good.
ServedIsCurrent == pc = "serve" => Current \/ unnoticed

\* Whatever the next create would trust is an index of the present text, also
\* right after a crash or an edit: staleness never survives in the cache, but for
\* the edits that the times do not tell of.
TrustedIsCurrent ==
    pc \in {"down", "idle", "create", "check"} /\ db_exists /\ text_mtime < db_mtime
        => Current \/ unnoticed

\* An open index whose text looks unmodified is an index of that text, unless the
\* text was edited while it was indexed, or back to the time it had (database.py:78).
UnmodifiedIsCurrent ==
    pc = "idle" /\ is_open /\ stamp = text_mtime => Current \/ unnoticed

\* An index may have lost entries, but none it serves points into another text -
\* whatever crashes, edits and unreadable texts come together, if the times tell of
\* the edits.
ServedIsNotStale ==
    pc = "serve" => unnoticed \/ \A i \in 1..Lines : entries[i] \in {version, None}

\* Requests never stop being answered from data: again and again one is, unless
\* the text on disk is broken, or the format of the index is not recognised.
KeepsServing ==
    []<>(\/ pc = "serve" \/ ~recognised
         \/ version \in Broken \/ (ValidateData /\ version \in BadOids))

Promise == INSTANCE IndexedFile WITH Versions <- Versions, Broken <- Broken,
                                      version <- version, answered <- answered,
                                      unnoticed <- unnoticed, servable <- recognised

\* The index keeps the promise of IndexedFile: answers come from the text on disk,
\* errors only from a broken one, and where neither is so there is a reason.
KeepsPromise == Promise!Spec
=============================================================================
