# snmpsim in TLA+

snmpsim answers SNMP requests from text files. A *data file* holds one record
per line, sorted by OID; a *record index* (a DBM file in a cache directory) maps
OIDs to line offsets; *variation modules* compute values of records on the fly.
This directory models the parts of it that keep state or loop, checks them with
TLC, and proves their safety properties with TLAPS. All paths below
are relative to `src/snmpsim/`.

## 1. Inventory

The responder is one process and one thread (`asyncio`): a request is served to
its end before the next one is read, so requests never interleave with each
other. What does interleave with them is outside: whoever edits data files while
the responder runs, a clock with which file times are compared, the death of the
process between two writes to disk, other processes that share the cache
directory, and the managers, who see only responses.

| component | code | state | operations | talks to |
|---|---|---|---|---|
| record search | `record/search/file.py` | locals of a loop: `lo hi mid prev_mid`, the block read backwards | `search_record_by_oid`, `find_eol`, `get_record` | called by request processing for OIDs without an index entry |
| record index | `record/search/database.py` | the DBM file and its time, the time of the text it remembers, open handles | `create`, `get_handles`, `open`, `lookup`, `close` | called by the pool (`index_text`, `get_handles`) and by request processing (`lookup`) |
| open file pool | `datafile.py:35-65` | `opened_queue`, shared by all data files | `get_handles`, `close` | opens and closes record indexes |
| request processing | `datafile.py:67-264`, `variation.py:34-142` | position in the text, `exact_match`, `subtree_flag`, `broken_records` | `process_var_binds` | pool, index, search, variation modules, metrics |
| GETBULK | `utils.py:108-162`, `commands/responder.py:209-267` | rows collected, octets, repetitions left | `get_bulk_var_binds` | calls request processing as GETNEXT, row by row |
| writecache | `variation/writecache.py` | settings per record, type per OID, one cache for all files, a shelve file | `init`, `variate`, `shutdown` | called by request processing for its records |
| multiplex | `variation/multiplex.py` | the snapshots of a directory, period or control OID | `init`, `variate`, `record`, `shutdown` | data files of its own |
| delay, error, numeric, notification, sql, redis, subprocess | `variation/*.py` | counters over time, a database connection, a key-value store | `variate`, `record` | clock, network, database |
| module loading | `variation.py:187-312` | the loaded modules, `moduleContext`, `recordContext` | load, `initialize`, `shutdown` | responder, recorder |
| data file discovery, contexts | `datafile.py:267-373`, `commands/responder.py:684-781` | data files by community and context name | `get_data_files`, `probe_context` | responder |
| responder, lite responder | `commands/responder.py`, `commands/responder_lite.py`, `controller.py` | engine, contexts | PDU handlers | everything above |
| recorder | `commands/cmd2rec.py` | walk position, retries, errors skipped | `walk_agent` | an agent; variation modules in record mode |
| record conversion | `commands/rec2rec.py`, `commands/lint.py` | last OID, records sorted | read, sort, write | text grammars |
| pcap and MIB converters | `commands/pcap2rec.py`, `commands/mib2rec.py` | offsets, endpoints | offline conversion | captures, MIB modules |
| metrics | `reporting/` | counters of a period | `update_metrics`, dump | called everywhere |
| daemon, log files | `daemon.py`, `log.py` | PID file, rotated files | `daemonize`, `PrivilegesOf`, `doRollover` | every command |
| grammars, endpoints, search paths | `grammar/`, `record/`, `endpoints.py`, `confdir.py` | none | parsing and formatting | everything |

What makes each part correct, and what is hard about it:

- *Record search.* It returns the first record at or behind an OID, whatever
  comments and blank lines lie between records. The pivot is a byte; it steps
  back to a line start in blocks and then forward over comments, so that the
  interval may not shrink where a textbook binary search would.
- *Record index.* A request is served from an index of the text as it is. The
  index is trusted by comparing two file times of one second; the text is edited,
  or the process dies, between any two steps.
- *Pool.* No handle leaks, the number of open files is bounded, a readable file is
  served. Opening fails after the file was queued.
- *Request processing.* GETNEXT over a file equals a walk over the MIB the file
  stands for: nothing skipped, nothing twice, whatever subtree records, broken
  records and modules without a value lie in between, and however damaged
  the index is. Three flags are carried around a loop with four ways to continue.
- *GETBULK.* A response is the beginning of the one RFC 3416 prescribes, within
  two limits, and only cut for a reason.
- *Writecache.* A manager can count on what it SET. The cache is shared by
  data files whose records give an OID different types and access lists; a SET of
  several var-binds is applied piece by piece; settings are parsed lazily.
- *Recorder.* Every instance of the agent once and in order, despite timeouts,
  errors and repeated passes; and an exit code that can be believed.
- *Responder.* A request reaches the data file meant for it, however the command
  line is put together and the directories are nested and linked; what pysnmp
  holds for a request is given back, whichever way the request ends.
- *Other variation modules.* What they remember from call to call (snapshots,
  counters, rows, key-spaces) keeps its promises across requests that fail half
  way, settings that do not parse, the passing of time and restarts.
- *Metrics.* No count is lost or reported twice, whichever dump fails.

`PROJECT.json` lists every hazard at its line, with the properties aimed at it.

## 2. Modules

Definitions carry the names of the code where they can; `PROJECT.json` maps each
of them to the lines it stands for. Definitions introduced as "a mutant of" are
faulty variants used to see that each property can fail; no specification
refers to them.

**RecordSearch** (`MCRecordSearch`, `RecordProofs`). One step per probe,
block read and comparison. A file is given by where its lines begin and
which record follows each byte, not by its characters.

**RecordIndex** (`IndexedFile`, `MCRecordIndex`, `RecordProofs`). The index
of one file: `create` step by step (look at the times, trust or empty the DBM file,
index a line, restat), `get_handles`, `lookup`, `close`; and around it an editor,
a clock, crashes and a cache directory whose files may not be recognised.
Indexed lines remember the version of the text they came from. The constant
`Hazards` opens the door to what the code does not defend against, one by one:
edits while indexing, edits in the second of the edit before, texts with an
older time, crashes while indexing, unreadable texts. The first three can escape
the comparison of file times. A history variable, `unnoticed`, says that such an
edit took place (`Unnoticed` has the ways it can) and that no build came after
it; staleness is allowed then and at no other time. `IndexedFile` is the
promise: answers come from the text on disk, errors only from a broken one, but
for unnoticed edits, and for an index in a format that `dbm.whichdb` does not
recognise, which answers nothing. RecordIndex implements it under every hazard that
leaves indexing whole.

**HandlePool** (`DataFileProofs`). `DataFile.get_handles` for any number of
files, one action per way through it, with files that turn corrupt, vanish and
come back.

**DataFile** (`MCDataFile`, `DataFileProofs`). `process_var_binds`: per var-bind, look up the line
(index, or search), choose the record that serves it (the next line, the
subtree in front), evaluate it, step over it or answer. Search and index
appear by what their own modules establish: in a file that ends in comments or blank
lines (`trailing`) the search may find the end of the file instead of the record
(`Finds`). Kinds of record stand for
what evaluation may do: a value, an exception, no value, a request dropped,
a subtree with instances of its own. A line may also have an OID
that does not evaluate, which ends the request with an exception when it is met.

**BulkResponse** (`MCBulkResponse`, `BulkResponseProofs`). `get_bulk_var_binds` over an abstract
GETNEXT, with var-binds of different sizes and modules that drop the request.

**WriteCache** (`MCWriteCache`, `WriteCacheProofs`). `variate` var-bind by
var-bind, for data files that share OIDs; a manager that remembers the value it
was last told was SET and the values it was told failed; shutdown and crash.

**DataDirectory** and **Responder** (`MCResponder`, `ResponderProofs`). The life of
the full and of the lite responder: modules are loaded and initialised, the command
line is read option by option into engines, context engines, users and endpoints,
directories are scanned, and data files are registered one by one under the names
`DataDirectory` gives them; then requests arrive, `probe_context` picks a file,
and the handler of the PDU answers, fails or drops the request. What the file makes
of a request is one of the outcomes DataFile allows. pysnmp's registries (names,
communities, users, transports, state references) are external and appear as sets
and a counter.

**Variating** and **Variations** (`MCVariations`, `VariationsProofs`). `Variating`
has the `variate` handler of each module as an operator from the record, the
two contexts and the call to an outcome (a value, silence, an exception, an SNMP
error, a dropped request). Settings come as they are written (`Written`), since what
the code makes of `wrap=0` is not what it says, and in the ways they can fail to
parse (`g.bad`): not even into names and values (`unsplit`), or at one setting,
which leaves the ones before it parsed and lists in pieces (`half`, `InPieces`).
`Variations` passes the contexts on from call to
call, as request processing does, while time goes on, delays hold everybody up and
the responder is restarted. Writecache has its module because it takes
more room: a cache of all files, and a manager that relies on it.

**Recording** and **AgentWalk** (`MCAgentWalk`, `AgentWalkProofs`). `Recording` has the `record`
handlers as operators of the same kind; `AgentWalk` is the loop of cmd2rec around
them: send, record the var-binds of a response one by one, resume behind the OID
that is to blame for an error, start over for another pass, and close.

**Reporting** (`MCReporting`, `ReportingProofs`). The counters of several
responders, and the dump step by step: write a temporary file, rename it, clear the
counters; with failures at each step, crashes, and consumers that take reports. A
request is told of in several updates, each an action of its own, and a PDU with the
var-binds it has, none included, and up to `MaxErrors` failures for each
(`max_broken_records` and one more). A report is known by its directory, its format -
each has a subdirectory - and its second.

DataFile, BulkResponse, Responder and the two search modules are connected by
contract rather than composed: DataFile relies on `RoundsUpOrEof` of RecordSearch
(the next record, or the end of a file with comments behind the last one) and
on `ServedIsNotStale` of RecordIndex (an index may lack entries, but none is wrong; what
a text edited unnoticed is read as, DataFile leaves out),
BulkResponse on `Complete` of DataFile, Responder on DataFile's ways
to end but the exception of a bad OID, and HandlePool abstracts RecordIndex to whether opening
succeeds. Composing them adds no behaviour, because the calls are synchronous.
Where state is shared the modules are composed: Variations EXTENDS Variating,
AgentWalk EXTENDS Recording, Responder EXTENDS DataDirectory, and RecordIndex
INSTANCEs IndexedFile.

## 3. Runs

| run | what it checks | what it shows |
|---|---|---|
| RecordSearch | every text of up to 4 lines of up to 3 bytes, every OID at and between records, blocks of 2 bytes | the search rounds up and ends (`Bracket`, `AtLineStart`, `RoundsUpOrEof`, `Terminates`) |
| RecordIndex | 4 versions of a text of 2 lines (one broken, one with an OID that does not evaluate), 4 seconds, 2 crashes; edits while indexing, twice in a second and with older times | answers come from the text on disk unless an edit went unnoticed, and keep coming; implements IndexedFile |
| RecordIndexInterrupted | the same texts without a bad OID, with crashes while indexing and unreadable texts as well | an index may lack entries, but none is stale unless an edit went unnoticed |
| HandlePool | 3 files in a pool of limit 1, corrupt and missing files | no handle leaks, the list is bounded, a readable file is served while none fails |
| DataFile | every file of up to 4 records, one of 6 kinds each, with and without comments at the end, GETNEXT from 11 OIDs at, between, below and before the records, GET and SET of 4, and some requests of two var-binds; a whole index and one without two entries | GETNEXT is a walk over the MIB the file stands for |
| BulkResponse | requests for up to 3 var-binds, 3 repetitions, limits of 0 to 7 var-binds and 6 octets | a response is the beginning of the uncut one, within its limits, cut for a reason |
| WriteCache | 2 files, 2 OIDs, 7 by 2 by 2 shapes of settings, 8 requests, 1 restart | what a manager SET is there, of one type, and not what is denied |
| Responder | 4 file systems with nested directories and links, 17 command lines (full and lite), 2 modules that may fail to load or initialise, requests by every version, name and address | each request from the file meant for it; state is given back |
| Variations | 228 set-ups of the eight modules, requests of up to 2 var-binds, 5 seconds, any number of restarts | snapshots in order, SETs committed, counters that grow, bad settings unused |
| AgentWalk | every agent of up to 3 of 6 OIDs, with and without a stop object, 0, 1 or 3 retries, GETNEXT and GETBULK of 2, every module in record mode, up to 3 passes | records once and in order; success means complete; the walk ends |
| AgentWalkKeeps | the same | *violation*: multiplex, sql and redis keep nothing, with exit code 0 |
| Reporting | 2 responders of different kinds and periods, in one directory and in two, of one format and of two, 2 updates each, requests of 0 to 2 var-binds with up to 2 failures each, 2 seconds, 1 crash | counters conserved, reports not overwritten, counters that agree |

The bounds, and why they are enough:

- *RecordSearch.* Four lines hold records at both ends with comments before,
  between and behind; three bytes against blocks of two put line breaks
  at either end of a block and shorten the first block. The theorems cover the rest.
- *RecordIndex.* Two lines make a build that is cut in the middle; four seconds
  let a text change before, in and after the second of a build, and again.
- *HandlePool.* The limit of 1 allows two entries, so that three files evict each
  other; the theorems hold for every limit.
- *DataFile.* A misstep needs a line, the one in front and up to two behind it;
  `MaxBrokenRecords = 2` has runs of broken records below, at and above the limit.
- *BulkResponse.* Sizes 1 and 3 against a limit of 6 cut a row at each of its
  places; size 8 exceeds it alone; 0, 2, 4 and 7 var-binds divide by 1 to 3
  repeaters with and without remainder.
- *WriteCache.* One restart is all an old life can influence a new one with. The
  shared OID is a number in one file and a number or string in the other; the
  access list comes with `eq`, `lt`, `gt`, names in both cases, and in the ways it
  can fail to parse.

- *Responder.* Two engines, two context engines and three directories, one inside
  of another, are what it takes to confuse the owner of an option, and a file met
  twice or under a clashing name what it takes to confuse registration. Requests hit
  and miss every name, by community, by MD5 sum and by context. `MaxHeld` only
  stops the counter.
- *Variations.* Two snapshots and 5 seconds with a period of 2 take multiplex
  through its period and over the end; one run of requests reaches every bound of
  a counter from 0 to 9; two var-binds are the least that can fail half way; two records at
  one OID, in two files, share what multiplex remembers.
- *AgentWalk.* The OIDs include one below another and neighbours, which is what
  `oid_after_error` may mistake for each other; three retries are more than there are
  OIDs to blame.
- *Reporting.* Two dumps of one responder and one of the other within a
  second, with a failure and a crash in between, need no more than two updates.

Deadlock is checked where the system runs for ever: RecordIndex,
RecordIndexInterrupted, HandlePool, WriteCache and Variations. RecordSearch,
DataFile, BulkResponse and AgentWalk are calls that return, so there it is
switched off and termination is stated as a property (`Terminates`, `Ends`).
Responder stops where the program exits, and Reporting where its bounds are used up.

Fairness. The calls run on a single thread without waiting for anything but, in the
recorder, an answer that pysnmp gives or breaks off after its own timeout; hence weak
fairness of their next step. RecordIndex assumes weak fairness of
`Boot` (the responder is started again), `Create` (an indexing run goes on) and
`Request` (managers keep asking); editor, clock and crashes are free to happen or not.
Responder assumes it of starting up and of answering what has arrived; whether
anything arrives is left open.

## 4. Theorems

The constants are arbitrary, within the assumptions each module names. Every safety
invariant and action property of the passing runs is a theorem, with the exceptions
named at the end. A component's invariant is a conjunction of named parts, and
its proof a lemma for each action.

**RecordProofs**, of the search, for every file, OID and block size. `Bracket`
(all below `lo` is smaller, all from `hi` on is greater) is not inductive alone: it
depends on how lines lie in the interval. The invariant adds that `lo` and
`hi` are line starts in order (`Bounds`), that a record follows `hi` unless the
file ends there (`HiBeforeRecord`), that the line compared last is outside the
interval (`LeftBehind`) and that a block read backwards stays in the line probed
(`InLine`). From it: the types, `Bracket`, `AtLineStart`, `RoundsUpOrEof` and
the action property `Narrows`, which makes the loop's escapes redundant.

*Of the index*, for every number of lines, versions, crashes and seconds, and with
edits at any moment and of any time. If indexing is not cut short by a crash or an
unreadable text (`Uninterrupted`), the invariant says how the times are ordered
(`Times`, `Stamped`), when the index is open (`OpenWhen`, `OpenedKnown`), that what was
read of the text is still so unless an edit went unnoticed (`Checked`, `Building`,
`Settled`) and that a broken line is never indexed (`Parsed`). From it:
`ServedIsCurrent`, `TrustedIsCurrent`, `UnmodifiedIsCurrent`, and that RecordIndex
implements IndexedFile (`KeepsPromise`). Without that assumption what is left is less:
wherever an index is trusted or may still come to be, its entries are of the text
on disk or missing, unless an edit went unnoticed (`NeverStale`). From it:
`ServedIsNotStale`, which with `IndexTypeOK` holds under all hazards.

**DataFileProofs**, of request processing, for every data file of any number of records
and every request: `NeverWrong`, `Complete`, `DroppedForCause`. The invariant has
one part for each half of the loop. Before a record is chosen (`ChooseInv`) no
instance lies between the OID asked for and the line at hand; while one is evaluated
(`EvaluateInv`) the record is the last or the next that can have what is asked for.
That fewer than `max_broken_records` never hide an instance rests on a bound: the
counter is at most one more than the broken records met (`BrokenMet`), since one behind
a subtree may be counted twice.
The lemmas it rests on: OIDs are in a total order, a record's subtree is an interval of it,
and a finite set of OIDs has a least one.

*Of the pool*, for every set of files and every limit. `TypeOK`, `OpenIsQueued`,
`Bounded` and `OnlyFailedLinger` are inductive together: an eviction removes one entry and
closes its file, and that the file has no other entry, or the list no entry too many,
is what the other parts say. `OkIsServedWithoutFailure` and `ClosedForAReason` are
properties of steps from there.

**BulkResponseProofs**, for every MIB, size, limit and request. `BeginningOfUncut`: the
invariant counts whole rows (`Times`); between rows the response has N + Times * R
var-binds and the names are where that many steps lead (`Repeat`), inside a row what
is left of it is what comes next (`Row`). The link to RFC 3416's numbering is the lemma
`Euclid` on div and mod. `Fits` and `CutForSize` need that the octets the code
counts are those of the response it has built (`Measured`), that is, what a sum
becomes when one is appended.

**WriteCacheProofs**, for every set of data files, settings and requests.
`OneTypeALife` and `NeverDenied`: a value in the cache has the type of its OID
(`TypedCache`), and some record of the OID admits it, also what a crash brings
back from the file (`AllAdmitted`); settings are half parsed only where they
are malformed (`HalfOfMalformed`). `HoldsLastWrite`: while a request is served, what
the cache holds is what its last var-bind so far wrote, or else what was known before
(`Follows`), also when the request fails half way, or the responder ends between two of them.

**ResponderProofs**, for every file system, command line and request.
`StateReleased`, with the counters as the strengthening (`Counting`). `Unambiguous`
and `MostSpecific`: files are registered once for each engine, context engine and name
(`Distinct`), by names the directories give (`Named`), read from options in the
shape the parser left them (`Shape`); the names probed for a request are prefixes of
one another or of two names, and the earlier one weighs more. Both
take as a hypothesis that an MD5 sum is nobody's file name nor another name's
sum (`SumsApart`); the names of MCResponder fulfil it, which TLC evaluates
(`NamesAssumption`). `DataWhereAsked` needs no such hypothesis, but takes the options
as they are read. Each option read so far is in the list it belongs in: the directories of
an engine and those of each of its context engines, which follow one another as
their options do (`Collected`; `Between` and `Reading` say where the loop is). A list that
is complete is what the command line asks for (`Asked`, which looks for owners
over all options at once), as options behind the next engine belong to that one
(`Completed`). From there on, of the directories gone through every name is registered
(`Scanning`, `Listing`), what was registered for earlier engines stays (`MetUpTo`), and
nothing was registered that some option does not ask for (`NoOther`). Names that
are taken must not hide a file of another context: that is why
`data_files` is empty between contexts. `Apart`, which `ResponderAssumption` demands of command
lines, makes engine IDs stand for engines: the example in the help text has `auto` twice
(`responder.py:459`), and any ID may be repeated, but each makes another engine, and
so goes by another name in the model; likewise for context engines below an engine.

**VariationsProofs**, for all records, stores and bounds, within
`SettingsAssumption` and `StoreAssumption`. `HalfReadIsUnused`: a record with bad settings
remembers nothing but that (`Unread`), and no outcome so far is a value of its
(`AllUnused`). `CumulativeNeverFalls`, for settings that do not name `wrap`: the value
told last is a number not above the maximum
(`Told`), so that neither growth nor the bounds can lessen it. `NeverBack`: the
bisection of a list in order finds the place of a number (`BisectIs`, `BisectBounds`), so
a later second has no earlier snapshot, and the record's last outcome is its newest
snapshot (`Stands`, `LastServed`). `CommittedWhenAnswered`: a SET of sql that ends
with its last var-bind leaves nothing uncommitted.

**ReportingProofs**, for any responders. `CountersAgree`, for requests of any number
of var-binds and failures, from the ranges of the counters: each update keeps them in
agreement (`UpdateAgrees`). `NotOverwritten`, from an invariant that relates the names of
the reports there are to the time of the next dump (`Ages`). `Conserved`: what is
counted equals what is in memory, in reports and taken or lost (`Booked`); the sum over a
finite set of reports does not depend on the order it is taken in (`SumWithout`,
`SumOfParts`).

**AgentWalkProofs**, for any agent, range, module, number of retries, and any
errors, time-outs and cuts. `InOrder` and `SuccessIsComplete`: what is recorded
ascends, and ends before what the response at hand starts with (`Forward`); all that
lies between the start and the place of the walk is recorded or at hand, until the first
error (`Unbroken`); of a module that keeps its records elsewhere the data file has
none (`Elsewhere`). It rests on what GETNEXT and GETBULK give of an agent (`ServedPasses`)
and on `oid_after_error`, which goes behind the OID to blame and never back (`Resumes`).

Sums, bisections and walks are recursive functions; what they compute is proved by
looking at the least number (or smallest set) for which it would not hold, since the
induction theorems of the library cannot be applied by the installed provers.

Only model-checked:

- That calls end (`Terminates`, `Ends`) and that requests keep being answered
  (`KeepsServing`): liveness under fairness is out of the prover's reach.
- `KeepsWhatItWalks` (AgentWalkKeeps), which does not hold.

## 5. Where code and documentation disagree

`AgentWalkKeeps` is the one that a run shows: the recorder passes the start OID to a
module as `args.start_object` (`commands/cmd2rec.py:629`), multiplex, redis and sql
read `startOID` (`multiplex.py:345`, `redis.py:357`, `sql.py:253`), the KeyError
ends the walk, and the `return` in the `finally` clause (`cmd2rec.py:834`) turns it
into success. The modules are `ready` and keep the first record at most.

Others limit what a property says, and are noted where it says so:

- `search_record_by_oid` gives up at comments behind the last record
  (`file.py:74`), although `datafile.py:161` says it always rounds up.
  `RoundsUpOrEof`. A GETNEXT for an OID that is not in the index then ends the walk,
  although there are records behind it; `Complete` excepts such OIDs (`MayGiveUp`).
- `dbm.whichdb` does not recognise the index files of some libraries. The comment at
  `database.py:27-31` says that such an index is rebuilt on every start; but
  `dbm.open` (`database.py:255`) raises for it as well, which is not an
  SnmpsimError (`datafile.py:79`), and no request is answered. `Openable`,
  `KeepsServing`, `KeepsPromise`.
- An edit while a text is being indexed is never noticed (`database.py:244`), nor a
  text replaced by an older file (`database.py:105`), nor an edit that leaves the text
  with the time it had, until the next one is. `Unnoticed`, and each property of
  RecordIndex but `KeepsServing`.
- `create` evaluates OIDs only with `--validate-data` (`database.py:200`), and
  request processing then meets a bad OID outside its `try` (`datafile.py:138`):
  a walk never gets past that line. `NeverWrong` allows for it.
  What becomes of the exception is up to pysnmp; Responder leaves it out.
- A file that failed to open keeps its place in the list, and closing it
  raises for another file's request (`datafile.py:61`). `datafile.py:56` admits
  `max_queue_entries + 1` open files, `datafile.py:38` calls it the number of open
  files. `OkIsServedWithoutFailure`, `Bounded`.
- The position is left in front of a record stepped over, which is counted as
  broken twice (`datafile.py:184`): fewer than `max_broken_records` may end a walk.
  `Complete`.
- With more repeaters than `max_var_binds`, no repetition is read (`utils.py:137`),
  although `utils.py:153` means a response never to be empty. `max_var_binds`
  counts repetitions only, `responder.py:420` calls it the maximum number of
  var-binds in a response. `Fits`.
- writecache looks the name of an error up as it is written (`writecache.py:131`), the
  documentation takes it in any case. A list that does not parse fails its
  record's first use; later SETs meet half parsed settings, and may get through
  (`writecache.py:58`). `NeverDenied`.
- GETBULK catches NoDataNotification around the probing only: a module that
  drops the request leaves its state behind (`responder.py:221`). `StateReleased`
  counts these.
- Only the last `--v3-context-engine-id` of an engine gets command responders, and
  v1 and v2c requests find their file by the MD5 sum of the community, so that
  transport and address matter for SNMPv3 only in the full responder. `Specific`.
- A link is served under the name of what it points to, not its own
  (`datafile.py:303`); a dangling one ends the start. `DataFiles`, `ListingFails`.
- multiplex: every SET ends in an exception, snapshots are bisected in the order
  `listdir` returned them, and two data files with a record at one OID share what
  is replayed (`multiplex.py:125-215`). `NeverBack`.
- sql commits at the last var-bind of a SET only and never rolls back, so that a SET
  also commits what a failed one before it left (`sql.py:171`).
  `CommittedWhenAnswered`.
- redis: the search in the ordered list fails for lists of one or two entries and
  raises past the end; OIDs that were SET are listed in another form than
  recorded ones (`redis.py:203-278`). `getNextOid`, `InsertedBehind`.
- Documented ways to switch an option off switch it on (page
  `simulation-with-variation-modules.rst` of the manual). multiplex takes the truth of a
  string (`multiplex.py:134`): `wrap=false` wraps, although the module then "stops
  switching" at the last snapshot (line 524). numeric only looks whether the name is
  there (`numeric.py:118`, `numeric.py:173`): `wrap=0` wraps, although values then "freeze
  when reaching max" (line 176), `cumulative=0` accumulates, for which the manual asks for a
  "non-zero" one (line 189); `atime` is read likewise (`numeric.py:126`,
  line 174). `Given`; hence `NeverBack` and `CumulativeNeverFalls` speak of settings that
  do not name `wrap`.
- delay, error, notification: a list that does not parse stays in pieces, and each
  later request that looks into it raises (`delay.py:119`, `error.py:101`). `InPieces`.
- numeric: `wrap` may exceed the maximum (`numeric.py:169`), and `randrange` is given
  floats. `Within`. delay: an `eq` rule on time never fits. `DelayFor`.
- The report's name has seconds: reports of one format in a shared directory, or
  without a period, overwrite each other (`alljson.py:154`). `NotOverwritten`. `calls` of
  the full reporter is always 1; nothing is dumped at the end of a responder.

## 6. Not modelled, and the plan

- *Record conversion* (`rec2rec`, `lint`): one pass over text files; no state
  between calls. *Pcap and MIB converters*: offline, mostly input and output.
  `pcap2rec` feeds its records to the same modules as `cmd2rec`, so that
  `Recording` holds for it, but its own loop is not modelled.
- *Grammars, endpoints, search paths*: pure parsing and formatting.
- *Daemon, privileges, log files*: calls of the operating system, one after the
  other. Log rotation by time uses an attribute the standard library does not read
  (`log.py`); that needs no model to see.
- *Record index shared* by two data files whose names map to one index file, or by
  two responders: what a reader sees then is up to the DBM backend.
- *Several messages in one datagram* of the lite responder, and which SNMPv1
  error status an exception becomes.
- The network and the SNMP engine below the handlers are libraries.

What could come next, in this order: the loop of `pcap2rec` over the handlers of
`Recording`, with the contexts it fills; an index file shared by two data files or
two responders, as two instances of RecordIndex on one cache directory; an abstract
responder (a table from requests to files) that Responder implements once it serves;
and a module of its own for what several proofs use: least numbers, finite sums and
prefixes.
