------------------------------ MODULE Responder ------------------------------
(***************************************************************************)
(* The command responders (snmpsim/commands/responder.py, "full", and      *)
(* responder_lite.py, "lite") from their start to their end: variation     *)
(* modules are loaded and initialised, SNMP engines are configured option  *)
(* by option, each context engine gets the data files of its directories,  *)
(* and then requests are served from the file that probe_context selects.  *)
(*                                                                         *)
(* pysnmp is external: it refuses to register a name twice, hands requests *)
(* to the context engine its responders are registered for, and keeps a    *)
(* state reference per request until it is released.  What a data file     *)
(* makes of a request is left to DataFile.                                 *)
(***************************************************************************)
EXTENDS DataDirectory

CONSTANTS
    Trees,       \* sets of entries of the file system
    CommandLines,\* [arch, options, v3_only]; options are pairs <<name, value>>
    DEFAULT_DIRS,\* confdir.data
    Modules,     \* the number of variation modules
    Requests,    \* [at, ver, engine_id, name, domain, address, pdu]
    MaxHeld      \* bound: state references never released

OptionNames == {"v3-engine-id", "v3-context-engine-id", "v3-user", "v3-auth-key", "v3-auth-proto",
                "v3-priv-key", "v3-priv-proto", "data-dir", "agent-udpv4-endpoint"}

\* An engine ID stands for the engine that is made for it, a context engine ID for
\* the context made below that engine: an ID given again (auto, where pysnmp makes
\* it up, or none at all) makes another one, which goes by another name here.
Apart(options) ==
    \A i, j \in DOMAIN options :
       i < j /\ options[i][1] = options[j][1] /\ options[i][2] = options[j][2] =>
          /\ options[i][1] # "v3-engine-id"
          /\ options[i][1] = "v3-context-engine-id" =>
                \E k \in (i + 1)..(j - 1) : options[k][1] = "v3-engine-id"

ASSUME ResponderAssumption ==
    /\ \A t \in Trees : \A e \in t : IsEntry(e)
    /\ \A c \in CommandLines :
          /\ c.arch \in {"full", "lite"} /\ c.v3_only \in BOOLEAN
          /\ c.options \in Seq({c.options[i] : i \in DOMAIN c.options})
          /\ \A i \in DOMAIN c.options :
                /\ c.options[i][1] \in OptionNames
                /\ c.arch = "lite" => c.options[i][1] = "data-dir"
                /\ c.options[i][1] = "data-dir" => c.options[i][2] \in Seq(STRING)
                /\ c.options[i][1] = "v3-engine-id" => /\ c.options[i][2] # ""
                                                       /\ c.options[i][2] = "auto" => i = 1
          /\ Apart(c.options)
    /\ DEFAULT_DIRS \in Seq(Seq(STRING))
    /\ Modules \in Nat /\ MaxHeld \in Nat
    /\ \A r \in Requests :
          /\ r.pdu \in {"GET", "GETNEXT", "SET", "GETBULK"}
          /\ r.ver # "3" => r.engine_id = SELF_LABEL  \* a community has no other

VARIABLES
    tree, line,     \* the file system, the command line
    pc,
    module,         \* what became of each variation module
    option,         \* the option at hand
    engine,         \* the engine being configured, "" for none
    acc,            \* what the options of this engine have set
    todo,           \* data files of the directory being configured
    at,             \* <<context, directory>> being configured
    instrums,       \* _mib_instrums: the paths of the files configured
    data_files,     \* _data_files: the communities that are taken
    registered,     \* what is served: [engine, context, ident, path]
    communities,    \* <<engine, ident>> of the communities known to pysnmp
    users,          \* USM users: [engine, user, auth, priv]
    responders,     \* <<engine, context>> that command responders serve
    transports,     \* the engine behind each transport ID
    request, held, last, \* being served, state references, the one just ended
    bulks_dropped        \* history: GETBULK requests the full responder dropped

startVars   == <<module, option, engine, acc, todo, at, instrums, data_files>>
contextVars == <<registered, communities, users, responders, transports>>
serveVars   == <<request, held, last, bulks_dropped>>
vars == <<tree, line, pc, startVars, contextVars, serveVars>>

None == [pdu |-> "none"]
INDEX == <<"index">>
NoFile == <<>>
Nothing == [request |-> None, path |-> NoFile, reply |-> "none"]

full == line.arch = "full"

\* "Prepare for next engine ID configuration".
FreshEngine == [contexts |-> <<>>, dirs |-> <<>>, users |-> <<>>, endpoints |-> 0,
                keys |-> {}, protos |-> {}]

Options == (IF line.options = <<>> \/ line.options[1][1] # "v3-engine-id"
            THEN <<<<"v3-engine-id", "auto">>>> ELSE <<>>)
           \o line.options \o <<<<"end-of-options", "">>>>

Init ==
    /\ tree \in Trees /\ line \in CommandLines
    /\ pc = "load" /\ module = [m \in 1..Modules |-> "absent"]
    /\ option = 1 /\ engine = "" /\ acc = FreshEngine
    /\ todo = {} /\ at = <<1, 1>> /\ instrums = {} /\ data_files = {}
    /\ registered = {} /\ communities = {} /\ users = {} /\ responders = {}
    /\ transports = <<>>
    /\ request = None /\ held = 0 /\ bulks_dropped = 0
    /\ last = Nothing

Fail == /\ pc' = "ended"
        /\ UNCHANGED <<tree, line, startVars, contextVars, serveVars>>

---------------------------------------------------------------------------
\* A module that does not execute makes load_variation_modules return 1, which
\* initialize_variation_modules takes for the modules and raises.
LoadModules ==
    /\ pc = "load"
    /\ \/ Fail
       \/ /\ module' = [m \in 1..Modules |-> "loaded"] /\ pc' = "init"
          /\ UNCHANGED <<tree, line, option, engine, acc, todo, at, instrums, data_files,
                         contextVars, serveVars>>

\* Modules fail one by one; one that lacks a handler ends the initialisation of
\* those behind it, and nobody notices.
InitModules ==
    /\ pc = "init"
    /\ \E done \in [1..Modules -> {"ready", "failed", "incomplete"}] :
         module' = [m \in 1..Modules |-> IF \E k \in 1..m : done[k] = "incomplete"
                                         THEN "loaded" ELSE done[m]]
    /\ IF full
       THEN pc' = "options" /\ UNCHANGED <<engine, acc>>
       ELSE /\ pc' = "scan" /\ engine' = "lite"
            /\ acc' = [FreshEngine EXCEPT !.contexts = <<[id |-> SELF_LABEL, dirs |-> <<>>]>>,
                          !.dirs = [i \in 1..Len(line.options) |-> line.options[i][2]]]
    /\ UNCHANGED <<tree, line, option, todo, at, instrums, data_files, contextVars, serveVars>>

---------------------------------------------------------------------------
\* The option loop of the full responder.
Opt == Options[option]

TakeOption(changed) ==
    /\ acc' = changed /\ option' = option + 1
    /\ UNCHANGED <<tree, line, pc, module, engine, todo, at, instrums, data_files,
                   contextVars, serveVars>>

\* --v3-engine-id: the engine configured before it is completed first.
StartEngine ==
    /\ pc = "options" /\ Opt[1] = "v3-engine-id" /\ engine = ""
    /\ engine' = Opt[2] /\ acc' = FreshEngine /\ option' = option + 1
    /\ UNCHANGED <<tree, line, pc, module, todo, at, instrums, data_files, contextVars, serveVars>>

ContextEngine ==
    /\ pc = "options" /\ Opt[1] = "v3-context-engine-id"
    /\ TakeOption([acc EXCEPT !.contexts = Append(@, [id |-> Opt[2], dirs |-> <<>>])])

\* --data-dir belongs to the context engine named last, if any.
DataDir ==
    /\ pc = "options" /\ Opt[1] = "data-dir"
    /\ TakeOption(IF acc.contexts = <<>>
                  THEN [acc EXCEPT !.dirs = Append(@, Opt[2])]
                  ELSE [acc EXCEPT !.contexts[Len(acc.contexts)].dirs = Append(@, Opt[2])])

Endpoint ==
    /\ pc = "options" /\ Opt[1] = "agent-udpv4-endpoint"
    /\ TakeOption([acc EXCEPT !.endpoints = @ + 1])

User == pc = "options" /\ Opt[1] = "v3-user" /\ TakeOption([acc EXCEPT !.users = Append(@, Opt[2])])

\* Keys and protocols are those of the user named last, and given once.
LastUser == acc.users[Len(acc.users)]

Key ==
    /\ pc = "options" /\ Opt[1] \in {"v3-auth-key", "v3-priv-key"}
    /\ IF acc.users = <<>> \/ <<LastUser, Opt[1]>> \in acc.keys THEN Fail
       ELSE TakeOption([acc EXCEPT !.keys = @ \cup {<<LastUser, Opt[1]>>}])

ProtoOf(user, what) == {p \in acc.protos : p[1] = user /\ p[2] = what}

Proto ==
    /\ pc = "options" /\ Opt[1] \in {"v3-auth-proto", "v3-priv-proto"}
    /\ IF acc.users = <<>> \/ ProtoOf(LastUser, Opt[1]) # {} THEN Fail
       ELSE TakeOption([acc EXCEPT !.protos = @ \cup {<<LastUser, Opt[1], Opt[2]>>}])

\* The next engine or the end: data files first, below the default context
\* engine when none is named.
CompleteEngine ==
    /\ pc = "options" /\ Opt[1] \in {"v3-engine-id", "end-of-options"} /\ engine # ""
    /\ acc' = IF acc.contexts = <<>>
              THEN [acc EXCEPT !.contexts = <<[id |-> SELF_LABEL, dirs |-> <<>>]>>] ELSE acc
    /\ pc' = "scan" /\ at' = <<1, 1>>
    /\ UNCHANGED <<tree, line, module, option, engine, todo, instrums, data_files,
                   contextVars, serveVars>>

---------------------------------------------------------------------------
\* configure_managed_objects, a directory and a file at a time.
Context == acc.contexts[at[1]]

Dirs == IF Context.dirs # <<>> THEN Context.dirs
        ELSE IF acc.dirs # <<>> THEN acc.dirs ELSE DEFAULT_DIRS

Scan ==
    /\ pc = "scan" /\ todo = {} /\ at[2] <= Len(Dirs)
    /\ IF ListingFails(Dirs[at[2]], tree) THEN Fail
       ELSE /\ todo' = DataFiles(Dirs[at[2]], tree) /\ pc' = "files"
            /\ UNCHANGED <<tree, line, module, option, engine, acc, at, instrums, data_files,
                           contextVars, serveVars>>

Md5(name) == <<"md5 of">> \o name \o <<"!">>

\* What file, context, domain and host names consist of, where the MD5 sum of a
\* name is not the name of another file.
SumsApart(Names) ==
    /\ {SELF_LABEL, "index"} \subseteq Names /\ Names \cap {"md5 of", "!"} = {}
    /\ \A t \in Trees : \A e \in t : e.to \in Seq(Names)
    /\ \A r \in Requests : /\ r.name \in Seq(Names)
                           /\ {r.engine_id, r.domain, r.address} \subseteq Names

Registered(ident, path) == [engine |-> engine, context |-> Context.id, ident |-> ident, path |-> path]

NameTaken(ident) == \E r \in registered : /\ r.engine = engine /\ r.context = Context.id
                                          /\ r.ident = ident

\* A mutant of Register: the file of a name that is taken stays.
RegisterToo(f) ==
    /\ registered' = registered \cup {Registered(f.ident, f.path)}
    /\ communities' = IF full /\ line.v3_only THEN communities
                      ELSE communities \cup {<<engine, f.ident>>}
    /\ UNCHANGED <<tree, line, pc, module, option, engine, acc, at, users, responders,
                   transports, serveVars>>

\* The file is served under its community: SnmpContext refuses a name that is
\* registered, the dictionary of the lite responder is overwritten.
Register(f) ==
    /\ registered' = {r \in registered : full \/ r.ident # f.ident}
                        \cup {Registered(f.ident, f.path)}
    /\ communities' = IF full /\ line.v3_only THEN communities
                      ELSE communities \cup {<<engine, f.ident>>}
    /\ UNCHANGED <<tree, line, pc, module, option, engine, acc, at, users, responders,
                   transports, serveVars>>

ConfigureDuplicate ==
    /\ pc = "files"
    /\ \E f \in todo : f.ident \in data_files /\ todo' = todo \ {f}
    /\ UNCHANGED <<tree, line, pc, module, option, engine, acc, at, instrums, data_files,
                   contextVars, serveVars>>

\* A path met before under another name: *shared*.  _data_files is not told.
ConfigureShared ==
    /\ pc = "files"
    /\ \E f \in todo :
         /\ f.ident \notin data_files /\ f.path \in instrums
         /\ IF full /\ NameTaken(f.ident) THEN Fail
            ELSE Register(f) /\ todo' = todo \ {f} /\ UNCHANGED <<instrums, data_files>>

ConfigureFile ==
    /\ pc = "files"
    /\ \E f \in todo :
         /\ f.ident \notin data_files /\ f.path \notin instrums
         /\ IF full /\ NameTaken(f.ident) THEN Fail
            ELSE /\ Register(f) /\ todo' = todo \ {f}
                 /\ instrums' = instrums \cup {f.path}
                 /\ data_files' = data_files \cup {f.ident}

\* The next directory.
EndFiles ==
    /\ pc = "files" /\ todo = {}
    /\ pc' = "scan" /\ at' = <<at[1], at[2] + 1>>
    /\ UNCHANGED <<tree, line, module, option, engine, acc, todo, instrums, data_files,
                   contextVars, serveVars>>

\* A mutant of EndContext: the names taken in this context stay taken.
EndContextKeeps ==
    /\ pc = "scan" /\ at[2] > Len(Dirs)
    /\ IF at[1] < Len(acc.contexts) THEN at' = <<at[1] + 1, 1>> /\ pc' = "scan"
                                    ELSE pc' = "finish" /\ UNCHANGED at
    /\ UNCHANGED <<tree, line, module, option, engine, acc, todo, instrums, data_files,
                   contextVars, serveVars>>

\* The next context engine.
EndContext ==
    /\ pc = "scan" /\ at[2] > Len(Dirs)
    /\ instrums' = {} /\ data_files' = {}
    /\ IF at[1] < Len(acc.contexts) THEN at' = <<at[1] + 1, 1>> /\ pc' = "scan"
                                    ELSE pc' = "finish" /\ UNCHANGED at
    /\ UNCHANGED <<tree, line, module, option, engine, acc, todo, contextVars, serveVars>>

---------------------------------------------------------------------------
\* A protocol without a key is an error; a key without a protocol means MD5 or
\* DES, neither none, and privacy needs authentication.
Chosen(user, key, proto, default) ==
    IF <<user, key>> \notin acc.keys THEN IF ProtoOf(user, proto) = {} THEN "NONE" ELSE "error"
    ELSE IF ProtoOf(user, proto) = {} THEN default
    ELSE (CHOOSE p \in ProtoOf(user, proto) : TRUE)[3]

UsmUser(user) == [engine |-> engine, user |-> user,
                  auth |-> Chosen(user, "v3-auth-key", "v3-auth-proto", "MD5"),
                  priv |-> Chosen(user, "v3-priv-key", "v3-priv-proto", "DES")]

BadUser(u) == "error" \in {u.auth, u.priv} \/ (u.auth = "NONE" /\ u.priv # "NONE")

UsmUsers == IF acc.users = <<>>
            THEN {[engine |-> engine, user |-> "simulator", auth |-> "MD5", priv |-> "DES"]}
            ELSE {UsmUser(acc.users[i]) : i \in 1..Len(acc.users)}

\* Users, the data index, transports and responders.  What the loop over the
\* context engines left in snmp_context is the last of them.
FinishEngine ==
    /\ pc = "finish" /\ full
    /\ IF NameTaken(INDEX) \/ (\E u \in UsmUsers : BadUser(u)) \/ acc.endpoints = 0 THEN Fail
       ELSE /\ users' = users \cup UsmUsers
            /\ registered' = registered \cup {Registered(INDEX, INDEX)}
            /\ communities' = communities \cup {<<engine, INDEX>>}
            /\ responders' = responders \cup {<<engine, Context.id>>}
            /\ transports' = transports \o [i \in 1..acc.endpoints |-> engine]
            /\ pc' = IF Opt[1] = "end-of-options" THEN "serve" ELSE "options"
            /\ engine' = ""
            /\ UNCHANGED <<tree, line, module, option, acc, todo, at, instrums, data_files, serveVars>>

FinishLite ==
    /\ pc = "finish" /\ ~full
    /\ registered' = {r \in registered : r.ident # INDEX} \cup {Registered(INDEX, INDEX)}
    /\ responders' = {<<engine, SELF_LABEL>>} /\ transports' = <<engine>>
    /\ pc' = "serve"
    /\ UNCHANGED <<tree, line, startVars, communities, users, serveVars>>

---------------------------------------------------------------------------
\* Requests.  pysnmp drops those for a context engine without responders, and
\* those with a community it does not know; it turns a community into the
\* context name add_v1_system was given.
V3(r) == r.ver = "3"

Arrives(r) ==
    /\ r.at \in {transports[i] : i \in 1..Len(transports)}
    /\ IF full THEN /\ <<r.at, r.engine_id>> \in responders
                    /\ V3(r) \/ <<r.at, r.name>> \in communities
               ELSE ~V3(r)

Receive ==
    /\ pc = "serve" /\ request = None /\ held <= MaxHeld
    /\ \E r \in Requests : Arrives(r) /\ request' = r
    /\ held' = IF full THEN held + 1 ELSE held
    /\ last' = Nothing
    /\ UNCHANGED <<tree, line, pc, startVars, contextVars, bulks_dropped>>

ContextName(r) == IF full /\ ~V3(r) /\ r.name # INDEX THEN Md5(r.name) ELSE r.name

Candidates(r) == probe_context(r.engine_id, ContextName(r), r.domain, r.address)

\* A data file is known by its name and the full responder's by its MD5 sum too:
\* a name of more than 32 octets by nothing else, but then it is hashed to look
\* it up as well.
Matches(c, d, r) == /\ d.engine = r.at /\ d.context = r.engine_id
                    /\ c = d.ident \/ (full /\ c = Md5(d.ident))

Selected(r) ==
    LET all  == Candidates(r)
        hits == {k \in 1..Len(all) : \E d \in registered : Matches(all[k], d, r)}
        fallback == {d \in registered : full /\ Matches(ContextName(r), d, r)}
    IN  IF hits = {} THEN {d.path : d \in fallback}
        ELSE LET k == CHOOSE i \in hits : \A j \in hits : i <= j
             IN  {d.path : d \in {e \in registered : Matches(all[k], e, r)}}

\* The outcomes of processing: of the data file at path, or of the data index.
Outcomes(path, pdu) == IF path = INDEX THEN {"values", "exception"}
                       ELSE {"values", "exception", "nodata", "error"}
                               \cup (IF pdu = "GETBULK" /\ full THEN {"empty"} ELSE {})

Unanswered(reply) == full /\ reply = "dropped" /\ request.pdu = "GETBULK"

\* A mutant of Answered: an error reply leaves the state reference.
AnsweredForgetting(path, reply, released) ==
    /\ pc = "serve" /\ request # None
    /\ last' = [request |-> request, path |-> path, reply |-> reply]
    /\ request' = None
    /\ held' = IF full /\ released /\ reply # "error" THEN held - 1 ELSE held
    /\ bulks_dropped' = IF Unanswered(reply) THEN bulks_dropped + 1 ELSE bulks_dropped
    /\ UNCHANGED <<tree, line, pc, startVars, contextVars>>

Answered(path, reply, released) ==
    /\ pc = "serve" /\ request # None
    /\ last' = [request |-> request, path |-> path, reply |-> reply]
    /\ request' = None /\ held' = IF full /\ released THEN held - 1 ELSE held
    /\ bulks_dropped' = IF Unanswered(reply) THEN bulks_dropped + 1 ELSE bulks_dropped
    /\ UNCHANGED <<tree, line, pc, startVars, contextVars>>

\* No such context: pysnmp answers with an error, the lite responder not at all.
NotSelected == /\ request # None /\ Selected(request) = {}
               /\ Answered(NoFile, IF full THEN "error" ELSE "dropped", TRUE)

\* The four handlers of the full responder: NoDataNotification drops the
\* request, but GETBULK's does not release its state reference then.
HandleFull ==
    /\ request # None /\ full
    /\ \E path \in Selected(request) : \E outcome \in Outcomes(path, request.pdu) :
         CASE outcome \in {"values", "exception"} -> Answered(path, outcome, TRUE)
           [] outcome \in {"error", "empty"} -> Answered(path, "error", TRUE)
           [] outcome = "nodata" -> Answered(path, "dropped", request.pdu # "GETBULK")

\* The lite responder drops all errors; SNMPv1 has no exceptions and no GETBULK.
HandleLite ==
    /\ request # None /\ ~full
    /\ \E path \in Selected(request) : \E outcome \in Outcomes(path, request.pdu) :
         Answered(path,
                  IF outcome \in {"nodata", "error"} \/ (request.ver = "1" /\ request.pdu = "GETBULK")
                  THEN "dropped"
                  ELSE IF outcome = "exception" /\ request.ver = "1" THEN "error" ELSE outcome,
                  TRUE)

\* Interrupted, or timed out: shutdown of every module, whatever became of it.
Shutdown ==
    /\ pc = "serve" /\ request = None
    /\ pc' = "ended" /\ module' = [m \in 1..Modules |-> "down"]
    /\ UNCHANGED <<tree, line, option, engine, acc, todo, at, instrums, data_files,
                   contextVars, serveVars>>

ReadOption == \/ StartEngine \/ ContextEngine \/ DataDir \/ Endpoint \/ User \/ Key \/ Proto
              \/ CompleteEngine
Configure == \/ Scan \/ ConfigureDuplicate \/ ConfigureShared \/ ConfigureFile \/ EndFiles
             \/ EndContext \/ FinishEngine \/ FinishLite
Serve == Receive \/ NotSelected \/ HandleFull \/ HandleLite

Next == LoadModules \/ InitModules \/ ReadOption \/ Configure \/ Serve \/ Shutdown

Start == LoadModules \/ InitModules \/ ReadOption \/ Configure

(***************************************************************************)
(* Starting up is one thread that does not wait for anything; requests and *)
(* the end come when they come.                                            *)
(***************************************************************************)
Spec == Init /\ [][Next]_vars /\ WF_vars(Start) /\ WF_vars(NotSelected \/ HandleFull \/ HandleLite)

---------------------------------------------------------------------------
\* The option a --data-dir belongs to: the context engine or engine named last.
Owner(n) == CHOOSE k \in 1..(n - 1) :
               /\ Options[k][1] \in {"v3-engine-id", "v3-context-engine-id"}
               /\ \A j \in (k + 1)..(n - 1) :
                     Options[j][1] \notin {"v3-engine-id", "v3-context-engine-id"}

DirsOf(k) == {Options[n][2] : n \in {n \in DOMAIN Options : Options[n][1] = "data-dir" /\ Owner(n) = k}}

EngineOf(n) == CHOOSE k \in 1..n : /\ Options[k][1] = "v3-engine-id"
                                   /\ \A j \in (k + 1)..n : Options[j][1] # "v3-engine-id"

OptionsNamed(name) == {n \in DOMAIN Options : Options[n][1] = name}
ContextsOf(k) == {n \in OptionsNamed("v3-context-engine-id") : EngineOf(n) = k}

FirstGiven(a, b) == IF a # {} THEN a ELSE IF b # {} THEN b ELSE {DEFAULT_DIRS[i] : i \in 1..Len(DEFAULT_DIRS)}

\* What the command line asks for: each context engine with its directories.
Asked == {[engine |-> Options[EngineOf(n)][2], context |-> Options[n][2],
           dirs |-> FirstGiven(DirsOf(n), DirsOf(EngineOf(n)))] :
             n \in OptionsNamed("v3-context-engine-id")}
         \cup
         {[engine |-> Options[k][2], context |-> SELF_LABEL, dirs |-> FirstGiven(DirsOf(k), {})] :
             k \in {k \in OptionsNamed("v3-engine-id") : ContextsOf(k) = {}}}

FilesFor(a) == UNION {DataFiles(d, tree) : d \in a.dirs}
ServedBy(a) == {r \in registered : /\ r.engine = a.engine /\ r.context = a.context
                                   /\ r.ident # INDEX}

(* Whatever the options and the order directories are listed in: once the  *)
(* responder serves, every context engine has the data files of the        *)
(* directories given for it, else for its engine, else the default ones,   *)
(* each name once, and no file of another engine or context                *)
(* (responder.py:661-781, 835-870, 1055-1075).                             *)
DataWhereAsked ==
    (pc = "serve" /\ full) =>
        /\ \A r \in registered : \E a \in Asked : r.engine = a.engine /\ r.context = a.context
        /\ \A a \in Asked :
              /\ {r.ident : r \in ServedBy(a)} = {f.ident : f \in FilesFor(a)} \ {INDEX}
              /\ \A r \in ServedBy(a) : \E f \in FilesFor(a) : f.ident = r.ident /\ f.path = r.path

(* No request could be answered from two files: names are unique in their  *)
(* context, also where a name is served by its MD5 sum and where one file  *)
(* is reached through nested directories (responder.py:692-760,            *)
(* responder_lite.py:322-357).                                             *)
Unambiguous == pc = "serve" =>
    \A r \in Requests : \A p, q \in Selected(r) : p = q

\* How specific a name is for a request, 0 when it is not meant: SNMPv1 and v2c
\* reach the full responder under the MD5 sum of the community, so that only
\* the file of that very community applies.
Prefix(s, t) == Len(s) <= Len(t) /\ SubSeq(t, 1, Len(s)) = s

Specific(ident, r) ==
    LET name == r.name \o <<r.domain, r.address>>
    IN  IF full /\ ~V3(r) /\ r.name # INDEX THEN (IF ident = r.name THEN 1 ELSE 0)
        ELSE IF ident = <<>> THEN (IF r.name = <<>> THEN 1 ELSE 0)
        ELSE IF Prefix(ident, <<r.engine_id>> \o name) THEN 1 + Len(name) + Len(ident)
        ELSE IF Prefix(ident, name) THEN 1 + Len(ident) ELSE 0

(* A request is answered from a file meant for it, and no file that is     *)
(* meant for it more specifically - by context engine, context name,       *)
(* transport domain or address - is passed over (datafile.py:343-373,      *)
(* responder.py:78-149, responder_lite.py:413-450).                        *)
MostSpecific == last.path # NoFile =>
    LET r == last.request
        mine == {d \in registered : d.engine = r.at /\ d.context = r.engine_id}
    IN  \E d \in mine : /\ d.path = last.path /\ Specific(d.ident, r) > 0
                       /\ \A e \in mine : Specific(e.ident, r) <= Specific(d.ident, r)

(* The state pysnmp keeps for a request is released however the request    *)
(* ends, by an answer, an error or a module that drops it - but for every  *)
(* GETBULK that is dropped, one is kept for good (responder.py:152-267,    *)
(* where NoDataNotification is caught around the probing only).            *)
StateReleased == held = bulks_dropped + IF full /\ request # None THEN 1 ELSE 0
=============================================================================
