----------------------------- MODULE MCResponder -----------------------------
(***************************************************************************)
(* Two data directories, one inside of the other, and one more reached     *)
(* through a link; command lines with two engines, two context engines,    *)
(* repeated users and nothing at all; requests for each name there is,     *)
(* from a known address and others.                                        *)
(***************************************************************************)
EXTENDS Responder

File(path) == [at |-> path, to |-> path, kind |-> "record"]
Link(path, to, kind) == [at |-> path, to |-> to, kind |-> kind]

Base == {File(<<"d", "public">>), File(<<"d", "sub", "public">>), File(<<"e", "public">>),
         File(<<"e", "self", "ctx">>)}

TreesDef == {Base,
             Base \cup {File(<<"d", "public", "udp">>), File(<<"d", "public", "udp", "near">>),
                        File(<<"d", "eid", "public">>)},
             Base \cup {Link(<<"d", "alias">>, <<"e", "public">>, "record"),
                        Link(<<"e", "gone">>, <<"nowhere">>, "missing")},
             Base \cup {File(<<"d", "index">>), Link(<<"d", "notes">>, <<"d", "notes">>, "other"),
                        File(<<"d", "sub", "only">>), File(<<"e", "only">>),
                        Link(<<"d", "again">>, <<"d", "sub", "public">>, "record")}}

D == <<"data-dir", <<"d">>>>
Sub == <<"data-dir", <<"d", "sub">>>>
E == <<"data-dir", <<"e">>>>
On == <<"agent-udpv4-endpoint", "port">>
Eng(x) == <<"v3-engine-id", x>>
Ctx(x) == <<"v3-context-engine-id", x>>
Usr(x) == <<"v3-user", x>>
Opt2(x) == <<x, "key">>

Full(options, v3_only) == [arch |-> "full", options |-> options, v3_only |-> v3_only]
Lite(options) == [arch |-> "lite", options |-> options, v3_only |-> FALSE]

CommandLinesDef ==
    {Full(<<On>>, FALSE),
     Full(<<D, Sub, On>>, FALSE), Full(<<D, Sub, E, On>>, FALSE),
     Full(<<D, E, On>>, TRUE),
     Full(<<Eng("one"), D, On, Eng("two"), E, On, On>>, FALSE),
     Full(<<Eng("one"), D, On, Eng("two"), On>>, FALSE),
     Full(<<Ctx("eid"), D, Ctx("other"), E, On>>, FALSE),
     Full(<<E, Ctx("other"), D, Ctx("eid"), On>>, TRUE),
     Full(<<D, Usr("u"), Opt2("v3-auth-key"), <<"v3-auth-proto", "SHA">>, Opt2("v3-priv-key"), On>>, FALSE),
     Full(<<D, Usr("u"), Opt2("v3-priv-key"), <<"v3-priv-proto", "AES">>, On>>, FALSE),
     Full(<<D, Usr("u"), Opt2("v3-auth-key"), Usr("u"), Opt2("v3-auth-key"), On>>, FALSE),
     Full(<<Eng("one"), Usr("u"), On, D, Eng("two"), <<"v3-auth-proto", "SHA">>, On>>, FALSE),
     Full(<<D, Usr("u"), <<"v3-priv-proto", "AES">>>>, FALSE),
     Lite(<<>>), Lite(<<D>>), Lite(<<D, Sub, E>>), Lite(<<E, D>>)}

Default == <<<<"e">>>>

From(en, ver, engine_id, name, address, pdu) ==
    [at |-> en, ver |-> ver, engine_id |-> engine_id, name |-> name,
     domain |-> "udp", address |-> address, pdu |-> pdu]

RequestsDef ==
    {From("auto", v, SELF_LABEL, n, a, "GET") :
        v \in {"2c", "3"}, n \in {<<"public">>, <<"ctx">>, INDEX}, a \in {"near", "far"}}
    \cup {From("auto", v, SELF_LABEL, <<"public">>, "far", "GETBULK") : v \in {"1", "2c", "3"}}
    \cup {From(en, "3", c, <<"public">>, "near", "SET") :
             en \in {"one", "two"}, c \in {SELF_LABEL, "eid"}}
    \cup {From("auto", "3", c, <<"public">>, "near", "GET") : c \in {"eid", "other"}}
    \cup {From("lite", v, SELF_LABEL, n, a, p) :
             v \in {"1", "2c"}, n \in {<<"public">>, <<"sub", "public">>, <<"only">>, INDEX},
             a \in {"near", "far"}, p \in {"GET", "GETBULK"}}

NamesDef == {"self", "index", "d", "e", "sub", "ctx", "public", "only", "again", "notes", "udp",
             "near", "far", "eid", "other", "nowhere"}

ASSUME NamesAssumption == SumsApart(NamesDef)
=============================================================================
