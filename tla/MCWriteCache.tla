---------------------------- MODULE MCWriteCache ----------------------------
(***************************************************************************)
(* Two data files that share an OID, as numbers in both of them or as a    *)
(* string in the second one; one has another OID without initial value.    *)
(* The access list of the shared OID's first record allows nothing above   *)
(* 1 but 3, and comes in all the shapes the module tells apart.            *)
(***************************************************************************)
EXTENDS WriteCache

Num(n) == [type |-> "int", n |-> n]
Str(n) == [type |-> "str", n |-> n]

Open == [type |-> "int", value |-> Num(1), eq |-> <<>>, lt |-> NoRule, gt |-> NoRule,
         malformed |-> FALSE, rest |-> {}, status |-> "none", op |-> "any"]

Above(e) == [Open EXCEPT !.eq = [n \in {3} |-> "none"], !.gt = [bound |-> 1, error |-> e]]
Below == [Open EXCEPT !.eq = [n \in {2} |-> "wrongvalue"],
                      !.lt = [bound |-> 1, error |-> "wrongvalue"]]
Bad(rest) == [Open EXCEPT !.malformed = TRUE, !.rest = rest]
Failing(op) == [Open EXCEPT !.status = "commitFailed", !.op = op]

First == {Open, Above("wrongvalue"), Above("wrongValue"), Bad({"gt"}),
          [Bad({}) EXCEPT !.status = "commitfailed", !.op = "get"],
          Failing("set"), Failing("get")}
Second == {Below, [Open EXCEPT !.type = "str", !.value = Str(2)]}
Other == {[Open EXCEPT !.value = NoValue], Failing("any")}

MCRecords ==
    {[k \in {<<"a", 1>>, <<"b", 1>>, <<"a", 2>>} |->
         CASE k = <<"a", 1>> -> x [] k = <<"b", 1>> -> y [] k = <<"a", 2>> -> z] :
       x \in First, y \in Second, z \in Other}

Bind(o, v) == [oid |-> o, exact |-> TRUE, value |-> v]
Request(op, f, vbs) == [op |-> op, file |-> f, var_binds |-> vbs]

MCRequests ==
    {Request("SET", f, <<Bind(1, v)>>) : f \in {"a", "b"}, v \in {Num(2), Str(2)}}
    \cup {Request("SET", "a", <<Bind(o, Num(3)), Bind(3 - o, Num(2))>>) : o \in {1, 2}}
    \cup {Request("SET", "b", <<Bind(1, Num(1)), Bind(1, Num(0))>>)}
    \cup {Request("GET", "b", <<Bind(1, NoValue)>>),
          Request("NEXT", "a", <<Bind(1, NoValue)>>)}
    \cup {Request("GET", "a", <<[Bind(2, NoValue) EXCEPT !.exact = FALSE]>>)}
=============================================================================
