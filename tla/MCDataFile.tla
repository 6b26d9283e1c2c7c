----------------------------- MODULE MCDataFile -----------------------------
(***************************************************************************)
(* Files of up to four records at the OIDs 1, 2, 3 and 4, where a subtree  *)
(* record serves a first and a third OID below itself or none at all, and  *)
(* requests for OIDs at, between, below and around them.                   *)
(***************************************************************************)
EXTENDS DataFile

CONSTANT KindsInUse   \* the kinds of records in use

Plain(k) == [kind |-> k, inner |-> {}]

\* What may stand at <<n>>.
RecordsAt(n) ==
    {Plain(k) : k \in KindsInUse}
    \cup (IF "subtree" \in KindsInUse
          THEN {[kind |-> "subtree", inner |-> {<<n, 1>>, <<n, 3>>}]} ELSE {})
    \cup {Plain("none")}

Layouts == {<<a, b, c, d>> : a \in RecordsAt(1), b \in RecordsAt(2),
                             c \in RecordsAt(3), d \in RecordsAt(4)}

Record(l, n) == [oid |-> <<n>>, kind |-> l[n].kind, inner |-> l[n].inner]

MCDataFiles == {SelectSeq([n \in 1..4 |-> Record(l, n)], LAMBDA r : r.kind # "none") :
                   l \in Layouts}

WalkOids == {<<n>> : n \in 0..4} \cup {<<m, n>> : m \in {1, 2, 4}, n \in 2..3}

OtherOids == {<<1>>, <<4>>, <<2, 2>>, <<2, 3>>}

One == {[flag |-> "NEXT", var_binds |-> <<o>>] : o \in WalkOids}
       \cup {[flag |-> f, var_binds |-> <<o>>] : f \in {"GET", "SET"}, o \in OtherOids}

Two == {[flag |-> f, var_binds |-> <<<<2, 2>>, <<3>>>>] : f \in {"GET", "NEXT"}}

MCRequests == One \cup Two

MCLosses == {{}, {3, 5}}
=============================================================================
