----------------------------- MODULE MCReporting -----------------------------
(***************************************************************************)
(* Two responders with each kind of reporter, periods from none to two     *)
(* seconds, whose reports meet in one directory and do not.                *)
(***************************************************************************)
EXTENDS Reporting

Setup(kind, period, lite, dir) == [kind |-> kind, period |-> period, lite |-> lite, dir |-> dir]

Pair(first, second) == [p \in {1, 2} |-> IF p = 1 THEN first ELSE second]

SetupsDef ==
    {Pair(Setup("full", 1, FALSE, "d"), Setup("minimal", 2, FALSE, "d")),
     Pair(Setup("minimal", 1, TRUE, "d"), Setup("minimal", 2, FALSE, "d")),
     Pair(Setup("full", 0, FALSE, "d"), Setup("full", 1, TRUE, "e")),
     Pair(Setup("full", 1, FALSE, "d"), Setup("null", 1, FALSE, "e"))}
=============================================================================
