--------------------------- MODULE MCBulkResponse ---------------------------
(***************************************************************************)
(* Four instances of one or three octets each and requests for up to three *)
(* var-binds at, between and behind them.  Six octets hold two to         *)
(* six of them, so that every place of a row is the one where a response   *)
(* is cut, and not a single var-bind of eight octets.                      *)
(***************************************************************************)
EXTENDS BulkResponse

MCSizes == [1..Instances -> {1, 3}] \cup {[i \in 1..Instances |-> 8]}

MCSilences == {{}, {2}, {Instances}}

Names == UNION {[1..n -> {0, 2, Instances}] : n \in 0..3}

MCRequests == [var_binds : Names, non_repeaters : 0..2, max_repetitions : 0..3]
=============================================================================
