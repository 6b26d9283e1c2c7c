----------------------------- MODULE MCAgentWalk -----------------------------
(***************************************************************************)
(* Agents of up to three OIDs in three subtrees, the walk starting above   *)
(* two of them and ending before the second or nowhere, with up to three   *)
(* retries, two var-binds a response and three passes.                     *)
(***************************************************************************)
EXTENDS AgentWalk

CONSTANTS MaxServed  \* bound: the OIDs of the agent

Oids == {<<1, 0, 0>>, <<1, 0, 1>>, <<1, 0, 2>>, <<1, 1>>, <<1, 1, 0>>, <<2, 5>>}

AgentsDef == {s \in SUBSET Oids : \E n \in 0..MaxServed : \E f \in [1..n -> Oids] :
                                       s = {f[i] : i \in 1..n}}
Start == <<1>>
StopsDef == {NoStop, <<1, 1>>}
=============================================================================
