--------------------------- MODULE MCRecordIndex ----------------------------
(***************************************************************************)
(* A text of two lines with up to four versions, one of them broken and    *)
(* one with a bad OID, and a few seconds.                                  *)
(***************************************************************************)
EXTENDS RecordIndex

MCVersions == 0..3
MCBroken == {1}
MCBadOids == {2}
=============================================================================
