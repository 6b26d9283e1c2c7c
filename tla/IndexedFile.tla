---------------------------- MODULE IndexedFile -----------------------------
(***************************************************************************)
(* What the index of a data file promises (CHANGES.rst:434, "automatic     *)
(* online data file index rebuild"): every request is answered from the    *)
(* text as it is on disk at that moment, or with an error when that text   *)
(* cannot be indexed.  When the index is built, and how often, is left to  *)
(* the implementation.                                                     *)
(*                                                                         *)
(* Two things it does not promise.  After an edit that goes unnoticed an   *)
(* answer may come from an index of another text, until the index is built *)
(* again; and an index in a format that dbm.whichdb does not recognise     *)
(* serves nothing.                                                         *)
(***************************************************************************)
EXTENDS Integers

CONSTANTS Versions,    \* the versions of the text, natural numbers in order of writing
          Broken       \* the versions that do not parse

VARIABLES version,     \* the version of the text on disk
          answered,    \* the version the last request was answered from
          unnoticed,   \* an edit went unnoticed since the index was built
          servable     \* the format of the index is recognised

None == -1
Error == -2
Mixed == -3
Unhandled == -4

vars == <<version, answered, unnoticed, servable>>

Init == /\ version = 0 /\ answered = None
        /\ unnoticed = FALSE /\ servable \in BOOLEAN

Edit == /\ \E v \in Versions : v > version /\ version' = v
        /\ unnoticed' \in {unnoticed, TRUE}
        /\ UNCHANGED <<answered, servable>>

Build == unnoticed' = FALSE /\ UNCHANGED <<version, answered, servable>>

Answer == /\ \/ version \in Broken /\ answered' = Error
             \/ version \notin Broken /\ servable /\ answered' = version
             \/ unnoticed /\ servable /\ answered' = Mixed
             \/ ~servable /\ answered' = Unhandled
          /\ UNCHANGED <<version, unnoticed, servable>>

Next == Edit \/ Build \/ Answer

Spec == Init /\ [][Next]_vars
=============================================================================
