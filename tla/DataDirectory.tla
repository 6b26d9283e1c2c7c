---------------------------- MODULE DataDirectory ----------------------------
(***************************************************************************)
(* How a data file gets the community or context name it is served under,  *)
(* and which names a request is looked up by: get_data_files and           *)
(* probe_context (snmpsim/datafile.py).                                    *)
(*                                                                         *)
(* A path is the sequence of its names, the extension of a data file left  *)
(* out.  A link has the extension of the file it points to.                *)
(***************************************************************************)
EXTENDS Integers, Sequences

SELF_LABEL == "self"

Beneath(dir, path) == Len(path) > Len(dir) /\ SubSeq(path, 1, Len(dir)) = dir

(***************************************************************************)
(* An entry of the file system: the path it is listed at, and the path of  *)
(* what is there, another one for a symbolic link: process_symlink goes on *)
(* with the path pointed to.  "missing" is a link that points nowhere.     *)
(***************************************************************************)
IsEntry(e) == e.kind \in {"record", "other", "missing"} /\ e.at # <<>> /\ e.to # <<>>

Listed(dir, tree) == {e \in tree : Beneath(dir, e.at)}

\* os.stat raises on a link that points nowhere.
ListingFails(dir, tree) == \E e \in Listed(dir, tree) : e.kind = "missing"

WithoutSelf(path) ==
    LET inside == IF Len(path) > 1 /\ path[1] = SELF_LABEL THEN Tail(path) ELSE path
    IN  IF inside = <<SELF_LABEL>> THEN <<>> ELSE inside

\* The name of the file at full_path: what is left of it below the directory,
\* counting names only - full_path need not lie beneath it.
Ident(full_path, dir) == WithoutSelf(SubSeq(full_path, Len(dir) + 1, Len(full_path)))

\* get_data_files lists them in any order.
DataFiles(dir, tree) == {[path |-> e.to, ident |-> Ident(e.to, dir)] :
                            e \in {f \in Listed(dir, tree) : f.kind = "record"}}

\* A mutant of Shortening: the least specific first.
ShorteningUp(parts) == [k \in 1..Len(parts) |-> SubSeq(parts, 1, k)]

\* The names to look a request up by, the most specific first: once below the
\* context engine ID, then in the layout without it.
Shortening(parts) == [k \in 1..Len(parts) |-> SubSeq(parts, 1, Len(parts) - k + 1)]

probe_context(engine_id, context_name, domain, address) ==
    Shortening(<<engine_id>> \o context_name \o <<domain, address>>)
        \o Shortening(context_name \o <<domain, address>>)
=============================================================================
