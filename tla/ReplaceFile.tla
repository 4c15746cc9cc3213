----------------------------- MODULE ReplaceFile -----------------------------
(***************************************************************************)
(* A file that programs replace by writing `<name>.tmp` and renaming it,   *)
(* or overwrite in place: tide-local.mjs does both, session.rs does both.  *)
(* A name is "path" or "tmp".  `on` says under which name the file lies    *)
(* that a writer has open: a rename carries the open file along.           *)
(***************************************************************************)
LOCAL INSTANCE Naturals

Absent == [is |-> "absent"]
Empty == [is |-> "empty"]
Torn == [is |-> "torn"]
Whole(c) == [is |-> "whole", of |-> c]

Contents(C) == {Absent, Empty, Torn} \cup [is: {"whole"}, of: C]
Files(C, W) == [path: Contents(C), tmp: Contents(C),
                on: [W -> {"none", "path", "tmp"}]]

NewFile(content, W) ==
    [path |-> content, tmp |-> Absent, on |-> [w \in W |-> "none"]]

\* open(name, O_TRUNC | O_CREAT), the first half of writeFile and fs::write.
Opened(f, name, w) == [f EXCEPT ![name] = Empty, !.on[w] = name]

Closed(f, W) ==
    [f EXCEPT !.on = [w \in DOMAIN f.on |-> IF w \in W THEN "none" ELSE f.on[w]]]

(***************************************************************************)
(* The other half: the content is written and the file closed.  What       *)
(* another writer put into the same file since it was truncated stays      *)
(* where it is longer.  The file may have lost its name meanwhile.         *)
(***************************************************************************)
Overlaid(old, c) ==
    IF old \in {Empty, Whole(c)} THEN {Whole(c)} ELSE {Whole(c), Torn}

Filled(f, w, c) ==
    IF f.on[w] = "none" THEN {f}
    ELSE {[f EXCEPT ![f.on[w]] = new, !.on[w] = "none"] :
             new \in Overlaid(f[f.on[w]], c)}

\* A write that fails after a part of it: the file is closed as it is.
Broken(f, w) ==
    IF f.on[w] = "none" THEN f
    ELSE [f EXCEPT ![f.on[w]] = Torn, !.on[w] = "none"]

\* rename(tmp, path), which fails when there is no tmp.
Renamed(f) ==
    [path |-> f.tmp, tmp |-> Absent,
     on |-> [w \in DOMAIN f.on |-> IF f.on[w] = "tmp" THEN "path" ELSE "none"]]
=============================================================================
