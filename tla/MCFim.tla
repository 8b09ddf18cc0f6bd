------------------------------- MODULE MCFim -------------------------------
(* Instances of the file monitoring: two directories on two filesystems, a *)
(* name that is hidden and one that nobody watches, and for the integrity  *)
(* check three files below two target paths that share one.                *)
EXTENDS Fim

CONSTANTS home, mnt, h1, h2, t1, out, m1, i1, i2, i3, u, v

(* A directory configured for all events, with two files and one with the  *)
(* name of a temporary file, and a path nobody watches; on the second      *)
(* filesystem a directory configured for changes of the content.           *)
FivePaths  == {h1, h2, t1, out, m1}
DirOf      == [p \in FivePaths |-> CASE p = out -> Unwatched [] p = m1 -> mnt [] OTHER -> home]
FsOf       == [p \in FivePaths |-> IF p = m1 THEN mnt ELSE home]
HomeFilter == [d \in {home, mnt} |-> IF d = home THEN Types ELSE {"MODIFY", "ATTRIB"}]

(* Two files with one number, and a file to be created with another.       *)
FirstPaths == [i \in {i1, i2, i3} |-> CASE i = i1 -> h1 [] i = i2 -> m1 [] i = i3 -> Nowhere]
NumberOf   == [i \in {i1, i2, i3} |-> IF i = i3 THEN 2 ELSE 1]

CONSTANTS f1, f2, f3, d1, d2
ThreeFiles == {f1, f2, f3}
TwoTargets == <<{f1, f2}, {f2, f3}>>
=============================================================================
