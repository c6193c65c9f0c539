------------------------------- MODULE FileIds -------------------------------
(***************************************************************************)
(* What the file server promises the kernel of the guest about node ids: a *)
(* live id means one path and a path has one live id, and an id, once      *)
(* dropped, is never given to anything again.                              *)
(***************************************************************************)
EXTENDS Naturals

CONSTANTS Ids, Paths, Root

VARIABLES
  path,   \* the path of every live id
  spent   \* ids that were live at some time

Injective(f) == \A i, j \in DOMAIN f : f[i] = f[j] => i = j

\* Another directory is served: all ids start over.
Fresh(f, s) == f \in [{Root} -> Paths] /\ s = {Root}

Init == Fresh(path, spent)

Restart == Fresh(path', spent')

\* Ids are dropped and new ones given out; the rest keep their meaning.
Change ==
  /\ Root \in DOMAIN path'
  /\ \A i \in DOMAIN path \cap DOMAIN path' : path'[i] = path[i]
  /\ (DOMAIN path' \ DOMAIN path) \cap spent = {}
  /\ Injective(path')
  /\ spent \cup DOMAIN path' \subseteq spent'
  /\ spent' \subseteq Ids

Next == Restart \/ Change

Spec == Init /\ [][Next]_<<path, spent>>
=============================================================================
