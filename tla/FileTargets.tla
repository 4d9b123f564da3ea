------------------------------ MODULE FileTargets ------------------------------
(***************************************************************************)
(* The targets of a file turn (src/src/files.ts). A target is a resolved   *)
(* path that names a file, or a directory with all that is in it, now or   *)
(* later. Which path a name resolves to is the file system's business and  *)
(* left out; a resolved path is the sequence of the names in it.           *)
(*                                                                         *)
(* Turns takes a file turn's target as the set of the files it covers and  *)
(* lets two overlap when these sets do. That this is what fileSetsOverlap  *)
(* decides, path by path, is proved in TurnStateProofs.                    *)
(***************************************************************************)
EXTENDS Naturals, Sequences

CONSTANT PathNames

ResolvedPaths == Seq(PathNames)
ResolvedTargets == [path : ResolvedPaths, kind : {"file", "directory"}]

ContainsPath(directory, path) ==
  /\ Len(directory) <= Len(path)
  /\ \A n \in 1..Len(directory) : directory[n] = path[n]

FileSetsOverlap(left, right) ==
  \E a \in left, b \in right :
    \/ a.path = b.path
    \/ a.kind = "directory" /\ ContainsPath(a.path, b.path)
    \/ b.kind = "directory" /\ ContainsPath(b.path, a.path)

\* A path is not asked for as a file and as a directory at once; a repeated one counts once.
OneKindEach(resolved) ==
  \A s, t \in resolved : s.path = t.path => s = t

\* What is in a directory that is asked for as well is not kept beside it.
Outermost(resolved) ==
  {t \in resolved : \A parent \in resolved :
     parent # t /\ parent.kind = "directory" => ~ContainsPath(parent.path, t.path)}

-----------------------------------------------------------------------------
\* The files that somebody who has the targets may write.
Covers(t) ==
  IF t.kind = "directory" THEN {p \in ResolvedPaths : ContainsPath(t.path, p)} ELSE {t.path}
Covered(targets) == UNION {Covers(t) : t \in targets}
=============================================================================
