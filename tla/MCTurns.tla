------------------------------ MODULE MCTurns ------------------------------
(* Small instances of Turns: values for its constants and symmetry sets. *)
EXTENDS Turns, TLC

CONSTANTS r1, r2, r3, i1, i2, i3, ann, bob, thread, ticket, fileA, fileB

OneTarget == {{thread}}
TwoTargets == {{thread}, {ticket}}
NoTargets == {}
OneFile == {{fileA}}
\* fileA alone, fileB alone, and a directory that holds both.
Paths == {{fileA}, {fileB}, {fileA, fileB}}

\* State constraint: every request asks for another target, so a file set comes to stand
\* between two disjoint ones.
DistinctTargets ==
  \A r, s \in DOMAIN requests : r # s => requests[r].target # requests[s].target

\* Action constraint: sessions take up the second identity only in behaviours without
\* commits, jumps of the clock and second requests for a target.
NamesAlone ==
  \/ \A i \in Instances : instances'[i].active => instances'[i].ident = ann
  \/ /\ ~jumped' /\ ~behind' /\ inflight' = {}
     /\ \A t \in ContentTargets : queueSeq'[t] <= 1

Symmetry == Permutations(Requests) \cup Permutations(Instances)
FileSymmetry == Symmetry \cup Permutations({fileA, fileB})
=============================================================================
