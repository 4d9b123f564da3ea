---------------------------- MODULE MCSnapshots -----------------------------
(* Instances of Snapshots for TLC: two of everything, but one file. *)
EXTENDS Snapshots, TLC

CONSTANTS i1, i2, d1, d2, r1, r2, t1, t2, a, k, m

Threads == {{k}, {m}}
Files == {{a}}

Symmetry == Permutations({i1, i2}) \cup Permutations({r1, r2}) \cup Permutations({t1, t2})
            \cup Permutations({d1, d2}) \cup Permutations({k, m})
=============================================================================
