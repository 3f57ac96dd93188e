----------------------------- MODULE MCDeployment -----------------------------
(* Instances of Deployment for TLC: two releases, pinned as a whole. *)
EXTENDS Deployment, TLC

CONSTANTS d1, d2, v1, v2

TwoDeployers == {d1, d2}
OneDeployer == {d1}
TwoCommits == {v1, v2}
\* The three pins are reviewed together.
WholeReleases == {[t \in Targets |-> c] : c \in TwoCommits}
OneBackup == {"t1"}
Symmetry == Permutations(TwoDeployers) \cup Permutations(TwoCommits)
CommitSymmetry == Permutations(TwoCommits)
NoFaults == {}
Kills == {"KILLED"}
=============================================================================
