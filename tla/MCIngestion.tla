----------------------------- MODULE MCIngestion -----------------------------
(* Instances of Ingestion for TLC: one or two repositories.                  *)
EXTENDS Ingestion, TLC

CONSTANTS p1, p2, c1, c2, c3

OneRepository   == [c \in Commits |-> p1]
TwoRepositories == [c \in Commits |-> IF c = c3 THEN p2 ELSE p1]

\* Runners are interchangeable, and so are the commits of one repository.
Symmetry == Permutations(Runners) \union
            {f \in Permutations(Commits) : \A c \in Commits : RepoOf[f[c]] = RepoOf[c]}
=============================================================================
