----------------------------- MODULE MCEmbedding -----------------------------
(* Instances of Embedding for TLC: two snapshots that share a chunk, two      *)
(* models.                                                                    *)
EXTENDS Embedding, TLC

CONSTANTS k1, k2, m1, m2, auto

\* The second snapshot keeps chunk k1 and adds k2.
SharedChunk == [s \in Snapshots |-> IF s = 1 THEN {k1} ELSE {k1, k2}]

\* model_candidates: the order of the catalog, or the requested model first.
Catalog == <<m1, m2>>
CatalogOrder ==
  [s \in Snapshots |-> [m \in Selections |-> IF m = m2 THEN <<m2, m1>> ELSE Catalog]]

Symmetry == Permutations(Runners)
=============================================================================
