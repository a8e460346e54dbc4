----------------------------- MODULE MCChunking -----------------------------
(* Instances for TLC of the chunking stage, on successive snapshots of one   *)
(* repository, and of how its worker cuts a file.  A behaviour is one of one *)
(* of the two, which share no state; the other stays as it is.               *)
EXTENDS Chunking, Splitting, TLC

CONSTANTS f1, f2, f3, Parts

VARIABLE part  \* "stage" or "splitting"

\* Both list f1; only the first has f2, and f3 is skipped by its name.
Manifests == [s \in Snapshots |-> IF s = 1 THEN {f1, f2} ELSE {f1, f3}]

\* The worker can fail on f1 and leave f2 out.
WorkerAnswersOf ==
  [f \in Files |-> IF f = f1 THEN {"succeeded", "failed"}
                   ELSE {"succeeded", "skipped", "omitted"}]

Symmetry == Permutations(Runners)

-----------------------------------------------------------------------------
Node(start, end, children) == [start |-> start, end |-> end, children |-> children]

\* Bytes around the root, gaps that fit and gaps that do not, a leaf that is too large,
\* a child as large as its parent, two characters of several bytes.
Nested == [size |-> 24, lines |-> {3, 5, 12, 17, 24}, inside |-> {8, 9, 10, 20}, root |-> 1,
           tree |-> (1 :> Node(1, 23, <<2, 3, 4, 5>>) @@ 2 :> Node(2, 4, <<>>)
                     @@ 3 :> Node(4, 11, <<6, 7>>) @@ 4 :> Node(16, 17, <<>>)
                     @@ 5 :> Node(17, 22, <<8>>) @@ 6 :> Node(4, 5, <<>>)
                     @@ 7 :> Node(7, 11, <<>>) @@ 8 :> Node(17, 22, <<>>))]

\* The parser's offsets are those of characters, and a node begins within one.
Shifted == [size |-> 16, lines |-> {6, 16}, inside |-> {2, 3, 4, 8, 9, 12, 13, 14}, root |-> 1,
            tree |-> (1 :> Node(0, 9, <<2, 3>>) @@ 2 :> Node(0, 3, <<>>) @@ 3 :> Node(4, 9, <<>>))]

\* One line, and an empty tree.
OneLine == [size |-> 9, lines |-> {}, inside |-> {1, 2, 3, 5}, root |-> 1,
            tree |-> (1 :> Node(0, 0, <<>>))]

SourceFiles == {Nested, Shifted, OneLine}

-----------------------------------------------------------------------------
MCInit ==
  /\ part \in Parts /\ Init /\ SplitInit
  /\ part = "stage" => source = OneLine /\ engine = "plain" /\ configured = MinSize

StageTurn == part = "stage" /\ Next /\ UNCHANGED <<part, splitVars>>

SplitTurn == part = "splitting" /\ SplitNext /\ UNCHANGED <<part, vars>>

MCSpec == MCInit /\ [][StageTurn \/ SplitTurn]_<<part, vars, splitVars>>
=============================================================================
