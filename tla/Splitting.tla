------------------------------ MODULE Splitting ------------------------------
(***************************************************************************)
(* How the chunking worker cuts a file into byte ranges                    *)
(* (tree-sitter-fallback.ts, and chunkFile and adaptChunks of index.ts):   *)
(* along the nodes of the syntax tree, by logical blocks when that throws, *)
(* and as plain text when that throws, too; then once more with a smaller  *)
(* size when an input is over its token budget.  A round of each loop is a *)
(* step.  Of a file there are its length, its line ends, its characters of *)
(* several bytes and its tree.  Offsets are bytes of the decoded text, and *)
(* ranges leave their end out.                                             *)
(***************************************************************************)
EXTENDS Integers, Sequences, FiniteSets, FiniteSetsExt

CONSTANTS
  Sources, \* files: see SplittingAssumption
  MinSize, \* the least maxChunkSize, 128
  Sizes    \* the values of maxChunkSize

\* A character has four bytes at most, and no newline in it.  Nodes lie within their
\* parents, one behind the other; the filter has dropped those that are empty.  Where
\* their offsets are (the parser's need not count bytes) is left open.
ASSUME SplittingAssumption ==
  /\ MinSize \in Nat /\ MinSize >= 4
  /\ Sizes \subseteq Nat /\ MinSize \in Sizes /\ \A z \in Sizes : z >= MinSize
  /\ \A f \in Sources :
       /\ f.size \in Nat \ {0}
       /\ f.lines \subseteq 1 .. f.size        \* offsets behind a newline
       /\ f.inside \subseteq 1 .. f.size - 1   \* offsets within a character
       /\ f.inside \intersect f.lines = {}
       /\ \A o \in 0 .. f.size : \E k \in 0 .. 3 : o + k \notin f.inside
       /\ f.root \in DOMAIN f.tree
       /\ \A n \in DOMAIN f.tree :
            /\ f.tree[n].start \in 0 .. f.size
            /\ f.tree[n].end \in f.tree[n].start .. f.size
            /\ f.tree[n].children \in Seq(DOMAIN f.tree)
            /\ \A i \in DOMAIN f.tree[n].children :
                 LET child == f.tree[f.tree[n].children[i]] IN
                 /\ f.tree[n].start <= child.start
                 /\ child.start < child.end
                 /\ child.end <= f.tree[n].end
                 /\ \A j \in 1 .. i - 1 : f.tree[f.tree[n].children[j]].end <= child.start

VARIABLES
  source,     \* the file
  engine,     \* the engine that safeLoad chose for it
  configured, \* maxChunkSize of the request
  maxSize,    \* maxChunkSize of this attempt
  attempt,    \* 0: the first one; 1: scaled; 2: without overlap
  route,      \* the engine at work: engine, or one that it degrades to
  stage,      \* how far this attempt is
  frame,      \* frame[n]: locals of structuralUnits for node n
  whole,      \* the same for the whole file: its units, up to where, and the range to cut
  spans       \* merged

splitVars == <<source, engine, configured, maxSize, attempt, route, stage, frame, whole, spans>>

Engines == {"tree", "logical", "plain"}
Stages  == {"parse", "nodes", "prefix", "suffix", "blocks", "merge", "measure", "delivered", "failed"}

Span(a, b) == [start |-> a, end |-> b]

\* Locals: the units so far end at cursor; what is left up to upto is being cut at lines.
Locals(phase, next, cursor, upto, units) ==
  [phase |-> phase, next |-> next, cursor |-> cursor, upto |-> upto, units |-> units]

Uncalled == Locals("uncalled", 1, 0, 0, <<>>)

NodeCount(n) == Len(source.tree[n].children)
ChildOf(n, i) == source.tree[n].children[i]

SplitInit ==
  /\ source \in Sources /\ engine \in Engines
  /\ configured \in Sizes /\ maxSize = configured
  /\ attempt = 0 /\ route = engine
  /\ stage = IF engine = "tree" THEN "parse" ELSE "blocks"
  /\ frame = [n \in DOMAIN source.tree |-> Uncalled]
  /\ whole = Uncalled /\ spans = <<>>

-----------------------------------------------------------------------------
\* Mutant of NextCut: a split within a character is not moved to its beginning.
NextCutBytes(from, upto) ==
  LET limit == from + maxSize
      lines == source.lines \intersect (from + 1 .. limit)
  IN  IF limit >= upto THEN upto ELSE IF lines # {} THEN Max(lines) ELSE limit

\* Where splitAtLines ends the range that begins at from: behind its last newline, or
\* where a character begins.
NextCut(from, upto) ==
  LET limit == from + maxSize
      lines == source.lines \intersect (from + 1 .. limit)
      split == IF lines # {} THEN Max(lines) ELSE limit
      clean == (from + 1 .. split) \ source.inside
  IN  IF limit >= upto THEN upto ELSE IF clean # {} THEN Max(clean) ELSE limit

\* A round of splitAtLines with locals w.
CutOne(w) ==
  LET o == NextCut(w.cursor, w.upto)
  IN  [w EXCEPT !.units = Append(@, Span(w.cursor, o)), !.cursor = o]

\* structuralUnits as it is called for node n: it is a unit, it has nothing in it that
\* could be smaller and is cut at lines, or its children come first.
Called(n) ==
  LET node == source.tree[n]
      flat == \/ node.children = <<>>
              \/ /\ NodeCount(n) = 1
                 /\ source.tree[ChildOf(n, 1)].start = node.start
                 /\ source.tree[ChildOf(n, 1)].end = node.end
  IN  IF node.end - node.start <= maxSize
      THEN Locals("returned", 1, node.end, node.end, <<Span(node.start, node.end)>>)
      ELSE IF flat THEN Locals("open", NodeCount(n) + 1, node.start, node.end, <<>>)
      ELSE Locals("open", 1, node.start, node.start, <<>>)

Waits(n) == frame[n].phase = "open" /\ frame[n].cursor = frame[n].upto

Parse ==
  /\ stage = "parse"
  /\ stage' = "nodes"
  /\ frame' = [frame EXCEPT ![source.root] = Called(source.root)]
  /\ UNCHANGED <<source, engine, configured, maxSize, attempt, route, whole, spans>>

CallChild(n) ==
  /\ Waits(n) /\ frame[n].next <= NodeCount(n)
  /\ LET c == ChildOf(n, frame[n].next) IN
       /\ frame[c].phase = "uncalled"
       /\ frame' = [frame EXCEPT ![c] = Called(c)]

\* What is between two children goes with the first unit of the second one, or, when
\* that would be too large, is cut at lines before.
TakeUnits(n) ==
  /\ Waits(n) /\ frame[n].next <= NodeCount(n)
  /\ LET c == ChildOf(n, frame[n].next)
         new == frame[c].units
     IN
     /\ frame[c].phase = "returned"
     /\ frame' = [frame EXCEPT ![n] =
          IF frame[n].cursor < source.tree[c].start /\ new[1].end - frame[n].cursor > maxSize
          THEN [@ EXCEPT !.upto = source.tree[c].start]
          ELSE Locals("open", @.next + 1, source.tree[c].end, source.tree[c].end,
                      @.units \o [new EXCEPT ![1].start = frame[n].cursor])]

\* What is behind the last child goes with its last unit, or is cut at lines.
ReturnUnits(n) ==
  LET w   == frame[n]
      end == source.tree[n].end
      k   == Len(w.units)
  IN
  /\ Waits(n) /\ w.next > NodeCount(n)
  /\ frame' = [frame EXCEPT ![n] =
       IF w.cursor = end THEN [w EXCEPT !.phase = "returned"]
       ELSE IF k > 0 /\ end - w.units[k].start <= maxSize
       THEN [w EXCEPT !.phase = "returned", !.cursor = end, !.upto = end, !.units[k].end = end]
       ELSE [w EXCEPT !.upto = end]]

CutNode(n) ==
  /\ frame[n].phase = "open" /\ frame[n].cursor < frame[n].upto
  /\ frame' = [frame EXCEPT ![n] = CutOne(@)]

StructuralUnits ==
  /\ stage = "nodes"
  /\ \E n \in DOMAIN source.tree : CallChild(n) \/ TakeUnits(n) \/ ReturnUnits(n) \/ CutNode(n)
  /\ UNCHANGED <<source, engine, configured, maxSize, attempt, route, stage, whole, spans>>

\* chunkWithTreeSitter: what is in front of the root is cut, the root's units follow,
\* then what is behind it.
CutPrefix ==
  /\ stage = "nodes" /\ frame[source.root].phase = "returned"
  /\ stage' = "prefix"
  /\ whole' = Locals("open", 1, 0, source.tree[source.root].start, <<>>)
  /\ UNCHANGED <<source, engine, configured, maxSize, attempt, route, frame, spans>>

AddRoot ==
  /\ stage = "prefix" /\ whole.cursor = whole.upto
  /\ stage' = "suffix"
  /\ whole' = Locals("open", 1, source.tree[source.root].end, source.size,
                     whole.units \o frame[source.root].units)
  /\ UNCHANGED <<source, engine, configured, maxSize, attempt, route, frame, spans>>

\* logicalUnits and plainTextUnits: a block ends with a line (a blank one, or the one
\* before a declaration) or with the file, and is cut when it is too large.
NextBlock(end) ==
  /\ stage = "blocks" /\ whole.cursor = whole.upto
  /\ end > whole.cursor
  /\ whole' = IF end - whole.cursor > maxSize
              THEN [whole EXCEPT !.upto = end]
              ELSE Locals("open", 1, end, end, Append(whole.units, Span(whole.cursor, end)))
  /\ UNCHANGED <<source, engine, configured, maxSize, attempt, route, stage, frame, spans>>

CutWhole ==
  /\ stage \in {"prefix", "suffix", "blocks"} /\ whole.cursor < whole.upto
  /\ whole' = CutOne(whole)
  /\ UNCHANGED <<source, engine, configured, maxSize, attempt, route, stage, frame, spans>>

AllUnits ==
  /\ stage \in {"suffix", "blocks"} /\ whole.cursor = source.size
  /\ stage' = "merge"
  /\ UNCHANGED <<source, engine, configured, maxSize, attempt, route, frame, whole, spans>>

\* A round of mergeAdjacent.
MergeUnit ==
  /\ stage = "merge" /\ whole.units # <<>>
  /\ LET unit == Head(whole.units)
         k == Len(spans)
     IN  spans' = IF unit.end <= unit.start THEN spans
                  ELSE IF k > 0 /\ unit.start = spans[k].end /\ unit.end - spans[k].start <= maxSize
                  THEN [spans EXCEPT ![k].end = unit.end]
                  ELSE Append(spans, unit)
  /\ whole' = [whole EXCEPT !.units = Tail(@)]
  /\ UNCHANGED <<source, engine, configured, maxSize, attempt, route, stage, frame>>

Merged ==
  /\ stage = "merge" /\ whole.units = <<>>
  /\ stage' = "measure"
  /\ UNCHANGED <<source, engine, configured, maxSize, attempt, route, frame, whole, spans>>

\* chunkFile begins with engine r.
Restarts(r) ==
  /\ route' = r
  /\ stage' = IF r = "tree" THEN "parse" ELSE "blocks"
  /\ frame' = [n \in DOMAIN source.tree |-> Uncalled]
  /\ whole' = Uncalled /\ spans' = <<>>

\* chunkFile catches what its engine throws, loading the grammar included; behind
\* plain text there is nothing left.
Degrade ==
  /\ stage \notin {"measure", "delivered", "failed"}
  /\ \/ route = "tree" /\ Restarts("logical")
     \/ route = "logical" /\ Restarts("plain")
     \/ route = "plain" /\ stage' = "failed" /\ UNCHANGED <<route, frame, whole, spans>>
  /\ UNCHANGED <<source, engine, configured, maxSize, attempt>>

\* adaptChunks: every input is within the budget, or the file is chunked again, scaled
\* to the largest of them and then with less context, or it fails.
Measure ==
  /\ stage = "measure"
  /\ \/ /\ stage' \in (IF attempt = 2 THEN {"delivered", "failed"} ELSE {"delivered"})
        /\ UNCHANGED <<maxSize, attempt, route, frame, whole, spans>>
     \/ /\ attempt < 2
        /\ attempt' = attempt + 1
        /\ maxSize' \in (IF attempt = 0 THEN {MinSize} \union {z \in Sizes : z < maxSize}
                         ELSE {maxSize})
        /\ Restarts(engine)
  /\ UNCHANGED <<source, engine, configured>>

SplitNext ==
  \/ Parse \/ StructuralUnits \/ CutPrefix \/ AddRoot \/ CutWhole \/ AllUnits
  \/ \E end \in source.lines \union {source.size} : NextBlock(end)
  \/ MergeUnit \/ Merged \/ Degrade \/ Measure

SplitSpec == SplitInit /\ [][SplitNext]_splitVars

-----------------------------------------------------------------------------
\* s covers the bytes from a to b, each once and in their order.
Tiles(s, a, b) ==
  /\ IF s = <<>> THEN a = b ELSE s[1].start = a /\ s[Len(s)].end = b
  /\ \A i \in DOMAIN s : s[i].start <= s[i].end
  /\ \A i \in 1 .. Len(s) - 1 : s[i].end = s[i + 1].start

\* A node of the parser begins or ends at o, in the middle of a character.
ParserTears(o) ==
  /\ o \in source.inside /\ route = "tree"
  /\ \E n \in DOMAIN source.tree : o \in {source.tree[n].start, source.tree[n].end}

\* The code does not cut a character at o of its own accord.
Clean(o) == o \in source.inside => ParserTears(o)

\* The units from a to b.
Covers(s, a, b) ==
  /\ Tiles(s, a, b)
  /\ \A i \in DOMAIN s : s[i].end - s[i].start <= maxSize /\ Clean(s[i].start)

\* What subarray(start, end).toString("utf8") gives for the chunks, one behind the other,
\* is the file: no chunk begins in the middle of a character.
TextsRebuild == \A i \in DOMAIN spans : spans[i].start \notin source.inside

\* The byte ranges of the chunks rebuild the file and each is within the limit
\* (docs/architecture/ast-aware-chunking.md:50-52), whatever the engines fall back to and
\* however often the file is chunked again.  That "concatenating all chunks reconstructs
\* the complete file" holds of their texts, as long as no cut is an offset that the parser
\* gives within a character.  Such a cut is made as it is (tree-sitter-fallback.ts:1007),
\* and the texts then do NOT rebuild the file, against that line and what
\* src/apps/chunker/src/index.test.ts:138 asserts of files of ASCII.
RangesRebuild ==
  stage \in {"measure", "delivered"} =>
    /\ Covers(spans, 0, source.size) /\ maxSize <= configured
    /\ \A i \in DOMAIN spans : spans[i].start < spans[i].end
    /\ TextsRebuild \/ \E i \in DOMAIN spans : ParserTears(spans[i].start)

\* A call of structuralUnits has the units from the beginning of its node up to its
\* cursor, and has not passed the child it is about to take.
FramesSound ==
  \A n \in DOMAIN source.tree :
    LET w == frame[n]
        node == source.tree[n]
    IN
    /\ w.phase = "open" =>
         /\ Covers(w.units, node.start, w.cursor)
         /\ w.cursor <= w.upto /\ w.upto <= node.end
         /\ Clean(w.cursor) /\ Clean(w.upto)
         /\ w.next <= NodeCount(n) => w.upto <= source.tree[ChildOf(n, w.next)].start
    /\ w.phase = "returned" => Covers(w.units, node.start, node.end)

\* The units of the file, and the spans they are merged into, together cover it.
WholeSound ==
  /\ stage \in {"prefix", "suffix", "blocks"} =>
       /\ Covers(whole.units, 0, whole.cursor)
       /\ whole.cursor <= whole.upto /\ whole.upto <= source.size
       /\ Clean(whole.cursor) /\ Clean(whole.upto)
  /\ stage \in {"parse", "nodes", "prefix", "suffix"} => route = "tree"
  /\ stage \in {"prefix", "suffix"} => frame[source.root].phase = "returned"
  /\ stage = "prefix" => whole.upto = source.tree[source.root].start
  /\ stage \in {"parse", "nodes", "prefix", "suffix", "blocks"} => spans = <<>>
  /\ stage = "merge" =>
       LET met == IF spans = <<>> THEN 0 ELSE spans[Len(spans)].end IN
       /\ Covers(spans, 0, met) /\ Covers(whole.units, met, source.size)
       /\ \A i \in DOMAIN spans : spans[i].start < spans[i].end

Offsets == 0 .. source.size
Ranges  == [start: Offsets, end: Offsets]

SplitTypeOK ==
  /\ source \in Sources /\ engine \in Engines /\ route \in Engines /\ stage \in Stages
  /\ configured \in Sizes /\ maxSize \in Sizes /\ maxSize <= configured /\ attempt \in 0 .. 2
  /\ frame \in [DOMAIN source.tree ->
       [phase: {"uncalled", "open", "returned"}, next: Nat \ {0}, cursor: Offsets, upto: Offsets,
        units: Seq(Ranges)]]
  /\ whole \in [phase: {"uncalled", "open"}, next: Nat \ {0}, cursor: Offsets, upto: Offsets,
                units: Seq(Ranges)]
  /\ spans \in Seq(Ranges)

SplitInv == SplitTypeOK /\ FramesSound /\ WholeSound /\ RangesRebuild
=============================================================================
