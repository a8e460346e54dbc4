-------------------------------- MODULE Corpus --------------------------------
(***************************************************************************)
(* The retrieval chunks of a RepoQA file (repository_chunks of             *)
(* evaluation/retrieval.py): as many lines as fit, then back by a fifth of *)
(* the text.  A chunk is [start, end], lines start + 1 to end.             *)
(***************************************************************************)
EXTENDS Integers, Sequences, FiniteSets, FiniteSetsExt, Lists

CONSTANTS
  LineLengths, \* files, as the lengths of their lines; an empty file has one line
  TargetChars

ASSUME CorpusAssumption ==
  LineLengths \subseteq Seq(Nat) \ {<<>>} /\ TargetChars \in Nat

VARIABLES
  lines,  \* the file
  start,  \* lines before the next chunk
  chunks  \* result

corpusVars == <<lines, start, chunks>>

\* The length of lines i + 1 to j.
Chars(i, j) == SumOver(lines, i + 1 .. j)

CorpusInit == lines \in LineLengths /\ start = 0 /\ chunks = <<>>

\* One line at least, and more while they fit.
ChunkEnd == Max({start + 1} \union {e \in start + 1 .. Len(lines) : Chars(start, e) <= TargetChars})

\* Mutant of NextStart: the next chunk may begin where this one does.
NextStartSame(end) ==
  LET wanted == Max({1, (Chars(start, end) + 2) \div 5})
  IN  Max({start} \union {n \in start .. end : Chars(n, end) >= wanted})

\* A fifth of the text is repeated, rounded, but not all lines of it.
NextStart(end) ==
  LET wanted == Max({1, (Chars(start, end) + 2) \div 5})
  IN  Max({start + 1} \union {n \in start + 1 .. end : Chars(n, end) >= wanted})

CutChunk ==
  /\ start < Len(lines)
  /\ chunks' = Append(chunks, [start |-> start, end |-> ChunkEnd])
  /\ start' = IF ChunkEnd >= Len(lines) THEN Len(lines) ELSE NextStart(ChunkEnd)
  /\ UNCHANGED lines

CorpusSpec == CorpusInit /\ [][CutChunk]_corpusVars

-----------------------------------------------------------------------------
CorpusTypeOK ==
  /\ lines \in LineLengths
  /\ start \in 0 .. Len(lines)
  /\ chunks \in Seq([start: 0 .. Len(lines), end: 0 .. Len(lines)])

\* "Split every RepoQA file into overlapping, line-aligned retrieval chunks"
\* (retrieval.py:165): nothing is left out between two chunks, each begins behind the
\* one before it, so that the loop comes to an end; two of them have a line in common
\* unless the first has only one; none is longer than the target unless one line is; and
\* the last ends with the file.
CorpusCovered ==
  /\ \A i \in DOMAIN chunks :
       LET c == chunks[i] IN
       /\ c.start < c.end
       /\ c.end > c.start + 1 => Chars(c.start, c.end) <= TargetChars
       /\ IF i = 1 THEN c.start = 0
          ELSE LET b == chunks[i - 1] IN
               /\ b.start < c.start /\ c.start <= b.end /\ b.end <= c.end
               /\ b.end > b.start + 1 => c.start < b.end
  /\ start = Len(lines) => chunks[Len(chunks)].end = start

\* The next chunk begins as those that are there do.
CorpusInv ==
  /\ CorpusTypeOK /\ CorpusCovered
  /\ IF chunks = <<>> THEN start = 0
     ELSE LET b == chunks[Len(chunks)] IN
          /\ b.start < start /\ start <= b.end
          /\ b.end > b.start + 1 /\ start < Len(lines) => start < b.end
          /\ b.end > start => Chars(start, b.end) <= TargetChars \/ b.end = start + 1
=============================================================================
