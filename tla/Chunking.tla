------------------------------ MODULE Chunking ------------------------------
(***************************************************************************)
(* How a law's text becomes chunks: chunk_text (services/pipeline/mod.rs). *)
(* The trimmed text is cut before each article heading, and each block is  *)
(* cut into overlapping windows by a loop; a window is trimmed, and dropped *)
(* when nothing is left of it.  Inputs are chosen in Init, and one step is *)
(* one turn of a loop.  A heading is its first character, and a block,     *)
(* window or chunk is the pair of its first and last position in the text. *)
(***************************************************************************)
EXTENDS Integers, FiniteSets, Sequences, Functions

CONSTANTS
  MaxLength,  \* bound: characters of a text
  MaxSize     \* bound: max_chunk_chars and overlap_chars

ASSUME ChunkingAssumption == MaxLength \in Nat /\ MaxSize \in Nat

Chars == {"heading", "letter", "space"}

VARIABLES
  text,     \* the normalised text
  max,      \* max_chunk_chars
  overlap,  \* overlap_chars
  phase,    \* "blocks", "windows", "done" or "rejected" (an error is returned)
  todo,     \* blocks not cut yet
  block,    \* the block being cut
  start,    \* where its next window begins, from 0
  chunks    \* the chunks so far, in order

input == <<text, max, overlap>>
vars  == <<input, phase, todo, block, start, chunks>>

Positions  == DOMAIN text
Written(p) == text[p] # "space"

\* Positions at which a block begins: the first one, and each heading.
Begins(p) == p = 1 \/ text[p] = "heading"

\* A block goes on to the last character before the next one, trimmed.
Blocks ==
  {b \in Positions \X Positions :
     /\ Begins(b[1]) /\ Written(b[2]) /\ b[1] <= b[2]
     /\ \A p \in b[1] + 1 .. b[2] : ~ Begins(p)
     /\ \A q \in Positions : q > b[2] /\ Written(q) => \E p \in b[2] + 1 .. q : Begins(p)}

Init ==
  /\ \E n \in 0 .. MaxLength : text \in [1 .. n -> Chars]
  /\ \A p \in Positions : (p = 1 \/ p + 1 \notin Positions) => Written(p)
  /\ max \in 0 .. MaxSize /\ overlap \in 0 .. MaxSize
  /\ phase = IF max = 0 \/ overlap >= max THEN "rejected" ELSE "blocks"
  /\ todo = Blocks /\ block = <<1, 1>> /\ start = 0 /\ chunks = <<>>

-----------------------------------------------------------------------------
NextBlock ==
  /\ phase = "blocks"
  /\ \E b \in todo :
       /\ \A c \in todo : b[1] <= c[1]
       /\ block' = b /\ todo' = todo \ {b}
  /\ phase' = "windows" /\ start' = 0
  /\ UNCHANGED <<input, chunks>>

AllCut ==
  /\ phase = "blocks" /\ todo = {}
  /\ phase' = "done"
  /\ UNCHANGED <<input, todo, block, start, chunks>>

Length == block[2] - block[1] + 1

\* Mutant: one character too many.
EndOneMore == IF start + max < Length THEN start + max + 1 ELSE Length

\* Where the window ends, from 0 and exclusive.
End == IF start + max < Length THEN start + max ELSE Length

\* Mutant: the overlap is counted from the next character.
NextStartOneLess == IF End > overlap THEN End - overlap - 1 ELSE start + 1

\* Mutant: the character at the end of a window is taken for cut.
NextStartSkips == End + 1

\* Mutant: no overlap.
NextStartNoOverlap == End

NextStart == IF End > overlap THEN End - overlap ELSE start + 1

\* Mutant: a window that begins with white space is dropped.
TrimmedIfFirst(w) ==
  {v \in {w[1]} \X (w[1] .. w[2]) :
     /\ Written(v[1]) /\ Written(v[2])
     /\ \A p \in w[1] .. w[2] : Written(p) => p \in v[1] .. v[2]}

\* What trimming leaves of a window: nothing, or one piece.
Trimmed(w) ==
  {v \in (w[1] .. w[2]) \X (w[1] .. w[2]) :
     /\ Written(v[1]) /\ Written(v[2])
     /\ \A p \in w[1] .. w[2] : Written(p) => p \in v[1] .. v[2]}

Window ==
  /\ phase = "windows"
  /\ LET pieces == Trimmed(<<block[1] + start, block[1] + End - 1>>)
     IN  \/ pieces = {} /\ UNCHANGED chunks
         \/ \E v \in pieces : chunks' = Append(chunks, v)
  /\ IF End >= Length THEN phase' = "blocks" /\ UNCHANGED start
                      ELSE start' = NextStart /\ UNCHANGED phase
  /\ UNCHANGED <<input, todo, block>>

Next == NextBlock \/ AllCut \/ Window

Spec == Init /\ [][Next]_vars

-----------------------------------------------------------------------------
TypeOK ==
  /\ \E n \in 0 .. MaxLength : text \in [1 .. n -> Chars]
  /\ max \in 0 .. MaxSize /\ overlap \in 0 .. MaxSize
  /\ phase \in {"blocks", "windows", "done", "rejected"}
  /\ phase = "rejected" \/ overlap < max
  /\ todo \subseteq Positions \X Positions
  /\ phase = "windows" =>
       (block \in Positions \X Positions /\ block[1] <= block[2] /\ start \in 0 .. Length - 1)
  /\ chunks \in Seq(Positions \X Positions)

\* No chunk is longer than max_chunk_chars, and none runs over a heading.
ChunksFit ==
  \A c \in Range(chunks) :
    c[2] - c[1] < max /\ \A p \in c[1] + 1 .. c[2] : text[p] # "heading"

\* Every character but white space is in a chunk (pipeline/mod.rs:448).
NothingLost ==
  phase = "done" =>
    \A p \in Positions : Written(p) => \E c \in Range(chunks) : p \in c[1] .. c[2]

\* What the overlap is for: a phrase of up to overlap_chars + 1 characters that
\* no heading interrupts is in one chunk as a whole.
PhrasesWhole ==
  phase = "done" =>
    \A p, q \in Positions :
      (/\ p <= q /\ q - p <= overlap /\ Written(p) /\ Written(q)
       /\ \A r \in p + 1 .. q : text[r] # "heading")
        => \E c \in Range(chunks) : c[1] <= p /\ q <= c[2]

\* And no more than it is for: chunks come in the order of the text, and one
\* takes up again at most the last overlap_chars characters of those before it
\* (pipeline/mod.rs:449).
RepeatsBounded ==
  \A i, j \in DOMAIN chunks :
    i < j => /\ chunks[i][1] <= chunks[j][1]
             /\ chunks[i][2] - chunks[j][1] < overlap

\* At most so many turns of the two loops are left: a block not cut yet takes
\* no more than one for each character and two to begin and to end.
TurnsLeft ==
  Cardinality(todo) * (MaxLength + 2)
    + (IF phase = "windows" THEN Length - start + 1 ELSE IF phase = "blocks" THEN 1 ELSE 0)

\* Every turn brings the end nearer, also one whose window goes back by nearly
\* its own length (pipeline/mod.rs:449).
TurnsAdvance == [][0 <= TurnsLeft' /\ TurnsLeft' < TurnsLeft]_vars
=============================================================================
