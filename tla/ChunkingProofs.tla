--------------------------- MODULE ChunkingProofs ---------------------------
(***************************************************************************)
(* Theorems about Chunking, for texts of any length, chunks of any size    *)
(* and any overlap.                                                        *)
(***************************************************************************)
EXTENDS Chunking, FiniteSetTheorems, SequenceTheorems, WellFoundedInduction, TLAPS

USE ChunkingAssumption

-----------------------------------------------------------------------------
(* The least and the greatest element of a set of naturals.                *)

LEMMA Least ==
  ASSUME NEW S, S \subseteq Nat, S # {}
  PROVE  \E x \in S : \A y \in S : x <= y
<1> DEFINE R == OpToRel(<, Nat)
<1>1. IsWellFoundedOn(R, Nat)
  BY NatLessThanWellFounded
<1>2. R = {ss \in Nat \X Nat : ss[1] < ss[2]}
  BY DEF OpToRel
<1> HIDE DEF R
<1>3. PICK x \in S : \A y \in S : ~ (<<y, x>> \in R)
  BY <1>1, WFMin
<1>4. ASSUME NEW y \in S, y < x PROVE FALSE
  <2>1. <<y, x>> \in Nat \X Nat /\ <<y, x>>[1] = y /\ <<y, x>>[2] = x
    OBVIOUS
  <2>2. <<y, x>> \in R
    BY <1>2, <1>4, <2>1
  <2> QED BY <1>3, <2>2
<1> QED BY <1>3, <1>4

LEMMA Greatest ==
  ASSUME NEW n \in Nat, NEW S, S \subseteq 1 .. n, S # {}
  PROVE  \E x \in S : \A y \in S : y <= x
<1> DEFINE D == {n - x : x \in S}
<1>1. D \subseteq Nat /\ D # {}
  <2>1. \A x \in S : n - x \in Nat
    OBVIOUS
  <2> QED BY <2>1
<1>2. PICK d \in D : \A e \in D : d <= e
  BY <1>1, Least
<1>3. PICK x \in S : d = n - x
  BY <1>2
<1>4. \A y \in S : n - x <= n - y
  BY <1>2, <1>3
<1> QED BY <1>4

-----------------------------------------------------------------------------
(* The blocks.                                                             *)

\* The text is a function on the positions 1 .. n.
TextOK == \E n \in 0 .. MaxLength : text \in [1 .. n -> Chars]

\* What a block of the text is.
LEMMA BlockParts ==
  ASSUME TextOK, NEW b \in Blocks
  PROVE  /\ b[1] \in Positions /\ b[2] \in Positions /\ b[1] <= b[2]
         /\ b[1] \in Nat \ {0} /\ b[2] \in Nat
         /\ \A p \in b[1] + 1 .. b[2] : ~ Begins(p)
         /\ b[1] .. b[2] \subseteq Positions
<1>1. PICK n \in 0 .. MaxLength : text \in [1 .. n -> Chars]
  BY DEF TextOK
<1>2. Positions = 1 .. n
  BY <1>1 DEF Positions
<1>3. b[1] \in 1 .. n /\ b[2] \in 1 .. n
  BY <1>2 DEF Blocks
<1> QED BY <1>2, <1>3 DEF Blocks

\* Two characters that no heading separates are in one block.
LEMMA BlockAround ==
  ASSUME TextOK, NEW p \in Positions, NEW q \in Positions, p <= q,
         Written(q), \A r \in p + 1 .. q : text[r] # "heading"
  PROVE  \E b \in Blocks : b[1] <= p /\ q <= b[2]
<1>1. PICK n \in 0 .. MaxLength : text \in [1 .. n -> Chars]
  BY DEF TextOK
<1>2. Positions = 1 .. n /\ n \in Nat
  BY <1>1 DEF Positions
<1> DEFINE S == {x \in 1 .. p : Begins(x)}
<1>3. S \subseteq 1 .. n /\ 1 \in S
  BY <1>2 DEF Begins
<1>4. PICK b1 \in S : \A x \in S : x <= b1
  BY <1>2, <1>3, Greatest
<1>5. b1 \in Positions /\ b1 <= p /\ Begins(b1)
  BY <1>2, <1>4
<1>6. \A r \in b1 + 1 .. q : ~ Begins(r)
  <2> SUFFICES ASSUME NEW r \in b1 + 1 .. q, Begins(r) PROVE FALSE
    OBVIOUS
  <2>1. CASE r <= p
    BY <1>2, <1>4, <1>5, <2>1
  <2>2. CASE p < r
    BY <1>2, <1>5, <2>2 DEF Begins
  <2> QED BY <1>2, <1>5, <2>1, <2>2
<1> DEFINE T == {y \in Positions : b1 <= y /\ Written(y) /\ \A r \in b1 + 1 .. y : ~ Begins(r)}
<1>7. T \subseteq 1 .. n /\ q \in T
  BY <1>2, <1>5, <1>6
<1>8. PICK b2 \in T : \A y \in T : y <= b2
  BY <1>2, <1>7, Greatest
<1>9. \A y \in Positions : (y > b2 /\ Written(y)) => \E r \in b2 + 1 .. y : Begins(r)
  <2> SUFFICES ASSUME NEW y \in Positions, y > b2, Written(y),
                      \A r \in b2 + 1 .. y : ~ Begins(r)
               PROVE  FALSE
    OBVIOUS
  <2>1. \A r \in b1 + 1 .. y : ~ Begins(r)
    BY <1>2, <1>5, <1>8
  <2>2. y \in T
    BY <1>2, <1>5, <1>8, <2>1
  <2> QED BY <1>2, <1>8, <2>2
<1>10. <<b1, b2>> \in Blocks
  BY <1>5, <1>8, <1>9 DEF Blocks
<1>11. <<b1, b2>>[1] <= p /\ q <= <<b1, b2>>[2]
  BY <1>5, <1>7, <1>8
<1> QED BY <1>10, <1>11

-----------------------------------------------------------------------------
(* Trimming.                                                               *)

\* Of a window with a written character trimming leaves a piece.
LEMMA TrimLeaves ==
  ASSUME NEW a \in Nat \ {0}, NEW z \in Nat, NEW w, w = <<a, z>>,
         NEW p \in a .. z, Written(p)
  PROVE  Trimmed(w) # {}
<1> DEFINE S == {x \in a .. z : Written(x)}
<1>1. S \subseteq Nat /\ S \subseteq 1 .. z /\ S # {}
  OBVIOUS
<1>2. PICK v1 \in S : \A y \in S : v1 <= y
  BY <1>1, Least
<1>3. PICK v2 \in S : \A y \in S : y <= v2
  BY <1>1, Greatest
<1>4. \A y \in S : y \in v1 .. v2
  BY <1>1, <1>2, <1>3
<1>5. <<v1, v2>> \in Trimmed(w)
  BY <1>2, <1>3, <1>4 DEF Trimmed
<1> QED BY <1>5

\* A piece is within its window, and holds all that is written there.
LEMMA TrimParts ==
  ASSUME NEW a \in Nat \ {0}, NEW z \in Nat, NEW w, w = <<a, z>>, NEW v \in Trimmed(w)
  PROVE  /\ v = <<v[1], v[2]>> /\ v[1] \in a .. z /\ v[2] \in a .. z /\ v[1] <= v[2]
         /\ Written(v[1])
         /\ \A p \in a .. z : Written(p) => v[1] <= p /\ p <= v[2]
<1>1. /\ v \in (a .. z) \X (a .. z) /\ Written(v[1]) /\ Written(v[2])
      /\ \A p \in a .. z : Written(p) => p \in v[1] .. v[2]
  BY DEF Trimmed
<1>2. v[1] \in Nat /\ v[2] \in Nat
  BY <1>1
<1> QED BY <1>1, <1>2

LEMMA PairOf ==
  ASSUME NEW S, NEW x \in S, NEW y \in S
  PROVE  \E v \in S \X S : v = <<x, y>> /\ v[1] = x /\ v[2] = y
<1>1. <<x, y>> \in S \X S /\ <<x, y>>[1] = x /\ <<x, y>>[2] = y
  OBVIOUS
<1> QED BY <1>1

\* What is appended is in the sequence, after all that was there.
LEMMA Appended ==
  ASSUME NEW S, NEW seq \in Seq(S), NEW v \in S
  PROVE  /\ Append(seq, v) \in Seq(S)
         /\ Range(Append(seq, v)) = Range(seq) \cup {v}
         /\ Range(seq) \subseteq S
         /\ Len(seq) \in Nat /\ DOMAIN seq = 1 .. Len(seq)
         /\ DOMAIN Append(seq, v) = 1 .. Len(seq) + 1
         /\ \A k \in 1 .. Len(seq) : Append(seq, v)[k] = seq[k]
         /\ Append(seq, v)[Len(seq) + 1] = v
<1>1. /\ Append(seq, v) \in Seq(S) /\ Len(Append(seq, v)) = Len(seq) + 1
      /\ \A k \in 1 .. Len(seq) : Append(seq, v)[k] = seq[k]
      /\ Append(seq, v)[Len(seq) + 1] = v
  BY AppendProperties
<1>2. /\ Len(seq) \in Nat /\ DOMAIN seq = 1 .. Len(seq)
      /\ DOMAIN Append(seq, v) = 1 .. Len(seq) + 1
  BY <1>1
<1>3. Range(seq) \subseteq S
  BY <1>2 DEF Range
<1>4. Range(Append(seq, v)) = Range(seq) \cup {v}
  BY <1>1, <1>2 DEF Range
<1> QED BY <1>1, <1>2, <1>3, <1>4

-----------------------------------------------------------------------------
(* The invariant.                                                          *)

\* A pair of characters that is due in one chunk.
Phrase(p, q) == p <= q /\ q - p <= overlap /\ Written(p) /\ Written(q)

\* The phrases that lie within b and begin before position e are in a chunk.
CutUpTo(b, e) ==
  \A p, q \in b[1] .. b[2] :
    Phrase(p, q) /\ p < e => \E c \in Range(chunks) : c[1] <= p /\ q <= c[2]

Cut(b) == CutUpTo(b, b[2] + 1)

\* Chunks are pieces of a block.
ChunkOK(c) ==
  /\ c \in Positions \X Positions /\ c[1] <= c[2] /\ c[2] - c[1] < max
  /\ \A p \in c[1] + 1 .. c[2] : ~ Begins(p)

ChunkInv ==
  /\ TypeOK
  /\ \A c \in Range(chunks) : ChunkOK(c)
  /\ todo \subseteq Blocks
  /\ phase = "windows" =>
       /\ block \in Blocks
       /\ CutUpTo(block, block[1] + start)
       /\ \A b \in Blocks : b \in todo \/ b = block \/ Cut(b)
  /\ phase \in {"blocks", "done"} => \A b \in Blocks : b \in todo \/ Cut(b)
  /\ phase = "done" => todo = {}

LEMMA ChunkInitial == Init => ChunkInv
<1> SUFFICES ASSUME Init PROVE ChunkInv
  OBVIOUS
<1>0. chunks \in Seq(Positions \X Positions) /\ Range(chunks) = {}
  BY DEF Init, Range
<1>1. todo \subseteq Positions \X Positions
  BY DEF Init, Blocks
<1>2. /\ max \in 0 .. MaxSize /\ overlap \in 0 .. MaxSize /\ phase \in {"blocks", "rejected"}
      /\ \E n \in 0 .. MaxLength : text \in [1 .. n -> Chars]
      /\ phase = "rejected" \/ overlap < max
  <2>1. max \in 0 .. MaxSize /\ overlap \in 0 .. MaxSize
        /\ phase = IF max = 0 \/ overlap >= max THEN "rejected" ELSE "blocks"
    BY DEF Init
  <2>2. \E n \in 0 .. MaxLength : text \in [1 .. n -> Chars]
    BY DEF Init
  <2> QED BY <2>1, <2>2
<1>3. TypeOK
  BY <1>0, <1>1, <1>2 DEF TypeOK
<1> QED BY <1>0, <1>3 DEF Init, ChunkInv

\* Where the next window begins, as numbers.
LEMMA WindowNumbers ==
  ASSUME ChunkInv, phase = "windows"
  PROVE  /\ block[1] \in Nat \ {0} /\ block[2] \in Nat /\ block[1] <= block[2]
         /\ max \in Nat /\ overlap \in Nat /\ overlap < max
         /\ start \in Nat /\ start < Length /\ Length = block[2] - block[1] + 1
         /\ End \in Nat /\ start < End /\ End <= Length /\ End <= start + max
         /\ End < Length => /\ End = start + max /\ NextStart = End - overlap
                            /\ NextStart \in 0 .. Length - 1 /\ NextStart > start
<1>1. block \in Blocks /\ TextOK /\ block \in Positions \X Positions
  BY DEF ChunkInv, TypeOK, TextOK
<1>2. /\ block[1] \in Nat \ {0} /\ block[2] \in Nat /\ block[1] <= block[2]
      /\ max \in Nat /\ overlap \in Nat /\ overlap < max /\ start \in 0 .. Length - 1
  BY <1>1, BlockParts DEF ChunkInv, TypeOK
<1> QED BY <1>2 DEF Length, End, NextStart

\* A turn adds the piece that holds all that is written in a .. z, or adds
\* nothing where nothing is written.
AddsPiece(a, z) ==
  \E v1, v2 \in a .. z :
    /\ chunks' = Append(chunks, <<v1, v2>>) /\ v1 <= v2 /\ Written(v1)
    /\ \A p \in a .. z : Written(p) => v1 <= p /\ p <= v2

AddsNothing(a, z) == chunks' = chunks /\ \A p \in a .. z : ~ Written(p)

LEMMA WindowAdds ==
  ASSUME ChunkInv, Window, NEW a \in Nat \ {0}, NEW z \in Nat,
         a = block[1] + start, z = block[1] + End - 1
  PROVE  AddsNothing(a, z) \/ AddsPiece(a, z)
<1>1. PICK w : w = <<a, z>>
  OBVIOUS
<1>2. \/ Trimmed(w) = {} /\ chunks' = chunks
      \/ \E v \in Trimmed(w) : chunks' = Append(chunks, v)
  BY <1>1 DEF Window
<1>3. CASE Trimmed(w) = {} /\ chunks' = chunks
  BY <1>1, <1>3, TrimLeaves DEF AddsNothing
<1>4. CASE \E v \in Trimmed(w) : chunks' = Append(chunks, v)
  <2>1. PICK v \in Trimmed(w) : chunks' = Append(chunks, v)
    BY <1>4
  <2>2. PICK v1, v2 \in a .. z :
               /\ v = <<v1, v2>> /\ v1 <= v2 /\ Written(v1)
               /\ \A p \in a .. z : Written(p) => v1 <= p /\ p <= v2
    BY <1>1, TrimParts
  <2> QED BY <2>1, <2>2 DEF AddsPiece
<1> QED BY <1>2, <1>3, <1>4

LEMMA WindowSound ==
  ASSUME ChunkInv, Window
  PROVE  ChunkInv'
<1>0. /\ phase = "windows" /\ UNCHANGED <<text, max, overlap, todo, block>>
      /\ IF End >= Length THEN phase' = "blocks" /\ UNCHANGED start
                          ELSE start' = NextStart /\ UNCHANGED phase
  BY DEF Window, input
<1>1. /\ block \in Blocks /\ TextOK /\ block[1] .. block[2] \subseteq Positions
      /\ \A p \in block[1] + 1 .. block[2] : ~ Begins(p)
  BY <1>0, BlockParts DEF ChunkInv, TypeOK, TextOK
<1>n. /\ block[1] \in Nat \ {0} /\ block[2] \in Nat /\ block[1] <= block[2]
      /\ max \in Nat /\ overlap \in Nat /\ overlap < max
      /\ start \in Nat /\ start < Length /\ Length = block[2] - block[1] + 1
      /\ End \in Nat /\ start < End /\ End <= Length /\ End <= start + max
      /\ End < Length => /\ End = start + max /\ NextStart = End - overlap
                         /\ NextStart \in 0 .. Length - 1 /\ NextStart > start
  BY <1>0, WindowNumbers
<1>2. Blocks' = Blocks /\ Positions' = Positions /\ Length' = Length
      /\ \A p : Begins(p)' = Begins(p)
  BY <1>0 DEF Blocks, Positions, Begins, Written, Length
<1>3. PICK a \in Nat \ {0}, z \in Nat : a = block[1] + start /\ z = block[1] + End - 1
  BY <1>n
<1>4. /\ a \in block[1] .. block[2] /\ z \in block[1] .. block[2] /\ a <= z /\ z - a < max
  BY <1>n, <1>3
<1>b. PICK lo \in Nat, hi \in Nat :
        /\ lo = block[1] /\ hi = block[2] /\ lo <= a /\ z <= hi /\ z - a < max
        /\ lo .. hi \subseteq Positions
        /\ \A p \in lo + 1 .. hi : ~ Begins(p)
  <2>1. block[1] \in Nat /\ block[2] \in Nat
    BY <1>n
  <2>2. block[1] <= a /\ z <= block[2] /\ z - a < max
    BY <1>4, <2>1
  <2> QED BY <1>1, <2>1, <2>2
<1>5. chunks \in Seq(Positions \X Positions)
  BY DEF ChunkInv, TypeOK
\* What the turn adds is a piece of the block that holds all that is written here.
<1>6. /\ chunks' \in Seq(Positions \X Positions)
      /\ Range(chunks) \subseteq Range(chunks')
      /\ \A c \in Range(chunks') : ChunkOK(c)
      /\ \A p, q \in a .. z : Written(p) /\ Written(q)
           => \E c \in Range(chunks') : c[1] <= p /\ q <= c[2]
  <2>1. CASE AddsNothing(a, z)
    BY <1>5, <2>1 DEF ChunkInv, AddsNothing
  <2>2. CASE AddsPiece(a, z)
    <3>1. PICK v1, v2 \in a .. z :
                 /\ chunks' = Append(chunks, <<v1, v2>>) /\ v1 <= v2 /\ Written(v1)
                 /\ \A p \in a .. z : Written(p) => v1 <= p /\ p <= v2
      BY <2>2 DEF AddsPiece
    <3>2. v1 \in Nat /\ v2 \in Nat /\ lo <= v1 /\ v1 <= v2 /\ v2 <= hi /\ v2 - v1 < max
      <4>1. v1 \in Nat /\ v2 \in Nat /\ a <= v1 /\ v1 <= v2 /\ v2 <= z
        BY <3>1
      <4>2. max \in Nat /\ lo <= a /\ z <= hi /\ z - a < max
        BY <1>n, <1>b
      <4> QED BY <4>1, <4>2
    <3>3. PICK v \in Positions \X Positions : v = <<v1, v2>> /\ v[1] = v1 /\ v[2] = v2
      <4>1. v1 \in lo .. hi /\ v2 \in lo .. hi
        BY <3>2
      <4>2. v1 \in Positions /\ v2 \in Positions
        BY <1>b, <4>1
      <4> QED BY <4>2, PairOf
    <3>5. \A p \in v1 + 1 .. v2 : ~ Begins(p)
      <4>1. \A p \in v1 + 1 .. v2 : p \in lo + 1 .. hi
        BY <3>2
      <4> QED BY <1>b, <4>1
    <3>6. ChunkOK(v)
      BY <3>2, <3>3, <3>5 DEF ChunkOK
    <3>7. /\ chunks' \in Seq(Positions \X Positions)
          /\ Range(chunks') = Range(chunks) \cup {v}
      <4>1. chunks' = Append(chunks, v)
        BY <3>1, <3>3
      <4>2. Append(chunks, v) \in Seq(Positions \X Positions)
            /\ Range(Append(chunks, v)) = Range(chunks) \cup {v}
        BY <1>5, Appended
      <4> QED BY <4>1, <4>2
    <3>8. \A p, q \in a .. z : Written(p) /\ Written(q) => v[1] <= p /\ q <= v[2]
      BY <3>1, <3>3
    <3> QED BY <3>6, <3>7, <3>8 DEF ChunkInv
  <2>3. AddsNothing(a, z) \/ AddsPiece(a, z)
    BY <1>3, WindowAdds
  <2> QED BY <2>1, <2>2, <2>3
<1>7. \A c : ChunkOK(c)' = ChunkOK(c)
  BY <1>0, <1>2 DEF ChunkOK
\* What was cut stays cut.
<1>8. \A b, e : CutUpTo(b, e) => CutUpTo(b, e)'
  BY <1>0, <1>6 DEF CutUpTo, Phrase, Written
<1>9. \A b : Cut(b) => Cut(b)'
  BY <1>8 DEF Cut
\* The phrases that begin in this window, before the next one does, end in it.
<1>10. ASSUME NEW e \in Nat, End < Length => e = block[1] + NextStart,
              End >= Length => e = block[2] + 1
       PROVE  CutUpTo(block, e)'
  <2> SUFFICES ASSUME NEW p \in block[1] .. block[2], NEW q \in block[1] .. block[2],
                      Phrase(p, q), p < e
               PROVE  \E c \in Range(chunks') : c[1] <= p /\ q <= c[2]
    BY <1>0 DEF CutUpTo, Phrase, Written
  <2>1. CASE p < a
    <3>1. \E c \in Range(chunks) : c[1] <= p /\ q <= c[2]
      BY <1>0, <1>3, <2>1 DEF ChunkInv, CutUpTo
    <3> QED BY <1>6, <3>1
  <2>2. CASE a <= p
    <3>1. p <= q /\ q - p <= overlap /\ Written(p) /\ Written(q)
      BY DEF Phrase
    <3>2. q <= z
      BY <1>n, <1>3, <1>10, <3>1
    <3>3. p \in a .. z /\ q \in a .. z
      BY <1>n, <1>3, <1>4, <2>2, <3>1, <3>2
    <3> QED BY <1>6, <3>1, <3>3
  <2> QED BY <1>n, <1>3, <1>4, <2>1, <2>2
<1>11. TypeOK'
  <2>1. chunks' \in Seq(Positions \X Positions)
    BY <1>6
  <2>2. phase' = "windows" => start' \in 0 .. Length - 1
    BY <1>0, <1>n
  <2>3. phase' \in {"windows", "blocks"}
    BY <1>0
  <2> QED BY <1>0, <1>2, <2>1, <2>2, <2>3 DEF ChunkInv, TypeOK
<1>12. /\ \A c \in Range(chunks') : ChunkOK(c)'
       /\ todo' \subseteq Blocks'
  BY <1>0, <1>2, <1>6, <1>7 DEF ChunkInv
<1>13. CASE End >= Length
  <2>1. Cut(block)'
    BY <1>0, <1>n, <1>10, <1>13 DEF Cut
  <2>2. phase' = "blocks" /\ \A b \in Blocks' : b \in todo' \/ Cut(b)'
    BY <1>0, <1>2, <1>9, <1>13, <2>1 DEF ChunkInv
  <2> QED BY <1>11, <1>12, <2>2 DEF ChunkInv
<1>14. CASE End < Length
  <2>1. phase' = "windows" /\ start' = NextStart
    BY <1>0, <1>n, <1>14
  <2>2. CutUpTo(block, block[1] + start)'
    BY <1>0, <1>n, <1>10, <1>14, <2>1
  <2>3. \A b \in Blocks' : b \in todo' \/ b = block' \/ Cut(b)'
    BY <1>0, <1>2, <1>9 DEF ChunkInv
  <2> QED BY <1>0, <1>1, <1>2, <1>11, <1>12, <2>1, <2>2, <2>3 DEF ChunkInv
<1> QED BY <1>n, <1>13, <1>14

LEMMA ChunkSound ==
  ASSUME ChunkInv, [Next]_vars
  PROVE  ChunkInv'
<1>1. CASE UNCHANGED vars
  <2>1. UNCHANGED <<text, max, overlap, phase, todo, block, start, chunks>>
    BY <1>1 DEF vars, input
  <2>2. /\ Blocks' = Blocks /\ Positions' = Positions /\ Length' = Length
        /\ \A c : ChunkOK(c)' = ChunkOK(c) /\ \A x : Cut(x)' = Cut(x)
        /\ \A x, e : CutUpTo(x, e)' = CutUpTo(x, e)
    BY <2>1 DEF Blocks, Positions, Begins, Written, ChunkOK, CutUpTo, Cut, Phrase, Length
  <2>3. CutUpTo(block, block[1] + start)' <=> CutUpTo(block, block[1] + start)
    BY <2>1 DEF CutUpTo, Phrase, Written
  <2>4. TypeOK'
    BY <2>1, <2>2 DEF ChunkInv, TypeOK
  <2> QED BY <2>1, <2>2, <2>3, <2>4 DEF ChunkInv
<1>2. CASE NextBlock
  <2>1. PICK b \in todo : block' = b /\ todo' = todo \ {b}
    BY <1>2 DEF NextBlock
  <2>2. /\ UNCHANGED <<text, max, overlap, chunks>> /\ phase = "blocks"
        /\ phase' = "windows" /\ start' = 0
    BY <1>2 DEF NextBlock, input
  <2>3. /\ Blocks' = Blocks /\ Positions' = Positions
        /\ \A c : ChunkOK(c)' = ChunkOK(c) /\ \A x : Cut(x)' = Cut(x)
    BY <2>2 DEF Blocks, Positions, Begins, Written, ChunkOK, CutUpTo, Cut, Phrase
  <2>4. /\ b \in Blocks /\ b \in Positions \X Positions /\ b[1] <= b[2]
        /\ b[1] \in Nat /\ b[2] \in Nat
    BY <2>1, BlockParts DEF ChunkInv, TypeOK, TextOK, Blocks
  <2>5. TypeOK'
    <3>1. start' \in 0 .. b[2] - b[1]
      BY <2>2, <2>4
    <3>2. start' \in 0 .. Length' - 1
      BY <2>1, <2>4, <3>1 DEF Length
    <3> QED BY <2>1, <2>2, <2>3, <2>4, <3>2 DEF ChunkInv, TypeOK
  <2>6. CutUpTo(block, block[1] + start)'
    BY <2>1, <2>2, <2>4 DEF CutUpTo
  <2> QED BY <2>1, <2>2, <2>3, <2>4, <2>5, <2>6 DEF ChunkInv
<1>3. CASE AllCut
  <2>1. UNCHANGED <<text, max, overlap, todo, block, start, chunks>>
        /\ phase = "blocks" /\ phase' = "done" /\ todo = {}
    BY <1>3 DEF AllCut, input
  <2>2. /\ Blocks' = Blocks /\ Positions' = Positions
        /\ \A c : ChunkOK(c)' = ChunkOK(c) /\ \A x : Cut(x)' = Cut(x)
    BY <2>1 DEF Blocks, Positions, Begins, Written, ChunkOK, CutUpTo, Cut, Phrase
  <2> QED BY <2>1, <2>2 DEF ChunkInv, TypeOK
<1>4. CASE Window
  BY <1>4, WindowSound
<1> QED BY <1>1, <1>2, <1>3, <1>4 DEF Next

LEMMA ChunkAlways == Spec => []ChunkInv
BY ChunkInitial, ChunkSound, PTL DEF Spec

\* The positions of blocks, windows and chunks stay within the text.
THEOREM TypeCorrect == Spec => []TypeOK
<1>1. ChunkInv => TypeOK
  BY DEF ChunkInv
<1> QED BY <1>1, ChunkAlways, PTL

\* No chunk is longer than max_chunk_chars, and none runs over a heading.
THEOREM ChunksAlwaysFit == Spec => []ChunksFit
<1>1. ChunkInv => ChunksFit
  BY DEF ChunkInv, ChunksFit, ChunkOK, Begins
<1> QED BY <1>1, ChunkAlways, PTL

LEMMA AllPhrases == ChunkInv => PhrasesWhole
<1> SUFFICES ASSUME ChunkInv, phase = "done",
                    NEW p \in Positions, NEW q \in Positions,
                    p <= q, q - p <= overlap, Written(p), Written(q),
                    \A r \in p + 1 .. q : text[r] # "heading"
             PROVE  \E c \in Range(chunks) : c[1] <= p /\ q <= c[2]
  BY DEF PhrasesWhole
<1>1. TextOK
  BY DEF ChunkInv, TypeOK, TextOK
<1>2. PICK b \in Blocks : b[1] <= p /\ q <= b[2]
  BY <1>1, BlockAround
<1>3. Cut(b)
  BY DEF ChunkInv
<1>4. b[1] \in Nat /\ b[2] \in Nat /\ p \in Nat /\ q \in Nat
  BY <1>1, BlockParts DEF TextOK, Positions
<1>5. p \in b[1] .. b[2] /\ q \in b[1] .. b[2] /\ p < b[2] + 1
  BY <1>2, <1>4
<1> QED BY <1>3, <1>5 DEF Cut, CutUpTo, Phrase

\* A phrase of up to overlap_chars + 1 characters that no heading interrupts is
\* in one chunk as a whole (split_with_overlap, pipeline/mod.rs:449).
THEOREM PhrasesStayWhole == Spec => []PhrasesWhole
BY AllPhrases, ChunkAlways, PTL

\* Every character but white space is in a chunk (pipeline/mod.rs:448).
THEOREM NothingIsLost == Spec => []NothingLost
<1>1. ChunkInv => NothingLost
  <2> SUFFICES ASSUME ChunkInv, phase = "done", NEW p \in Positions, Written(p)
               PROVE  \E c \in Range(chunks) : p \in c[1] .. c[2]
    BY DEF NothingLost
  <2>1. p \in Nat /\ overlap \in Nat
    BY DEF ChunkInv, TypeOK, Positions
  <2>2. p <= p /\ p - p <= overlap /\ \A r \in p + 1 .. p : text[r] # "heading"
    BY <2>1
  <2>3. PICK c \in Range(chunks) : c[1] <= p /\ p <= c[2]
    BY <2>2, AllPhrases DEF PhrasesWhole
  <2>4. c \in Positions \X Positions
    BY DEF ChunkInv, ChunkOK
  <2>5. c[1] \in Nat /\ c[2] \in Nat
    BY <2>4 DEF ChunkInv, TypeOK, Positions
  <2> QED BY <2>1, <2>3, <2>5
<1> QED BY <1>1, ChunkAlways, PTL

-----------------------------------------------------------------------------
(* The order of blocks and windows.                                        *)

\* Blocks do not overlap, and no two begin at one position.
LEMMA BlocksApart ==
  ASSUME TextOK, NEW b \in Blocks, NEW c \in Blocks, b[1] <= c[1], b # c
  PROVE  b[2] < c[1]
<1>1. /\ b[1] \in Nat /\ b[2] \in Nat /\ c[1] \in Nat /\ c[2] \in Nat
      /\ b[1] <= b[2] /\ c[1] <= c[2] /\ b[2] \in Positions /\ c[2] \in Positions
      /\ \A p \in b[1] + 1 .. b[2] : ~ Begins(p)
      /\ \A p \in c[1] + 1 .. c[2] : ~ Begins(p)
  BY BlockParts
<1>2. /\ Begins(c[1]) /\ Written(b[2]) /\ Written(c[2])
      /\ b = <<b[1], b[2]>> /\ c = <<c[1], c[2]>>
      /\ \A q \in Positions : q > b[2] /\ Written(q) => \E p \in b[2] + 1 .. q : Begins(p)
      /\ \A q \in Positions : q > c[2] /\ Written(q) => \E p \in c[2] + 1 .. q : Begins(p)
  BY DEF Blocks
<1>3. CASE b[1] < c[1]
  BY <1>1, <1>2, <1>3
<1>4. CASE b[1] = c[1]
  <2>1. b[2] # c[2]
    BY <1>2, <1>4
  <2>2. ASSUME b[2] < c[2] PROVE FALSE
    <3>1. PICK p \in b[2] + 1 .. c[2] : Begins(p)
      BY <1>1, <1>2, <2>2
    <3>2. p \in c[1] + 1 .. c[2]
      BY <1>1, <1>4, <3>1
    <3> QED BY <1>1, <3>1, <3>2
  <2>3. ASSUME c[2] < b[2] PROVE FALSE
    <3>1. PICK p \in c[2] + 1 .. b[2] : Begins(p)
      BY <1>1, <1>2, <2>3
    <3>2. p \in b[1] + 1 .. b[2]
      BY <1>1, <1>4, <3>1
    <3> QED BY <1>1, <3>1, <3>2
  <2> QED BY <1>1, <2>1, <2>2, <2>3
<1> QED BY <1>1, <1>3, <1>4

\* The chunks so far begin before what is written after position e, and reach
\* beyond e by less than the overlap.
BehindAt(c, e) ==
  /\ c[2] - e < overlap
  /\ \A p \in Positions : Written(p) /\ e <= p => c[1] <= p

OrderInv ==
  /\ ChunkInv
  /\ \A c \in Range(chunks), b \in todo : c[2] < b[1]
  /\ phase = "windows" =>
       /\ \A b \in todo : block[2] < b[1]
       /\ \A c \in Range(chunks) : BehindAt(c, block[1] + start)
  /\ RepeatsBounded

LEMMA OrderInitial == Init => OrderInv
<1> SUFFICES ASSUME Init PROVE OrderInv
  OBVIOUS
<1>1. chunks = <<>> /\ phase # "windows" /\ Range(chunks) = {} /\ DOMAIN chunks = {}
  BY DEF Init, Range
<1> QED BY <1>1, ChunkInitial DEF OrderInv, RepeatsBounded

LEMMA WindowOrdered ==
  ASSUME OrderInv, Window, ChunkInv'
  PROVE  OrderInv'
<1>0. /\ phase = "windows" /\ UNCHANGED <<text, max, overlap, todo, block>>
      /\ IF End >= Length THEN phase' = "blocks" /\ UNCHANGED start
                          ELSE start' = NextStart /\ UNCHANGED phase
  BY DEF Window, input
<1>1. ChunkInv /\ chunks \in Seq(Positions \X Positions) /\ block \in Blocks /\ TextOK
  BY <1>0 DEF OrderInv, ChunkInv, TypeOK, TextOK
<1>n. /\ block[1] \in Nat \ {0} /\ block[2] \in Nat
      /\ max \in Nat /\ overlap \in Nat /\ overlap < max
      /\ start \in Nat /\ start < Length /\ Length = block[2] - block[1] + 1
      /\ End \in Nat /\ start < End /\ End <= Length
      /\ End < Length => /\ End = start + max /\ NextStart = End - overlap
                         /\ NextStart \in 0 .. Length - 1 /\ NextStart > start
  BY <1>0, <1>1, WindowNumbers
<1>2. PICK a \in Nat \ {0}, z \in Nat : a = block[1] + start /\ z = block[1] + End - 1
  BY <1>n
<1>3. block[1] <= a /\ a <= z /\ z <= block[2]
  BY <1>n, <1>2
<1>4. \A c \in Range(chunks) : c[1] \in Nat /\ c[2] \in Nat
  BY <1>1 DEF ChunkInv, ChunkOK, TypeOK, Positions
<1>5. \A c \in Range(chunks) : BehindAt(c, a)
  BY <1>0, <1>2 DEF OrderInv
<1>6. \A b \in todo : block[2] < b[1] /\ b[1] \in Nat
  BY <1>0 DEF OrderInv, ChunkInv, TypeOK, Positions
<1>7. Positions \subseteq Nat /\ block[1] .. block[2] \subseteq Positions
  <2>1. Positions \subseteq Nat
    BY <1>1 DEF TextOK, Positions
  <2> QED BY <1>1, <2>1, BlockParts
<1>8. Positions' = Positions /\ \A p : Written(p)' = Written(p)
  BY <1>0 DEF Positions, Written
\* The chunks that were there: still behind, as the next window begins later.
<1>9. ASSUME phase' = "windows"
      PROVE  \E s \in Nat : /\ s = start' /\ a < block[1] + s
                            /\ block[1] + s = z + 1 - overlap
  BY <1>0, <1>n, <1>2, <1>9
<1>10. \A c, e : BehindAt(c, e)' = (/\ c[2] - e < overlap
                                    /\ \A p \in Positions : Written(p) /\ e <= p => c[1] <= p)
  BY <1>0, <1>8 DEF BehindAt
<1>11. ASSUME phase' = "windows", NEW c \in Range(chunks)
       PROVE  c[2] - (block[1] + start') < overlap
              /\ \A p \in Positions : Written(p) /\ block[1] + start' <= p => c[1] <= p
  <2>1. PICK s \in Nat : s = start' /\ a < block[1] + s
    BY <1>9, <1>11
  <2>2. c[2] - a < overlap /\ c[2] \in Nat
        /\ \A p \in Positions : Written(p) /\ a <= p => c[1] <= p
    BY <1>4, <1>5, <1>11 DEF BehindAt
  <2>3. c[2] - (block[1] + s) < overlap
    BY <1>n, <2>1, <2>2
  <2>4. \A p \in Positions : block[1] + s <= p => a <= p
    BY <1>n, <1>7, <2>1
  <2> QED BY <2>1, <2>2, <2>3, <2>4
<1>12. CASE chunks' = chunks
  <2>1. RepeatsBounded'
    BY <1>0, <1>12 DEF OrderInv, RepeatsBounded
  <2>2. phase' = "windows" => \A c \in Range(chunks)' : BehindAt(c, block[1] + start)'
    BY <1>0, <1>11, <1>12 DEF BehindAt, Written, Positions
  <2> QED BY <1>0, <1>6, <1>12, <2>1, <2>2 DEF OrderInv
<1>b. PICK lo \in Nat, hi \in Nat :
        /\ lo = block[1] /\ hi = block[2] /\ lo <= a /\ z <= hi
        /\ lo .. hi \subseteq Positions
  <2>1. block[1] \in Nat /\ block[2] \in Nat
    BY <1>n
  <2> QED BY <1>3, <1>7, <2>1
<1>13. ASSUME NEW v1 \in a .. z, NEW v2 \in a .. z, Written(v1),
              \A p \in a .. z : Written(p) => v1 <= p,
              chunks' = Append(chunks, <<v1, v2>>)
       PROVE  OrderInv'
  <2>1. v1 \in Nat /\ v2 \in Nat /\ a <= v1 /\ v1 <= z /\ v2 <= z
    BY <1>13
  <2>2. v1 \in Positions /\ v2 \in Positions
    <3>1. v1 \in lo .. hi /\ v2 \in lo .. hi
      <4>1. v2 \in Nat /\ a <= v2
        BY <1>13
      <4> QED BY <1>b, <2>1, <4>1
    <3> QED BY <1>b, <3>1
  <2>3. PICK v \in Positions \X Positions : v = <<v1, v2>> /\ v[1] = v1 /\ v[2] = v2
    BY <2>2, PairOf
  <2>4. /\ Range(chunks') = Range(chunks) \cup {v}
        /\ Len(chunks) \in Nat /\ DOMAIN chunks = 1 .. Len(chunks)
        /\ DOMAIN chunks' = 1 .. Len(chunks) + 1
        /\ \A k \in 1 .. Len(chunks) : chunks'[k] = chunks[k]
        /\ chunks'[Len(chunks) + 1] = v
    <3>1. chunks' = Append(chunks, v)
      BY <1>13, <2>3
    <3>2. chunks \in Seq(Positions \X Positions)
      BY <1>1
    <3>3. /\ Range(Append(chunks, v)) = Range(chunks) \cup {v}
          /\ Len(chunks) \in Nat /\ DOMAIN chunks = 1 .. Len(chunks)
          /\ DOMAIN Append(chunks, v) = 1 .. Len(chunks) + 1
          /\ \A k \in 1 .. Len(chunks) : Append(chunks, v)[k] = chunks[k]
          /\ Append(chunks, v)[Len(chunks) + 1] = v
      BY <3>2, Appended
    <3> QED BY <3>1, <3>3
  <2>5. \A c \in Range(chunks) : c[1] <= v1 /\ c[2] - v1 < overlap
    <3> SUFFICES ASSUME NEW c \in Range(chunks)
                 PROVE  c[1] <= v1 /\ c[2] - v1 < overlap
      OBVIOUS
    <3>1. c[2] - a < overlap /\ c[2] \in Nat
          /\ \A p \in Positions : Written(p) /\ a <= p => c[1] <= p
      BY <1>4, <1>5 DEF BehindAt
    <3> QED BY <1>n, <1>13, <2>1, <2>2, <3>1
  <2>6. RepeatsBounded'
    <3> SUFFICES ASSUME NEW i \in DOMAIN chunks', NEW j \in DOMAIN chunks', i < j
                 PROVE  chunks'[i][1] <= chunks'[j][1]
                        /\ chunks'[i][2] - chunks'[j][1] < overlap
      BY <1>0 DEF RepeatsBounded
    <3>1. i \in 1 .. Len(chunks) /\ chunks'[i] = chunks[i]
      BY <2>4
    <3>2. CASE j \in 1 .. Len(chunks)
      <4>1. chunks'[j] = chunks[j]
        BY <2>4, <3>2
      <4> QED BY <2>4, <3>1, <3>2, <4>1 DEF OrderInv, RepeatsBounded
    <3>3. CASE j = Len(chunks) + 1
      <4>1. chunks'[j] = v
        BY <2>4, <3>3
      <4>2. chunks[i] \in Range(chunks)
        BY <2>4, <3>1 DEF Range
      <4> QED BY <2>3, <2>5, <3>1, <4>1, <4>2
    <3> QED BY <2>4, <3>2, <3>3
  <2>7. \A c \in Range(chunks'), b \in todo' : c[2] < b[1]
    <3>1. \A b \in todo : v[2] < b[1]
      BY <1>n, <1>3, <1>6, <2>1, <2>3
    <3> QED BY <1>0, <2>4, <3>1 DEF OrderInv
  <2>8. ASSUME phase' = "windows"
        PROVE  v2 - (block[1] + start') < overlap
               /\ \A p \in Positions : Written(p) /\ block[1] + start' <= p => v1 <= p
    <3>1. PICK s \in Nat : s = start' /\ a < block[1] + s /\ block[1] + s = z + 1 - overlap
      BY <1>9, <2>8
    <3>2. v2 - (block[1] + s) < overlap
      BY <1>n, <2>1, <3>1
    <3>3. ASSUME NEW p \in Positions, Written(p), block[1] + s <= p
          PROVE  v1 <= p
      <4>1. p \in Nat /\ a <= p
        BY <1>7, <1>n, <3>1, <3>3
      <4>2. CASE p <= z
        BY <1>13, <3>3, <4>1, <4>2
      <4>3. CASE z < p
        BY <2>1, <4>1, <4>3
      <4> QED BY <4>1, <4>2, <4>3
    <3> QED BY <3>1, <3>2, <3>3
  <2>9. phase' = "windows" => \A c \in Range(chunks)' : BehindAt(c, block[1] + start)'
    BY <1>0, <1>11, <2>3, <2>4, <2>8 DEF BehindAt, Written, Positions
  <2> QED BY <1>0, <1>6, <2>6, <2>7, <2>9 DEF OrderInv
<1>14. CASE AddsPiece(a, z)
  BY <1>13, <1>14 DEF AddsPiece
<1>15. AddsNothing(a, z) \/ AddsPiece(a, z)
  BY <1>1, <1>2, WindowAdds
<1> QED BY <1>12, <1>14, <1>15 DEF AddsNothing

LEMMA OrderSound ==
  ASSUME OrderInv, [Next]_vars
  PROVE  OrderInv'
<1>0. ChunkInv'
  BY ChunkSound DEF OrderInv
<1>1. CASE UNCHANGED vars
  <2>1. UNCHANGED <<text, max, overlap, phase, todo, block, start, chunks>>
    BY <1>1 DEF vars, input
  <2>2. RepeatsBounded'
    BY <2>1 DEF OrderInv, RepeatsBounded
  <2>3. phase' = "windows" => \A c \in Range(chunks)' : BehindAt(c, block[1] + start)'
    BY <2>1 DEF OrderInv, BehindAt, Positions, Written
  <2> QED BY <1>0, <2>1, <2>2, <2>3 DEF OrderInv
<1>2. CASE NextBlock
  <2>1. PICK b \in todo : /\ \A c \in todo : b[1] <= c[1]
                          /\ block' = b /\ todo' = todo \ {b}
    BY <1>2 DEF NextBlock
  <2>2. chunks' = chunks /\ start' = 0 /\ UNCHANGED <<text, max, overlap>>
    BY <1>2 DEF NextBlock, input
  <2>3. RepeatsBounded'
    BY <2>2 DEF OrderInv, RepeatsBounded
  <2>4. \A c \in Range(chunks) : c[1] \in Nat /\ c[2] \in Nat /\ c[1] <= c[2] /\ c[2] < b[1]
    BY DEF OrderInv, ChunkInv, ChunkOK, TypeOK, Positions
  <2>5. b[1] \in Nat /\ overlap \in Nat /\ Positions \subseteq Nat
    BY <2>1 DEF OrderInv, ChunkInv, TypeOK, Positions
  <2>6. \A c \in Range(chunks) : BehindAt(c, b[1] + 0)
    BY <2>4, <2>5 DEF BehindAt
  <2>7. \A c \in Range(chunks)' : BehindAt(c, block[1] + start)'
    BY <2>1, <2>2, <2>6 DEF BehindAt, Positions, Written
  <2>8. \A c \in todo \ {b} : b[2] < c[1]
    <3>1. TextOK /\ todo \subseteq Blocks
      BY DEF OrderInv, ChunkInv, TypeOK, TextOK
    <3> QED BY <2>1, <3>1, BlocksApart
  <2> QED BY <1>0, <2>1, <2>2, <2>3, <2>7, <2>8 DEF OrderInv
<1>3. CASE AllCut
  <2>1. UNCHANGED <<chunks, todo, overlap>> /\ phase' = "done"
    BY <1>3 DEF AllCut, input
  <2> QED BY <1>0, <2>1 DEF OrderInv, RepeatsBounded
<1>4. CASE Window
  BY <1>0, <1>4, WindowOrdered
<1> QED BY <1>1, <1>2, <1>3, <1>4 DEF Next

\* Chunks come in the order of the text, and one takes up again at most the
\* last overlap_chars characters of those before it (pipeline/mod.rs:449).
THEOREM RepeatsAreBounded == Spec => []RepeatsBounded
<1>1. OrderInv => RepeatsBounded
  BY DEF OrderInv
<1> QED BY <1>1, OrderInitial, OrderSound, PTL DEF Spec

-----------------------------------------------------------------------------
(* The turns left.                                                         *)

LEMMA TodoFinite ==
  ASSUME ChunkInv, NEW S, S \subseteq todo
  PROVE  IsFiniteSet(S) /\ Cardinality(S) \in Nat
<1>1. PICK n \in 0 .. MaxLength : text \in [1 .. n -> Chars]
  BY DEF ChunkInv, TypeOK
<1>2. Positions = 1 .. n /\ n \in Int
  BY <1>1 DEF Positions
<1>3. IsFiniteSet(Positions)
  BY <1>2, FS_Interval
<1>4. IsFiniteSet(Positions \X Positions)
  BY <1>3, FS_Product
<1>5. S \subseteq Positions \X Positions
  BY DEF ChunkInv, TypeOK
<1> QED BY <1>4, <1>5, FS_Subset, FS_CardinalityType

\* A block is no longer than the longest text.
LEMMA BlockLength ==
  ASSUME TextOK, NEW b \in Blocks
  PROVE  b[2] - b[1] + 1 \in 1 .. MaxLength
<1>1. PICK n \in 0 .. MaxLength : text \in [1 .. n -> Chars]
  BY DEF TextOK
<1>2. Positions = 1 .. n /\ n \in Nat /\ n <= MaxLength
  BY <1>1 DEF Positions
<1> QED BY <1>2, BlockParts

LEMMA TurnsStep ==
  ASSUME ChunkInv, Next
  PROVE  0 <= TurnsLeft' /\ TurnsLeft' < TurnsLeft
<1>1. CASE NextBlock
  <2>1. PICK b \in todo : block' = b /\ todo' = todo \ {b}
    BY <1>1 DEF NextBlock
  <2>2. phase = "blocks" /\ phase' = "windows" /\ start' = 0
    BY <1>1 DEF NextBlock
  <2>3. PICK l \in 1 .. MaxLength : l = Length'
    <3>1. b \in Blocks /\ TextOK
      BY <2>1 DEF ChunkInv, TypeOK, TextOK
    <3>2. Length' = b[2] - b[1] + 1
      BY <2>1 DEF Length
    <3> QED BY <3>1, <3>2, BlockLength
  <2>4. PICK k \in Nat : k = Cardinality(todo')
    BY <2>1, TodoFinite
  <2>5. Cardinality(todo) = k + 1
    BY <2>1, <2>4, TodoFinite, FS_RemoveElement
  <2>6. TurnsLeft = (k + 1) * (MaxLength + 2) + 1
    BY <2>2, <2>5 DEF TurnsLeft
  <2>7. TurnsLeft' = k * (MaxLength + 2) + (l - 0 + 1)
    BY <2>2, <2>3, <2>4 DEF TurnsLeft
  <2>8. PICK m \in Nat : m = k * (MaxLength + 2)
    OBVIOUS
  <2>9. (k + 1) * (MaxLength + 2) = m + MaxLength + 2
    BY <2>8
  <2>10. TurnsLeft = m + MaxLength + 3
    BY <2>6, <2>8, <2>9
  <2>11. TurnsLeft' = m + l + 1
    BY <2>3, <2>7, <2>8
  <2>12. m \in Nat /\ l \in Nat /\ l <= MaxLength /\ MaxLength \in Nat
    BY <2>3, <2>8
  <2> QED BY <2>10, <2>11, <2>12
<1>2. CASE AllCut
  <2>1. phase = "blocks" /\ phase' = "done" /\ todo = {} /\ todo' = {}
    BY <1>2 DEF AllCut
  <2>2. Cardinality({}) = 0
    BY FS_EmptySet
  <2> QED BY <2>1, <2>2 DEF TurnsLeft
<1>3. CASE Window
  <2>1. PICK m \in Nat : m = Cardinality(todo) * (MaxLength + 2)
    BY TodoFinite
  <2>2. /\ phase = "windows" /\ todo' = todo /\ Length' = Length
        /\ IF End >= Length THEN phase' = "blocks" /\ UNCHANGED start
                            ELSE start' = NextStart /\ UNCHANGED phase
    BY <1>3 DEF Window, Length
  <2>3. /\ start \in Nat /\ Length \in Int /\ start < Length /\ End \in Nat
        /\ End < Length => NextStart \in 0 .. Length - 1 /\ NextStart > start
    BY <2>2, WindowNumbers
  <2>4. TurnsLeft = m + (Length - start + 1)
    BY <2>1, <2>2 DEF TurnsLeft
  <2>5. CASE End >= Length
    <3>1. TurnsLeft' = m + 1
      BY <2>1, <2>2, <2>5 DEF TurnsLeft
    <3> QED BY <2>3, <2>4, <3>1
  <2>6. CASE End < Length
    <3>1. start' = NextStart /\ phase' = "windows"
      BY <2>2, <2>3, <2>6
    <3>2. TurnsLeft' = m + (Length - start' + 1)
      BY <2>1, <2>2, <3>1 DEF TurnsLeft
    <3> QED BY <2>3, <2>4, <2>6, <3>1, <3>2
  <2> QED BY <2>3, <2>5, <2>6
<1> QED BY <1>1, <1>2, <1>3 DEF Next

\* Every turn of the loops lowers a natural number, so chunk_text returns for
\* any text and any sizes it accepts (pipeline/mod.rs:449).
THEOREM TurnsAlwaysAdvance == Spec => TurnsAdvance
<1>1. ChunkInv /\ [Next]_vars => [0 <= TurnsLeft' /\ TurnsLeft' < TurnsLeft]_vars
  BY TurnsStep
<1> QED BY <1>1, ChunkAlways, PTL DEF Spec, TurnsAdvance
=============================================================================
