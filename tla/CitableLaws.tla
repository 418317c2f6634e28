---------------------------- MODULE CitableLaws ----------------------------
(***************************************************************************)
(* What the ingestion promises to those who cite the chunks of a law.  A   *)
(* law is replaced as a whole, in one step and by one text, and its        *)
(* version counts the replacements.  A chunk keeps its identity at its     *)
(* place for as long as the law has one there; a chunk that is cited is    *)
(* never dropped; no identity is given twice, so a citation never comes    *)
(* to mean another place or another law.                                   *)
(***************************************************************************)
EXTENDS Integers

CONSTANTS
  Docs,   \* laws
  Texts   \* texts of laws: records with their number of chunks

VARIABLES
  law,    \* law: its version, and its text once it has one
  chunks, \* the chunks there are: identity, law, index and text
  used,   \* identities given so far
  cited   \* identities that are cited

vars == <<law, chunks, used, cited>>

Init ==
  /\ law = [d \in Docs |-> [version |-> 0]]
  /\ chunks = {} /\ used = {} /\ cited = {}

\* What becomes of a law's chunks when t replaces its text: a place that the
\* law had already keeps its identity, a new one gets one that was never used.
Rechunked(t, old, new) ==
  /\ {c.index : c \in new} = 0 .. t.chunks - 1
  /\ \A c, e \in new : c.index = e.index \/ c.id = e.id => c = e
  /\ \A c \in new :
       /\ c.text = t
       /\ \A e \in old : e.index = c.index => e.id = c.id
       /\ c.index \notin {e.index : e \in old} => c.id \in used' \ used
  /\ \A e \in old : e.id \in cited => \E c \in new : c.id = e.id

Replace(d) ==
  /\ law'[d].version = law[d].version + 1
  /\ \A e \in Docs \ {d} : law'[e] = law[e]
  /\ \E t \in Texts :
       /\ law'[d].text = t
       /\ Rechunked(t, {c \in chunks : c.doc = d}, {c \in chunks' : c.doc = d})
  /\ {c \in chunks' : c.doc # d} = {c \in chunks : c.doc # d}
  /\ used \subseteq used'
  /\ UNCHANGED cited

\* Only what is there is cited.
Cite(i) ==
  /\ cited' = cited \cup {i}
  /\ \E c \in chunks : c.id = i
  /\ UNCHANGED <<law, chunks, used>>

Next ==
  \/ \E i \in used : Cite(i)
  \/ \E d \in Docs : Replace(d)

Spec == Init /\ [][Next]_vars
=============================================================================
