----------------------------- MODULE ChunkText ------------------------------
(***************************************************************************)
(* chunkText of the Node SDK (messaging/sender.ts): a text is cut into     *)
(* chunks of at most `limit` UTF-16 units, at a paragraph break, a line    *)
(* break or a space of the last 70 % of the window, or else at the limit.  *)
(* One step is one turn of the loop.  A text is a sequence of unit classes: *)
(* a line feed, a space, and anything else.                                *)
(***************************************************************************)
EXTENDS Integers, Sequences, FiniteSetsExt, SequencesExt

CONSTANTS
  limit,      \* MAX_TEXT_LENGTH
  TextLength  \* bound: units of a text

Units == {"lf", "sp", "x"}
Texts == UNION {[1..n -> Units] : n \in 0..TextLength}
ParagraphBreak == <<"lf", "lf">>
LineBreak == <<"lf">>
Space == <<"sp">>

VARIABLES
  text,      \* the text, once the call was made
  remaining, \* what is not yet in a chunk
  chunks,
  cutting    \* the loop runs

chunkVars == <<text, remaining, chunks, cutting>>

Init == text = <<>> /\ remaining = <<>> /\ chunks = <<>> /\ cutting = FALSE

Call(t) ==
  /\ chunks = <<>> /\ ~cutting
  /\ text' = t
  /\ IF Len(t) <= limit
       THEN chunks' = <<t>> /\ remaining' = <<>> /\ UNCHANGED cutting
       ELSE remaining' = t /\ cutting' = TRUE /\ UNCHANGED chunks

\* Indices count from 0, as in the code; -1: not found.
LastIndexOf(pattern, s) ==
  Max({-1} \cup {i \in 0..(Len(s) - Len(pattern)) :
                   SubSeq(s, i + 1, i + Len(pattern)) = pattern})

\* A break in the first 30 % of the window would waste most of the chunk.
Late(i) == 10 * i > 3 * limit

\* Mutant of SplitAt: the whole text is searched, not its first `limit` units.
SplitAtAnywhere(s) ==
  LET at == LastIndexOf(LineBreak, s) IN IF Late(at) THEN at + 1 ELSE limit

\* Mutant of SplitAt: spaces before lines.
SplitAtSpace(s) ==
  LET window == SubSeq(s, 1, limit)
      space == LastIndexOf(Space, window)
  IN IF Late(space) THEN space + 1 ELSE limit

SplitAt(s) ==
  LET window == SubSeq(s, 1, limit)
      paraBreak == LastIndexOf(ParagraphBreak, window)
      lineBreak == LastIndexOf(LineBreak, window)
      space == LastIndexOf(Space, window)
  IN CASE Late(paraBreak) -> paraBreak + 2
       [] ~Late(paraBreak) /\ Late(lineBreak) -> lineBreak + 1
       [] ~Late(paraBreak) /\ ~Late(lineBreak) /\ Late(space) -> space + 1
       [] OTHER -> limit

Cut ==
  /\ cutting
  /\ IF Len(remaining) <= limit
       THEN /\ chunks' = IF remaining = <<>> THEN chunks ELSE Append(chunks, remaining)
            /\ remaining' = <<>>
            /\ cutting' = FALSE
       ELSE /\ chunks' = Append(chunks, SubSeq(remaining, 1, SplitAt(remaining)))
            /\ remaining' = SubSeq(remaining, SplitAt(remaining) + 1, Len(remaining))
            /\ UNCHANGED cutting
  /\ UNCHANGED text

Next == (\E t \in Texts : Call(t)) \/ Cut

Spec == Init /\ [][Next]_chunkVars

-----------------------------------------------------------------------------
\* The chunks are the text, nothing lost or twice, none longer than the server
\* takes and none empty: each turn of the loop takes something off.
ChunksAreText ==
  /\ FlattenSeq(chunks) \o remaining = text
  /\ \A i \in DOMAIN chunks : Len(chunks[i]) \in (IF text = <<>> THEN 0 ELSE 1)..limit

\* A line is cut only where that spares the chunk from being nearly empty: a
\* chunk that does not end at a line break has none after its first 30 %; and
\* a word is cut only where it has no space there either.
CutsAtBreaks ==
  \A i \in 1..(Len(chunks) - 1) :
    LET late == {j \in DOMAIN chunks[i] : Late(j - 1)}
        end == chunks[i][Len(chunks[i])]
    IN /\ (\E j \in late : chunks[i][j] = "lf") => end = "lf"
       /\ (\E j \in late : chunks[i][j] = "sp") => end \in {"lf", "sp"}
=============================================================================
