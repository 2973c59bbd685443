------------------------------ MODULE Chunking ------------------------------
(***************************************************************************)
(* How a document is cut into overlapping chunks (rag/chunking.py).  A     *)
(* text is a sequence of words with what separates each from the next: a   *)
(* blank line, the space after a sentence, a line break, or a space.  Of a *)
(* word only its length matters, in characters.  A word too long for a     *)
(* chunk is cut, so that what a piece holds are parts of words.            *)
(***************************************************************************)
EXTENDS Integers, Sequences, FiniteSets, SequencesExt, FiniteSetsExt

(* _SPLIT_PATTERNS, most preferred first. *)
Paragraph == 0
Sentence == 1
Line == 2
Space == 3
Width(sep) == IF sep = Paragraph THEN 2 ELSE 1
IsSpace(sep) == sep \in {Sentence, Space}

Part(word, from, len, sep) == [word |-> word, from |-> from, len |-> len, sep |-> sep]

(* The characters of a text; what follows its last word does not count. *)
TextLen(text) ==
    FoldLeft(LAMBDA n, p : n + p.len + Width(p.sep), 0, text)
        - (IF text = <<>> THEN 0 ELSE Width(Last(text).sep))

JoinedBy(sep, a, b) ==
    IF a = <<>> THEN b ELSE [a EXCEPT ![Len(a)].sep = sep] \o b

(* The parts of a text between the separators of one kind. *)
SplitAt(text, kind) ==
    FoldLeft(LAMBDA parts, p :
                 IF parts # <<>> /\ Last(Last(parts)).sep # kind
                 THEN Append(Front(parts), Append(Last(parts), p))
                 ELSE Append(parts, <<p>>),
             <<>>, text)

(* A single word that is longer than a chunk. *)
HardCut(text, max) ==
    LET w == text[1] IN
    [i \in 1..((w.len + max - 1) \div max) |->
        <<Part(w.word, w.from + (i - 1) * max, Min({max, w.len - (i - 1) * max}), w.sep)>>]

Kept(out, buf) == IF buf = <<>> THEN out ELSE Append(out, buf)

(* _split_recursive at one depth; `deeper` is what each part is split into at the next,
   if it is too long. *)
SplitBy(text, max, depth, deeper) ==
    LET parts == SplitAt(text, depth)
        Recombine(acc, part) ==
            LET candidate == JoinedBy(IF depth = Paragraph THEN Paragraph ELSE Space, acc.buf, part)
            IN IF TextLen(candidate) <= max THEN [acc EXCEPT !.buf = candidate]
               ELSE IF TextLen(part) > max
                    THEN [out |-> Kept(acc.out, acc.buf) \o deeper[part], buf |-> <<>>]
                    ELSE [out |-> Kept(acc.out, acc.buf), buf |-> part]
        all == FoldLeft(Recombine, [out |-> <<>>, buf |-> <<>>], parts)
    IN IF text = <<>> THEN <<>>
       ELSE IF TextLen(text) <= max THEN <<text>>
       ELSE IF Len(parts) = 1 THEN deeper[parts[1]]
       ELSE Kept(all.out, all.buf)

(* Its calls for each kind of separator, down to a single word. *)
PartsAt(text, kind) == Range(SplitAt(text, kind))
AtSpaces(text, max) ==
    SplitBy(text, max, Space, [word \in PartsAt(text, Space) |-> HardCut(word, max)])
AtLines(text, max) ==
    SplitBy(text, max, Line, [part \in PartsAt(text, Line) |-> AtSpaces(part, max)])
AtSentences(text, max) ==
    SplitBy(text, max, Sentence, [part \in PartsAt(text, Sentence) |-> AtLines(part, max)])
SplitRecursive(text, max) ==
    SplitBy(text, max, Paragraph, [part \in PartsAt(text, Paragraph) |-> AtSentences(part, max)])

(* How many characters of the text come after the separator that follows part j. *)
After(text, j) == TextLen(SubSeq(text, j + 1, Len(text)))

(* The last n characters, cut back to what follows the first space in them; n = 0 is
   the whole text, a slice from -0. *)
Carried(text, n) ==
    LET chars == IF n = 0 THEN TextLen(text) ELSE n
        spaces == {j \in 1..Len(text) - 1 : IsSpace(text[j].sep) /\ After(text, j) + 1 <= chars}
        whole == {j \in 1..Len(text) : After(text, j - 1) <= chars}
        first == IF whole = {} THEN Len(text) + 1 ELSE Min(whole)
        left == chars - (IF first > Len(text) THEN 0
                         ELSE After(text, first - 1) + (IF first > 1 THEN Width(text[first - 1].sep) ELSE 0))
    IN IF spaces # {} THEN SubSeq(text, Min(spaces) + 1, Len(text))
       ELSE LET cut == text[first - 1] IN
            (IF first > 1 /\ left > 0
             THEN <<Part(cut.word, cut.from + cut.len - left, left, cut.sep)>> ELSE <<>>)
               \o SubSeq(text, first, Len(text))

Bug_Previous(chunks, pieces, i) == pieces[i - 1]    \* the piece, without what it was given
Previous(chunks, pieces, i) == Last(chunks)

ChunkText(text, max, overlap) ==
    LET pieces == SplitRecursive(text, max)
        WithOverlap(chunks, i) ==
            Append(chunks, JoinedBy(Space, Carried(Previous(chunks, pieces, i), overlap), pieces[i]))
    IN IF Len(pieces) <= 1 THEN pieces
       ELSE FoldLeft(WithOverlap, <<pieces[1]>>, [i \in 1..Len(pieces) - 1 |-> i + 1])

------------------------------------------------------------------------------
(* What the chunks of a text must be. *)

(* Pieces in which no word, and no part of one, is lost, repeated or moved. *)
Continues(p, q, text) ==
    \/ q.word = p.word /\ q.from = p.from + p.len
    \/ q.word = p.word + 1 /\ q.from = 0 /\ p.from + p.len = text[p.word].len
Unbroken(piece, text) ==
    piece # <<>> /\ \A i \in 1..Len(piece) - 1 : Continues(piece[i], piece[i + 1], text)
NothingLost(text, max) ==
    LET pieces == SplitRecursive(text, max)
        last == Last(Last(pieces))
    IN text # <<>> =>
           /\ \A i \in DOMAIN pieces : Unbroken(pieces[i], text)
           /\ \A i \in 1..Len(pieces) - 1 : Continues(Last(pieces[i]), pieces[i + 1][1], text)
           /\ pieces[1][1].word = 1 /\ pieces[1][1].from = 0
           /\ last.word = Len(text) /\ last.from + last.len = Last(text).len

SizeBounded(chunks, max, overlap) ==
    \A i \in DOMAIN chunks : TextLen(chunks[i]) <= max + overlap + 1

(* What a chunk ends with, after a space and within the overlap, the next one has
   as well, side by side: also where that is longer than the piece between them. *)
Same(p, q) == p.word = q.word /\ p.from = q.from /\ p.len = q.len
OverlapCarried(chunks, overlap) ==
    \A i \in 1..Len(chunks) - 1 :
        LET c == chunks[i]
            next == chunks[i + 1]
        IN \A j \in 2..Len(c) :
               IsSpace(c[j - 1].sep) /\ After(c, j - 1) + 1 <= overlap =>
                   \E d \in 0..Len(next) - (Len(c) - j + 1) :
                       \A k \in j..Len(c) : Same(c[k], next[d + k - j + 1])
==============================================================================
