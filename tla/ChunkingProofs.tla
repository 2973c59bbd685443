----------------------------- MODULE ChunkingProofs ---------------------------
(***************************************************************************)
(* What Reference asks of the chunks of a document, for documents of any   *)
(* size and chunks of any. A text's words are numbered, and what a text is *)
(* split into at a separator are slices of it (Slice, Within), which       *)
(* divide it (Divides). Recombined, and split further where they are too   *)
(* long, the slices become pieces that cover it (Covers): no word, and no  *)
(* part of one, is lost, repeated or moved between two of them. That holds *)
(* at each kind of separator because it does at the next, down to a word   *)
(* that is cut. Each piece is then given the end of the chunk before       *)
(* (CarriedIs, Repeats). Both the splitting and the recombining are folds, *)
(* taken one part further at a time.                                       *)
(***************************************************************************)
EXTENDS ReferenceProofs

------------------------------------------------------------------------------
(* The length of a text. *)

(* What a text is of, and how many characters a word and what follows it have. *)
WordParts == [word : Nat, from : Int, len : Nat, sep : 0..3]
Weight(p) == p.len + Width(p.sep)
Total(text) == FoldLeft(LAMBDA n, p : n + p.len + Width(p.sep), 0, text)
Weighing(text, h) ==
    h = [s \in SUBSET (DOMAIN text) |->
            IF s = {} THEN 0
            ELSE h[s \ {Max(s)}] + text[Max(s)].len + Width(text[Max(s)].sep)]

(* A separator has a width, and a word a weight. *)
LEMMA HasWeight ==
    ASSUME NEW p \in WordParts
    PROVE  /\ p.word \in Nat /\ p.from \in Int /\ p.len \in Nat /\ p.sep \in 0..3
           /\ Width(p.sep) \in 1..2 /\ Weight(p) \in Nat /\ Weight(p) = p.len + Width(p.sep)
BY DEF WordParts, Width, Weight, Paragraph

(* There is a weighing of any text. *)
LEMMA WeighingExists ==
    ASSUME NEW n \in Nat, NEW text, DOMAIN text = 1..n, \A i \in 1..n : text[i] \in WordParts
    PROVE  \E h : Weighing(text, h)
<1> DEFINE next == [i \in 1..n |-> [a \in Nat |-> a + text[i].len + Width(text[i].sep)]]
<1>1. 0 \in Nat
    OBVIOUS
<1>2. PICK g : FoldsBy(n, 0, next, g)
    BY FoldExists
<1>3. \A i \in 1..n : \A a \in Nat : next[i][a] = a + text[i].len + Width(text[i].sep)
    OBVIOUS
<1>4. \A i \in 1..n : \A a \in Nat : next[i][a] \in Nat
    <2> SUFFICES ASSUME NEW i \in 1..n, NEW a \in Nat
                 PROVE  a + text[i].len + Width(text[i].sep) \in Nat
        OBVIOUS
    <2>1. text[i].len \in Nat /\ Width(text[i].sep) \in 1..2
        BY HasWeight
    <2> QED
        BY <2>1
<1> HIDE DEF next
<1>5. \A s \in SUBSET (1..n) : g[s] \in Nat
    BY <1>1, <1>2, <1>4, FoldStays
<1>6. \A s \in SUBSET (1..n) :
          s # {} => next[Max(s)][g[s \ {Max(s)}]]
                        = g[s \ {Max(s)}] + text[Max(s)].len + Width(text[Max(s)].sep)
    <2> SUFFICES ASSUME NEW s \in SUBSET (1..n), s # {}
                 PROVE  next[Max(s)][g[s \ {Max(s)}]]
                            = g[s \ {Max(s)}] + text[Max(s)].len + Width(text[Max(s)].sep)
        OBVIOUS
    <2>1. Max(s) \in 1..n
        BY Latest
    <2> DEFINE m == Max(s)
    <2> HIDE DEF m
    <2>2. g[s \ {m}] \in Nat
        BY <1>5
    <2> QED
        BY <1>3, <2>1, <2>2 DEF m
<1>7. g = [s \in SUBSET (1..n) |-> IF s = {} THEN 0 ELSE next[Max(s)][g[s \ {Max(s)}]]]
    BY <1>2 DEF FoldsBy
<1>8. g = [s \in SUBSET (1..n) |->
              IF s = {} THEN 0
              ELSE g[s \ {Max(s)}] + text[Max(s)].len + Width(text[Max(s)].sep)]
    BY <1>6, <1>7, Zenon
<1>9. Weighing(text, g)
    BY <1>8 DEF Weighing
<1> QED
    BY <1>9

(* A text is weighed word by word. *)
LEMMA WeighedStepwise ==
    ASSUME NEW text \in Seq(WordParts)
    PROVE  \E t : /\ t[0] = 0
                  /\ \A k \in 1..Len(text) : t[k] = t[k - 1] + Weight(text[k])
                  /\ Total(text) = t[Len(text)]
<1> DEFINE h == CHOOSE h : Weighing(text, h)
           n == Len(text)
           t == [k \in 0..n |-> h[1..k]]
<1>1. n \in Nat /\ DOMAIN text = 1..n /\ \A i \in 1..n : text[i] \in WordParts
    OBVIOUS
<1>2. Weighing(text, h)
    BY <1>1, WeighingExists
<1>3. Total(text) = h[1..n]
    <2>1. Total(text) = h[DOMAIN text]
        BY DEF Total, FoldLeft, MapThenFoldSet, Weighing
    <2> QED
        BY <1>1, <2>1
<1> HIDE DEF h, n
<1>4. \A s \in SUBSET (1..n) :
          h[s] = IF s = {} THEN 0
                 ELSE h[s \ {Max(s)}] + text[Max(s)].len + Width(text[Max(s)].sep)
    BY <1>1, <1>2, Zenon DEF Weighing
<1>5. t[0] = 0 /\ h[1..0] = 0 /\ 0 \in 0..n
    <2>1. 1..0 = {} /\ {} \in SUBSET (1..n) /\ 0 \in 0..n
        BY <1>1
    <2>2. h[1..0] = 0
        BY <1>4, <2>1
    <2> QED
        BY <2>1, <2>2
<1>6. t[n] = h[1..n]
    BY <1>1
<1> DEFINE P == {k \in 0..n : h[1..k] \in Nat}
<1>7. 0 \in P
    BY <1>5
<1>8. ASSUME NEW k \in 1..n
      PROVE  h[1..k] = h[1..k - 1] + text[k].len + Width(text[k].sep)
    <2>1. 1..k \in SUBSET (1..n) /\ k \in 1..k /\ 1..k # {} /\ k \in Nat
        BY <1>1, UpTo
    <2>2. Max(1..k) = k
        BY <2>1, LatestIs
    <2>3. (1..k) \ {k} = 1..k - 1
        BY <1>1, UpTo
    <2>4. h[1..k] = h[(1..k) \ {Max(1..k)}] + text[Max(1..k)].len + Width(text[Max(1..k)].sep)
        BY <1>4, <2>1
    <2> QED
        BY <2>2, <2>3, <2>4
<1>9. ASSUME NEW k \in 1..n, k - 1 \in P
      PROVE  k \in P
    <2>1. text[k].len \in Nat /\ Width(text[k].sep) \in 1..2
        BY <1>1, HasWeight
    <2>2. h[1..k - 1] \in Nat /\ k \in 0..n
        BY <1>1, <1>9
    <2> QED
        BY <1>8, <2>1, <2>2
<1> HIDE DEF P
<1>10. ASSUME NEW k \in 0..n
       PROVE  k \in P
    <2>1. k \in Nat /\ \A i \in 1..k : i \in 1..n
        BY <1>1
    <2> QED
        BY <1>7, <1>9, <2>1, Climbing
<1>11. ASSUME NEW k \in 1..n
       PROVE  t[k] = t[k - 1] + Weight(text[k])
    <2>1. k \in 0..n /\ k - 1 \in 0..n
        BY <1>1, UpTo
    <2>2. h[1..k - 1] \in Nat
        BY <1>10, <2>1 DEF P
    <2>3. text[k].len \in Nat /\ Width(text[k].sep) \in 1..2
        BY <1>1, HasWeight
    <2>4. h[1..k] = h[1..k - 1] + (text[k].len + Width(text[k].sep))
        BY <1>8, <2>2, <2>3
    <2> QED
        BY <2>1, <2>4 DEF Weight
<1> HIDE DEF t
<1> QED
    BY <1>3, <1>5, <1>6, <1>11 DEF n

(* What is weighed word by word is the weight, and a number. *)
LEMMA WeighedIs ==
    ASSUME NEW text \in Seq(WordParts), NEW t, t[0] = 0,
           \A k \in 1..Len(text) : t[k] = t[k - 1] + Weight(text[k])
    PROVE  Total(text) = t[Len(text)] /\ Total(text) \in Nat
<1> DEFINE n == Len(text)
<1>1. n \in Nat /\ \A i \in 1..n : text[i] \in WordParts
    OBVIOUS
<1>2. PICK u : /\ u[0] = 0
               /\ \A k \in 1..n : u[k] = u[k - 1] + Weight(text[k])
               /\ Total(text) = u[n]
    BY WeighedStepwise
<1> DEFINE P == {k \in 0..n : t[k] = u[k] /\ t[k] \in Nat}
<1> HIDE DEF n
<1>3. 0 \in P
    BY <1>1, <1>2
<1>4. ASSUME NEW k \in 1..n, k - 1 \in P
      PROVE  k \in P
    <2>1. t[k] = t[k - 1] + Weight(text[k])
        BY DEF n
    <2>2. k \in 0..n /\ Weight(text[k]) \in Nat
        BY <1>1, HasWeight
    <2> QED
        BY <1>2, <1>4, <2>1, <2>2
<1> HIDE DEF P
<1>5. n \in P
    BY <1>1, <1>3, <1>4, Climbing
<1> QED
    BY <1>2, <1>5 DEF P, n

(* The weight of nothing and of a word. *)
LEMMA WeightOfFew ==
    /\ Total(<<>>) = 0
    /\ \A p \in WordParts : Total(<<p>>) = Weight(p)
<1>1. Total(<<>>) = 0
    <2> DEFINE t == [k \in 0..0 |-> 0]
    <2>1. t[0] = 0 /\ <<>> \in Seq(WordParts) /\ Len(<<>>) = 0
        OBVIOUS
    <2>2. \A k \in 1..Len(<<>>) : t[k] = t[k - 1] + Weight(<<>>[k])
        OBVIOUS
    <2> HIDE DEF t
    <2> QED
        BY <2>1, <2>2, WeighedIs
<1>2. ASSUME NEW p \in WordParts
      PROVE  Total(<<p>>) = Weight(p)
    <2> DEFINE t == [k \in 0..1 |-> IF k = 0 THEN 0 ELSE Weight(p)]
    <2>1. t[0] = 0 /\ t[1] = Weight(p) /\ <<p>> \in Seq(WordParts) /\ Len(<<p>>) = 1
        OBVIOUS
    <2> HIDE DEF t
    <2>2. \A k \in 1..Len(<<p>>) : t[k] = t[k - 1] + Weight(<<p>>[k])
        BY <2>1, HasWeight
    <2> QED
        BY <2>1, <2>2, WeighedIs
<1> QED
    BY <1>1, <1>2

(* Two texts weigh what both do. *)
LEMMA WeightsAdd ==
    ASSUME NEW a \in Seq(WordParts), NEW b \in Seq(WordParts)
    PROVE  /\ Total(a) \in Nat /\ Total(b) \in Nat
           /\ Total(a \o b) = Total(a) + Total(b)
<1> DEFINE m == Len(a)
           n == Len(b)
<1>1. m \in Nat /\ n \in Nat /\ a \o b \in Seq(WordParts) /\ Len(a \o b) = m + n
    OBVIOUS
<1>2. /\ \A i \in 1..m : (a \o b)[i] = a[i] /\ a[i] \in WordParts
      /\ \A i \in 1..n : (a \o b)[m + i] = b[i] /\ b[i] \in WordParts
    OBVIOUS
<1>3. PICK t : /\ t[0] = 0
               /\ \A k \in 1..m : t[k] = t[k - 1] + Weight(a[k])
               /\ Total(a) = t[m]
    BY WeighedStepwise
<1>4. PICK u : /\ u[0] = 0
               /\ \A k \in 1..n : u[k] = u[k - 1] + Weight(b[k])
               /\ Total(b) = u[n]
    BY WeighedStepwise
<1>5. Total(a) \in Nat
    BY <1>3, WeighedIs
<1>6. Total(b) \in Nat
    BY <1>4, WeighedIs
<1> DEFINE c == a \o b
           v == [k \in 0..m + n |-> IF k <= m THEN t[k] ELSE t[m] + u[k - m]]
<1> HIDE DEF m, n, c
<1>7. v[0] = 0
    BY <1>1, <1>3
<1> DEFINE P == {k \in 0..n : u[k] \in Nat}
<1>8. 0 \in P
    BY <1>1, <1>4
<1>9. ASSUME NEW k \in 1..n, k - 1 \in P
      PROVE  k \in P
    <2>1. Weight(b[k]) \in Nat
        BY <1>2, HasWeight
    <2> QED
        BY <1>1, <1>4, <1>9, <2>1
<1> HIDE DEF P
<1>10. ASSUME NEW k \in 0..n
       PROVE  u[k] \in Nat
    <2>1. k \in Nat /\ \A i \in 1..k : i \in 1..n
        BY <1>1
    <2>2. k \in P
        BY <1>8, <1>9, <2>1, Climbing
    <2> QED
        BY <2>2 DEF P
<1>11. ASSUME NEW k \in 1..m + n
       PROVE  v[k] = v[k - 1] + Weight(c[k])
    <2>1. CASE k <= m
        <3>1. c[k] = a[k] /\ v[k] = t[k] /\ v[k - 1] = t[k - 1]
            BY <1>1, <1>2, <2>1 DEF c
        <3> QED
            BY <1>1, <1>3, <2>1, <3>1
    <2>2. CASE k > m
        <3> DEFINE i == k - m
        <3>1. i \in 1..n /\ k = m + i /\ i - 1 \in 0..n
            BY <1>1, <2>2
        <3>2. c[k] = b[i]
            BY <1>2, <3>1 DEF c
        <3>3. u[i] = u[i - 1] + Weight(b[i])
            BY <1>4, <3>1
        <3>4. v[k] = t[m] + u[i]
            BY <1>1, <2>2
        <3>5. v[k - 1] = t[m] + u[i - 1]
            <4>1. CASE i = 1
                <5>1. k - 1 = m
                    BY <1>1, <2>2, <4>1
                <5>2. m \in 0..m + n
                    BY <1>1
                <5>3. v[m] = t[m] /\ t[m] \in Nat
                    BY <1>1, <1>3, <1>5, <5>2
                <5>4. u[i - 1] = 0
                    BY <1>4, <4>1
                <5> HIDE DEF v, i
                <5> QED
                    BY <5>1, <5>3, <5>4
            <4>2. CASE i # 1
                <5>1. k - 1 \in 0..m + n /\ ~ k - 1 <= m /\ k - 1 - m = i - 1
                    BY <1>1, <2>2, <4>2
                <5> QED
                    BY <5>1
            <4> QED
                BY <4>1, <4>2
        <3>6. Weight(b[i]) \in Nat /\ u[i - 1] \in Nat /\ t[m] \in Nat
            BY <1>2, <1>3, <1>5, <1>10, <3>1, HasWeight
        <3> HIDE DEF i
        <3> QED
            BY <3>2, <3>3, <3>4, <3>5, <3>6
    <2> QED
        BY <1>1, <2>1, <2>2
<1>12. v[m + n] = t[m] + u[n]
    BY <1>1, <1>3, <1>4, <1>5
<1> HIDE DEF v
<1>13. Total(c) = v[m + n]
    <2>1. c \in Seq(WordParts) /\ Len(c) = m + n
        BY <1>1 DEF c
    <2>2. \A k \in 1..Len(c) : v[k] = v[k - 1] + Weight(c[k])
        BY <1>11, <2>1
    <2> QED
        BY <1>7, <2>1, <2>2, WeighedIs
<1> QED
    BY <1>3, <1>4, <1>5, <1>6, <1>12, <1>13 DEF c

(* Places short of the last of n. *)
LEMMA ShortOf ==
    ASSUME NEW n \in Nat \ {0}
    PROVE  /\ n \in 1..n /\ 1 \in 1..n /\ 1 \in Int /\ n - 1 \in Int
           /\ n - 1 - 1 + 1 = n - 1 /\ (IF 1 <= n - 1 THEN n - 1 - 1 + 1 ELSE 0) = n - 1
           /\ \A i \in 1..n - 1 : 1 + i - 1 = i
OBVIOUS

(* What a text is, without its last word. *)
LEMMA TextIsLonger ==
    ASSUME NEW a \in Seq(WordParts), a # <<>>
    PROVE  /\ Len(a) \in Nat \ {0} /\ Last(a) = a[Len(a)] /\ Last(a) \in WordParts
           /\ SubSeq(a, 1, Len(a) - 1) \in Seq(WordParts)
           /\ a = SubSeq(a, 1, Len(a) - 1) \o <<Last(a)>>
           /\ Len(SubSeq(a, 1, Len(a) - 1)) = Len(a) - 1
           /\ \A i \in 1..Len(a) - 1 : SubSeq(a, 1, Len(a) - 1)[i] = a[i]
<1>1. Len(a) \in Nat \ {0}
    OBVIOUS
<1>2. Last(a) = a[Len(a)] /\ a[Len(a)] \in WordParts
    BY <1>1 DEF Last
<1>3. \A i \in 1..Len(a) - 1 : a[i] \in WordParts
    OBVIOUS
<1> DEFINE b == SubSeq(a, 1, Len(a) - 1)
<1>4. /\ b \in Seq(WordParts)
      /\ Len(b) = (IF 1 <= Len(a) - 1 THEN Len(a) - 1 - 1 + 1 ELSE 0)
      /\ \A i \in 1..Len(a) - 1 - 1 + 1 : b[i] = a[1 + i - 1]
    BY <1>1, <1>3, ShortOf, SubSeqProperties
<1>5. SubSeq(a, 1, Len(a)) = b \o <<a[Len(a)]>>
    BY <1>1, ShortOf, SubSeqRecursiveSecond
<1>6. SubSeq(a, 1, Len(a)) = a
    BY SubSeqFull
<1> HIDE DEF b
<1>7. Len(b) = Len(a) - 1 /\ \A i \in 1..Len(a) - 1 : b[i] = a[i]
    BY <1>1, <1>4, ShortOf
<1> QED
    BY <1>1, <1>2, <1>4, <1>5, <1>6, <1>7 DEF b

(* The length of a text is what comes before its last word and that word. *)
LEMMA LengthIs ==
    ASSUME NEW b \in Seq(WordParts), NEW p \in WordParts
    PROVE  TextLen(b \o <<p>>) = Total(b) + p.len /\ TextLen(b \o <<p>>) \in Nat
<1> DEFINE a == b \o <<p>>
<1>1. a \in Seq(WordParts) /\ a # <<>> /\ Last(a) = p
    BY DEF Last
<1>2. Total(a) = Total(b) + Weight(p) /\ Total(b) \in Nat
    <2>1. <<p>> \in Seq(WordParts)
        OBVIOUS
    <2> QED
        BY <2>1, WeightsAdd, WeightOfFew
<1> HIDE DEF a
<1>3. TextLen(a) = Total(a) - Width(p.sep)
    BY <1>1 DEF TextLen, Total
<1> QED
    BY <1>2, <1>3, HasWeight DEF a

(* The length of nothing and of a word. *)
LEMMA LengthOfFew ==
    /\ TextLen(<<>>) = 0
    /\ \A p \in WordParts : TextLen(<<p>>) = p.len
<1>1. TextLen(<<>>) = 0
    <2>1. TextLen(<<>>) = Total(<<>>) - 0
        BY DEF TextLen, Total
    <2> QED
        BY <2>1, WeightOfFew
<1>2. ASSUME NEW p \in WordParts
      PROVE  TextLen(<<p>>) = p.len
    <2>1. <<>> \in Seq(WordParts) /\ <<>> \o <<p>> = <<p>>
        OBVIOUS
    <2>2. TextLen(<<>> \o <<p>>) = Total(<<>>) + p.len
        BY <2>1, LengthIs
    <2>3. p.len \in Nat
        BY HasWeight
    <2> QED
        BY <2>1, <2>2, <2>3, WeightOfFew
<1> QED
    BY <1>1, <1>2

(* A length is a number. *)
LEMMA LengthIsANumber ==
    ASSUME NEW a \in Seq(WordParts)
    PROVE  TextLen(a) \in Nat
<1>1. CASE a = <<>>
    BY <1>1, LengthOfFew
<1>2. CASE a # <<>>
    <2> DEFINE b == SubSeq(a, 1, Len(a) - 1)
    <2>1. b \in Seq(WordParts) /\ Last(a) \in WordParts /\ a = b \o <<Last(a)>>
        BY <1>2, TextIsLonger
    <2> HIDE DEF b
    <2>2. TextLen(b \o <<Last(a)>>) \in Nat
        BY <2>1, LengthIs
    <2> QED
        BY <2>1, <2>2
<1> QED
    BY <1>1, <1>2

(* Two texts, one after the other, are as long as both and the separator between. *)
LEMMA LengthsAdd ==
    ASSUME NEW a \in Seq(WordParts), a # <<>>, NEW b \in Seq(WordParts), b # <<>>
    PROVE  TextLen(a \o b) = TextLen(a) + Width(Last(a).sep) + TextLen(b)
<1> DEFINE c == SubSeq(b, 1, Len(b) - 1)
           p == Last(b)
<1>1. c \in Seq(WordParts) /\ p \in WordParts /\ b = c \o <<p>> /\ Last(a) \in WordParts
    BY TextIsLonger
<1> HIDE DEF c, p
<1>2. TextLen(b) = Total(c) + p.len /\ Total(c) \in Nat
    BY <1>1, LengthIs, WeightsAdd
<1>3. a \o b = (a \o c) \o <<p>> /\ a \o c \in Seq(WordParts)
    BY <1>1
<1>4. TextLen(a \o b) = Total(a \o c) + p.len
    BY <1>1, <1>3, LengthIs
<1>5. Total(a \o c) = Total(a) + Total(c) /\ Total(a) \in Nat
    BY <1>1, WeightsAdd
<1>6. TextLen(a) = Total(a) - Width(Last(a).sep)
    BY DEF TextLen, Total
<1>7. p.len \in Nat /\ Width(Last(a).sep) \in 1..2
    BY <1>1, HasWeight
<1> QED
    BY <1>2, <1>4, <1>5, <1>6, <1>7

(* Another separator after the last word leaves the words and the length. *)
LEMMA SeparatedIs ==
    ASSUME NEW a \in Seq(WordParts), a # <<>>, NEW sep \in 0..3
    PROVE  LET b == [a EXCEPT ![Len(a)].sep = sep] IN
           /\ b \in Seq(WordParts) /\ b # <<>> /\ Len(b) = Len(a) /\ Last(b).sep = sep
           /\ \A i \in DOMAIN a : Same(a[i], b[i])
           /\ \A i \in 1..Len(a) - 1 : a[i] = b[i]
           /\ TextLen(b) = TextLen(a)
<1> DEFINE c == SubSeq(a, 1, Len(a) - 1)
           p == Last(a)
           q == [p EXCEPT !.sep = sep]
           b == [a EXCEPT ![Len(a)].sep = sep]
<1>0. c \in Seq(WordParts) /\ a = c \o <<p>>
    BY TextIsLonger
<1>1. p \in WordParts /\ Len(a) \in Nat \ {0} /\ p = a[Len(a)]
    BY TextIsLonger
<1>2. q \in WordParts /\ q.sep = sep /\ q.len = p.len /\ Same(p, q)
    BY <1>1 DEF WordParts, Same
<1>3. b \in Seq(WordParts) /\ Len(b) = Len(a) /\ b[Len(a)] = q
      /\ \A i \in 1..Len(a) - 1 : a[i] = b[i]
    <2>1. Len(a) \in 1..Len(a) /\ DOMAIN a = 1..Len(a) /\ \A i \in 1..Len(a) : a[i] \in WordParts
        BY <1>1
    <2>2. b = [a EXCEPT ![Len(a)] = q]
        BY <1>1
    <2> HIDE DEF q, b, p
    <2>3. b \in Seq(WordParts) /\ Len(b) = Len(a)
          /\ \A i \in 1..Len(a) : b[i] = IF i = Len(a) THEN q ELSE a[i]
        BY <1>2, <2>1, <2>2, ExceptSeq
    <2>4. b[Len(a)] = q
        BY <2>1, <2>3
    <2>5. \A i \in 1..Len(a) - 1 : a[i] = b[i]
        <3> SUFFICES ASSUME NEW i \in 1..Len(a) - 1 PROVE a[i] = b[i]
            OBVIOUS
        <3>1. i \in 1..Len(a) /\ i # Len(a)
            BY <1>1
        <3> QED
            BY <2>3, <3>1
    <2> QED
        BY <2>3, <2>4, <2>5
<1>4. b = c \o <<q>>
    <2> HIDE DEF b, q, p
    <2>3. c \in Seq(WordParts) /\ Len(c) = Len(a) - 1 /\ \A i \in 1..Len(a) - 1 : c[i] = a[i]
        BY TextIsLonger
    <2> HIDE DEF c
    <2> DEFINE d == c \o <<q>>
    <2>5. d \in Seq(WordParts) /\ Len(d) = Len(a) /\ \A i \in 1..Len(a) : d[i] = b[i]
        BY <1>1, <1>2, <1>3, <2>3
    <2> HIDE DEF d
    <2>6. d = b
        BY <1>3, <2>5, SeqEqual
    <2> QED
        BY <2>6 DEF d
<1>5. TextLen(b) = TextLen(a)
    <2> HIDE DEF b, c, p, q
    <2> QED
        BY <1>0, <1>1, <1>2, <1>4, LengthIs
<1>6. Last(b).sep = sep /\ b # <<>>
    <2> HIDE DEF b, q
    <2> QED
        BY <1>1, <1>2, <1>3 DEF Last
<1>7. \A i \in DOMAIN a : Same(a[i], b[i])
    <2> SUFFICES ASSUME NEW i \in DOMAIN a
                 PROVE  Same(a[i], b[i])
        OBVIOUS
    <2>1. i \in 1..Len(a)
        OBVIOUS
    <2> HIDE DEF b
    <2>2. i = Len(a) \/ i \in 1..Len(a) - 1
        BY <1>1, <2>1
    <2> QED
        BY <1>1, <1>2, <1>3, <2>2 DEF Same
<1> QED
    BY <1>3, <1>5, <1>6, <1>7

(* Texts joined: the words of the one and of the other, and a separator between. *)
LEMMA JoinedIs ==
    ASSUME NEW a \in Seq(WordParts), a # <<>>, NEW b \in Seq(WordParts), b # <<>>, NEW sep \in 0..3
    PROVE  LET c == JoinedBy(sep, a, b) IN
           /\ c \in Seq(WordParts) /\ c # <<>> /\ Len(c) = Len(a) + Len(b)
           /\ \A i \in 1..Len(a) : Same(a[i], c[i])
           /\ \A i \in 1..Len(b) : c[Len(a) + i] = b[i]
           /\ TextLen(c) = TextLen(a) + Width(sep) + TextLen(b)
<1> DEFINE d == [a EXCEPT ![Len(a)].sep = sep]
           c == JoinedBy(sep, a, b)
<1>1. /\ d \in Seq(WordParts) /\ d # <<>> /\ Len(d) = Len(a) /\ Last(d).sep = sep
      /\ \A i \in DOMAIN a : Same(a[i], d[i])
      /\ TextLen(d) = TextLen(a)
    BY SeparatedIs
<1>2. c = d \o b
    BY DEF JoinedBy
<1> HIDE DEF c, d
<1>3. c \in Seq(WordParts) /\ c # <<>> /\ Len(c) = Len(a) + Len(b)
    <2>1. c \in Seq(WordParts) /\ Len(c) = Len(d) + Len(b)
        BY <1>1, <1>2, ConcatProperties
    <2>2. Len(d) \in Nat /\ Len(b) \in Nat \ {0}
        BY <1>1
    <2>3. Len(c) # 0
        BY <2>1, <2>2
    <2> QED
        BY <1>1, <2>1, <2>3
<1>4. \A i \in 1..Len(a) : Same(a[i], c[i])
    <2> SUFFICES ASSUME NEW i \in 1..Len(a) PROVE Same(a[i], c[i])
        OBVIOUS
    <2>1. c[i] = d[i]
        BY <1>1, <1>2
    <2> QED
        BY <1>1, <2>1
<1>5. \A i \in 1..Len(b) : c[Len(a) + i] = b[i]
    BY <1>1, <1>2
<1>6. TextLen(c) = TextLen(a) + Width(sep) + TextLen(b)
    BY <1>1, <1>2, LengthsAdd
<1> QED
    BY <1>3, <1>4, <1>5, <1>6 DEF c

(* What comes after a word: nothing after the last, and the next one first. *)
LEMMA AfterIs ==
    ASSUME NEW a \in Seq(WordParts)
    PROVE  /\ \A j \in 0..Len(a) : After(a, j) \in Nat /\ SubSeq(a, j + 1, Len(a)) \in Seq(WordParts)
           /\ After(a, Len(a)) = 0
           /\ \A j \in 0..Len(a) - 2 :
                  After(a, j) = a[j + 1].len + Width(a[j + 1].sep) + After(a, j + 1)
<1>1. Len(a) \in Nat
    OBVIOUS
<1>2. ASSUME NEW j \in 0..Len(a)
      PROVE  After(a, j) \in Nat /\ SubSeq(a, j + 1, Len(a)) \in Seq(WordParts)
    <2>1. SubSeq(a, j + 1, Len(a)) \in Seq(WordParts)
        BY <1>1
    <2> QED
        BY <2>1, LengthIsANumber DEF After
<1>3. After(a, Len(a)) = 0
    <2>1. SubSeq(a, Len(a) + 1, Len(a)) = <<>>
        BY <1>1
    <2> QED
        BY <2>1, LengthOfFew DEF After
<1>4. ASSUME NEW j \in 0..Len(a) - 2
      PROVE  After(a, j) = a[j + 1].len + Width(a[j + 1].sep) + After(a, j + 1)
    <2> DEFINE p == a[j + 1]
               c == SubSeq(a, j + 1 + 1, Len(a))
    <2>1. p \in WordParts /\ j + 1 \in 1..Len(a) /\ Len(a) \in j + 1..Len(a)
          /\ j + 1 \in 0..Len(a) /\ j + 1 + 1 \in Int /\ j + 1 + 1 <= Len(a)
        BY <1>1
    <2>2. c \in Seq(WordParts)
        BY <1>2, <2>1
    <2>3. c # <<>>
        <3>1. \A i \in j + 1 + 1..Len(a) : a[i] \in WordParts
            BY <2>1
        <3>2. Len(c) = Len(a) - (j + 1 + 1) + 1
            BY <1>1, <2>1, <3>1, SubSeqProperties
        <3> HIDE DEF c
        <3>3. Len(c) # 0
            BY <1>1, <2>1, <3>2
        <3> QED
            BY <3>3
    <2>4. SubSeq(a, j + 1, Len(a)) = <<p>> \o c
        BY <2>1, SubSeqRecursiveFirst
    <2> HIDE DEF p, c
    <2>5. <<p>> \in Seq(WordParts) /\ <<p>> # <<>> /\ Last(<<p>>) = p
        BY <2>1 DEF Last
    <2>6. TextLen(<<p>> \o c) = TextLen(<<p>>) + Width(p.sep) + TextLen(c)
        BY <2>2, <2>3, <2>5, LengthsAdd
    <2>7. TextLen(<<p>>) = p.len
        BY <2>1, LengthOfFew
    <2> QED
        BY <2>4, <2>6, <2>7 DEF After, p, c
<1> QED
    BY <1>2, <1>3, <1>4

------------------------------------------------------------------------------
(* A text and its parts.  The words of a text are numbered, and a slice of it is the
   words from one number to another. *)
Whole(T) ==
    /\ T \in Seq(WordParts)
    /\ \A i \in DOMAIN T : T[i].word = i /\ T[i].from = 0 /\ T[i].len \in Nat \ {0}
Slice(s, T) ==
    /\ s \in Seq(WordParts) /\ s # <<>>
    /\ \A i \in DOMAIN s : s[1].word + i - 1 \in DOMAIN T /\ s[i] = T[s[1].word + i - 1]
Within(s, u) == u[1].word <= s[1].word /\ Last(s).word <= Last(u).word
Clean(s, kinds) == \A i \in 1..Len(s) - 1 : s[i].sep \notin kinds

(* The words of a slice have consecutive numbers. *)
LEMMA SliceIs ==
    ASSUME NEW T, Whole(T), NEW s, Slice(s, T)
    PROVE  /\ Len(s) \in Nat \ {0} /\ DOMAIN s = 1..Len(s) /\ Last(s) = s[Len(s)]
           /\ \A i \in 1..Len(s) :
                  /\ s[i] \in WordParts /\ s[i].word = s[1].word + i - 1 /\ s[i].word \in 1..Len(T)
                  /\ s[i] = T[s[i].word] /\ s[i].from = 0 /\ s[i].len \in Nat \ {0}
           /\ s[1].word \in Nat \ {0} /\ Last(s).word = s[1].word + Len(s) - 1
<1>1. Len(s) \in Nat \ {0} /\ DOMAIN s = 1..Len(s) /\ s \in Seq(WordParts)
    BY DEF Slice
<1>2. Last(s) = s[Len(s)] /\ Len(s) \in 1..Len(s) /\ 1 \in 1..Len(s)
    BY <1>1 DEF Last
<1>3. DOMAIN T = 1..Len(T) /\ Len(T) \in Nat
    BY DEF Whole
<1>4. ASSUME NEW i \in 1..Len(s)
      PROVE  /\ s[i] \in WordParts /\ s[i].word = s[1].word + i - 1 /\ s[i].word \in 1..Len(T)
             /\ s[i] = T[s[i].word] /\ s[i].from = 0 /\ s[i].len \in Nat \ {0}
    <2> DEFINE m == s[1].word + i - 1
    <2>1. m \in DOMAIN T /\ s[i] = T[m]
        BY <1>1 DEF Slice
    <2>2. T[m].word = m /\ T[m].from = 0 /\ T[m].len \in Nat \ {0}
        BY <2>1 DEF Whole
    <2>3. s[i] \in WordParts
        BY <1>1
    <2> HIDE DEF m
    <2>4. s[i].word = m
        BY <2>1, <2>2
    <2> QED
        BY <1>3, <2>1, <2>2, <2>3, <2>4 DEF m
<1>5. s[1].word \in Nat \ {0}
    BY <1>2, <1>3, <1>4
<1> QED
    BY <1>1, <1>2, <1>4, <1>5

(* A part of a slice in which some separators are not inside has none of them inside. *)
LEMMA CleanWithin ==
    ASSUME NEW T, Whole(T), NEW s, Slice(s, T), NEW u, Slice(u, T), Within(s, u),
           NEW kinds, Clean(u, kinds)
    PROVE  Clean(s, kinds)
<1> SUFFICES ASSUME NEW i \in 1..Len(s) - 1
             PROVE  s[i].sep \notin kinds
    BY DEF Clean
<1> DEFINE a == s[1].word
           b == u[1].word
           m == Len(s)
           n == Len(u)
           j == a + i - b
<1>1. m \in Nat \ {0} /\ n \in Nat \ {0} /\ a \in Nat \ {0} /\ b \in Nat \ {0} /\ i \in 1..m
      /\ Last(s).word = a + m - 1 /\ Last(u).word = b + n - 1
    BY SliceIs
<1>2. s[i].word = a + i - 1 /\ s[i] = T[s[i].word]
    BY <1>1, SliceIs
<1>3. b <= a /\ a + m - 1 <= b + n - 1
    BY <1>1 DEF Within
<1> HIDE DEF a, b, m, n
<1>4. i \in 1..m - 1
    BY DEF m
<1>5. j \in 1..n - 1 /\ j \in 1..n /\ b + j - 1 = a + i - 1
    BY <1>1, <1>3, <1>4
<1> HIDE DEF j
<1>6. u[j].word = b + j - 1 /\ u[j] = T[u[j].word]
    BY <1>5, SliceIs DEF b, n
<1>7. u[j] = s[i]
    BY <1>2, <1>5, <1>6
<1>8. u[j].sep \notin kinds
    BY <1>5 DEF Clean, n
<1> QED
    BY <1>7, <1>8

(* A word more. *)
LEMMA SliceOfOneMore ==
    ASSUME NEW T, Whole(T), NEW s, Slice(s, T), NEW p \in WordParts, p.word = Last(s).word + 1,
           p.word \in DOMAIN T, p = T[p.word]
    PROVE  /\ Slice(Append(s, p), T) /\ Append(s, p)[1] = s[1] /\ Last(Append(s, p)) = p
           /\ \A kind : Clean(s, {kind}) /\ Last(s).sep # kind => Clean(Append(s, p), {kind})
<1> DEFINE u == Append(s, p)
           n == Len(s)
<1>1. s \in Seq(WordParts) /\ n \in Nat \ {0} /\ Last(s) = s[n] /\ s[1].word \in Nat
      /\ Last(s).word = s[1].word + n - 1
    BY SliceIs DEF Slice
<1>2. /\ u \in Seq(WordParts) /\ u # <<>> /\ Len(u) = n + 1
      /\ \A i \in 1..n : u[i] = s[i]
      /\ u[n + 1] = p
    BY <1>1, AppendProperties
<1> HIDE DEF u, n
<1>3. DOMAIN u = 1..n + 1 /\ u[1] = s[1]
    BY <1>1, <1>2
<1>4. Last(u) = p
    BY <1>1, <1>2 DEF Last
<1>5. ASSUME NEW i \in DOMAIN u
      PROVE  u[1].word + i - 1 \in DOMAIN T /\ u[i] = T[u[1].word + i - 1]
    <2>1. CASE i \in 1..n
        BY <1>2, <1>3, <2>1 DEF Slice, n
    <2>2. CASE i = n + 1
        <3>1. s[1].word + (n + 1) - 1 = p.word
            BY <1>1
        <3>2. u[1].word + i - 1 = p.word
            BY <1>3, <2>2, <3>1
        <3>3. u[i] = p
            BY <1>2, <2>2
        <3> QED
            BY <3>2, <3>3
    <2> QED
        BY <1>1, <1>3, <2>1, <2>2
<1>6. ASSUME NEW kind, Clean(s, {kind}), Last(s).sep # kind
      PROVE  Clean(u, {kind})
    <2> SUFFICES ASSUME NEW i \in 1..n
                 PROVE  u[i].sep # kind
        BY <1>1, <1>2 DEF Clean
    <2>1. CASE i = n
        BY <1>1, <1>2, <1>6, <2>1
    <2>2. CASE i # n
        <3>1. i \in 1..n - 1
            BY <1>1, <2>2
        <3> QED
            BY <1>2, <1>6, <3>1 DEF Clean, n
    <2> QED
        BY <2>1, <2>2
<1> QED
    BY <1>2, <1>3, <1>4, <1>5, <1>6 DEF Slice, u

(* A word is a slice. *)
LEMMA SliceOfOne ==
    ASSUME NEW T, Whole(T), NEW p \in WordParts, p.word \in DOMAIN T, p = T[p.word]
    PROVE  /\ Slice(<<p>>, T) /\ <<p>>[1] = p /\ Last(<<p>>) = p /\ <<p>> \in Seq(WordParts)
           /\ \A kinds : Clean(<<p>>, kinds)
<1> DEFINE u == <<p>>
<1>1. u \in Seq(WordParts) /\ u # <<>> /\ Len(u) = 1 /\ u[1] = p /\ DOMAIN u = {1}
    OBVIOUS
<1> HIDE DEF u
<1>2. Last(u) = p
    BY <1>1 DEF Last
<1>3. p.word + 1 - 1 = p.word
    BY HasWeight
<1>4. Slice(u, T)
    BY <1>1, <1>3 DEF Slice
<1>5. \A kinds : Clean(u, kinds)
    BY <1>1 DEF Clean
<1> QED
    BY <1>1, <1>2, <1>4, <1>5 DEF u

(* The last of a list replaced. *)
LEMMA LastReplaced ==
    ASSUME NEW S, NEW P \in Seq(S), P # <<>>, NEW x \in S
    PROVE  LET Q == Append(Front(P), x) IN
           /\ Q \in Seq(S) /\ Q # <<>> /\ Len(Q) = Len(P) /\ Last(Q) = x /\ Q[Len(P)] = x
           /\ \A i \in 1..Len(P) - 1 : Q[i] = P[i]
<1> DEFINE b == Front(P)
           Q == Append(b, x)
<1>1. Len(P) \in Nat \ {0}
    OBVIOUS
<1>2. \A i \in 1..Len(P) - 1 : P[i] \in S
    OBVIOUS
<1>3. /\ b \in Seq(S)
      /\ Len(b) = (IF 1 <= Len(P) - 1 THEN Len(P) - 1 - 1 + 1 ELSE 0)
      /\ \A i \in 1..Len(P) - 1 - 1 + 1 : b[i] = P[1 + i - 1]
    BY <1>1, <1>2, ShortOf, SubSeqProperties DEF Front
<1> HIDE DEF b
<1>4. Len(b) = Len(P) - 1 /\ \A i \in 1..Len(P) - 1 : b[i] = P[i]
    BY <1>1, <1>3, ShortOf
<1>5. /\ Q \in Seq(S) /\ Q # <<>> /\ Len(Q) = Len(b) + 1
      /\ \A i \in 1..Len(b) : Q[i] = b[i]
      /\ Q[Len(b) + 1] = x
    BY <1>3, AppendProperties
<1> HIDE DEF Q
<1>6. Len(Q) = Len(P) /\ Q[Len(P)] = x
    BY <1>1, <1>4, <1>5
<1>7. Last(Q) = x
    BY <1>6 DEF Last
<1>8. \A i \in 1..Len(P) - 1 : Q[i] = P[i]
    BY <1>4, <1>5
<1> QED
    BY <1>5, <1>6, <1>7, <1>8 DEF Q, b

------------------------------------------------------------------------------
(* Splitting a text at the separators of one kind, word by word. *)
SplitStep(parts, p, kind) ==
    IF parts # <<>> /\ Last(Last(parts)).sep # kind
    THEN Append(Front(parts), Append(Last(parts), p))
    ELSE Append(parts, <<p>>)
Splitting(text, kind, h) ==
    h = [s \in SUBSET (DOMAIN text) |->
            IF s = {} THEN <<>> ELSE SplitStep(h[s \ {Max(s)}], text[Max(s)], kind)]

(* A word more leaves a list of parts. *)
LEMMA SplitStepStays ==
    ASSUME NEW parts \in Seq(Seq(WordParts)), NEW p \in WordParts, NEW kind
    PROVE  SplitStep(parts, p, kind) \in Seq(Seq(WordParts))
<1>1. CASE parts # <<>> /\ Last(Last(parts)).sep # kind
    <2>1. Last(parts) \in Seq(WordParts)
        BY <1>1 DEF Last
    <2> DEFINE x == Append(Last(parts), p)
    <2>2. x \in Seq(WordParts)
        BY <2>1
    <2> HIDE DEF x
    <2>3. Append(Front(parts), x) \in Seq(Seq(WordParts))
        BY <1>1, <2>2, LastReplaced
    <2> QED
        BY <1>1, <2>3 DEF SplitStep, x
<1>2. CASE ~ (parts # <<>> /\ Last(Last(parts)).sep # kind)
    <2>1. <<p>> \in Seq(WordParts)
        OBVIOUS
    <2> DEFINE x == <<p>>
    <2> HIDE DEF x
    <2>2. Append(parts, x) \in Seq(Seq(WordParts))
        BY <2>1 DEF x
    <2>3. SplitStep(parts, p, kind) = Append(parts, x)
        BY <1>2 DEF SplitStep, x
    <2> QED
        BY <2>2, <2>3
<1> QED
    BY <1>1, <1>2

(* There is such a splitting of any text. *)
LEMMA SplittingExists ==
    ASSUME NEW n \in Nat, NEW text, DOMAIN text = 1..n, \A i \in 1..n : text[i] \in WordParts, NEW kind
    PROVE  \E h : Splitting(text, kind, h)
<1> DEFINE A == Seq(Seq(WordParts))
           next == [i \in 1..n |-> [a \in A |-> SplitStep(a, text[i], kind)]]
<1>1. <<>> \in A
    OBVIOUS
<1>2. PICK g : FoldsBy(n, <<>>, next, g)
    BY FoldExists
<1>3. \A i \in 1..n : \A a \in A : next[i][a] = SplitStep(a, text[i], kind)
    OBVIOUS
<1>4. \A i \in 1..n : \A a \in A : next[i][a] \in A
    BY SplitStepStays
<1> HIDE DEF next, A
<1>5. \A s \in SUBSET (1..n) : g[s] \in A
    BY <1>1, <1>2, <1>4, FoldStays
<1>6. \A s \in SUBSET (1..n) :
          s # {} => next[Max(s)][g[s \ {Max(s)}]] = SplitStep(g[s \ {Max(s)}], text[Max(s)], kind)
    <2> SUFFICES ASSUME NEW s \in SUBSET (1..n), s # {}
                 PROVE  next[Max(s)][g[s \ {Max(s)}]]
                            = SplitStep(g[s \ {Max(s)}], text[Max(s)], kind)
        OBVIOUS
    <2>1. Max(s) \in 1..n
        BY Latest
    <2> DEFINE m == Max(s)
    <2> HIDE DEF m
    <2>2. g[s \ {m}] \in A
        BY <1>5
    <2> QED
        BY <1>3, <2>1, <2>2 DEF m
<1>7. g = [s \in SUBSET (1..n) |-> IF s = {} THEN <<>> ELSE next[Max(s)][g[s \ {Max(s)}]]]
    BY <1>2 DEF FoldsBy
<1>8. g = [s \in SUBSET (1..n) |->
              IF s = {} THEN <<>> ELSE SplitStep(g[s \ {Max(s)}], text[Max(s)], kind)]
    BY <1>6, <1>7, Zenon
<1>9. Splitting(text, kind, g)
    BY <1>8 DEF Splitting
<1> QED
    BY <1>9

(* What the splitting gives. *)
LEMMA SplitIs ==
    ASSUME NEW text, NEW kind
    PROVE  SplitAt(text, kind) = (CHOOSE h : Splitting(text, kind, h))[DOMAIN text]
BY DEF SplitAt, FoldLeft, MapThenFoldSet, Splitting, SplitStep

(* A text is split word by word. *)
LEMMA SplitStepwise ==
    ASSUME NEW text \in Seq(WordParts), NEW kind
    PROVE  \E t : /\ t[0] = <<>>
                  /\ \A k \in 1..Len(text) : t[k] = SplitStep(t[k - 1], text[k], kind)
                  /\ SplitAt(text, kind) = t[Len(text)]
<1> DEFINE h == CHOOSE h : Splitting(text, kind, h)
           n == Len(text)
           t == [k \in 0..n |-> h[1..k]]
<1>1. n \in Nat /\ DOMAIN text = 1..n /\ \A i \in 1..n : text[i] \in WordParts
    OBVIOUS
<1>2. Splitting(text, kind, h)
    BY <1>1, SplittingExists
<1>3. SplitAt(text, kind) = h[1..n]
    BY <1>1, SplitIs
<1> HIDE DEF h, n
<1>4. \A s \in SUBSET (1..n) :
          h[s] = IF s = {} THEN <<>> ELSE SplitStep(h[s \ {Max(s)}], text[Max(s)], kind)
    BY <1>1, <1>2, Zenon DEF Splitting
<1>5. t[0] = <<>>
    <2>1. 1..0 = {} /\ {} \in SUBSET (1..n) /\ 0 \in 0..n
        BY <1>1
    <2> QED
        BY <1>4, <2>1
<1>6. ASSUME NEW k \in 1..n
      PROVE  t[k] = SplitStep(t[k - 1], text[k], kind)
    <2>1. 1..k \in SUBSET (1..n) /\ k \in 1..k /\ 1..k # {} /\ k \in Nat
        BY <1>1, UpTo
    <2>2. Max(1..k) = k
        BY <2>1, LatestIs
    <2>3. (1..k) \ {k} = 1..k - 1
        BY <1>1, UpTo
    <2>4. k \in 0..n /\ k - 1 \in 0..n
        BY <1>1, UpTo
    <2>5. h[1..k] = SplitStep(h[1..k - 1], text[k], kind)
        <3>1. h[1..k] = SplitStep(h[(1..k) \ {Max(1..k)}], text[Max(1..k)], kind)
            BY <1>4, <2>1
        <3> QED
            BY <2>2, <2>3, <3>1
    <2> QED
        BY <2>4, <2>5
<1>7. t[n] = h[1..n]
    BY <1>1
<1> HIDE DEF t
<1> QED
    BY <1>3, <1>5, <1>6, <1>7 DEF n

(* What the parts of a slice are, up to a word: slices, one after the other, with no
   separator of the kind inside. *)
Divides(P, s, last, kind, T) ==
    /\ P \in Seq(Seq(WordParts)) /\ P # <<>>
    /\ \A i \in DOMAIN P :
           /\ Slice(P[i], T) /\ Clean(P[i], {kind})
           /\ s[1].word <= P[i][1].word /\ Last(P[i]).word <= last.word
    /\ P[1][1].word = s[1].word
    /\ \A i \in 1..Len(P) - 1 : P[i + 1][1].word = Last(P[i]).word + 1
    /\ Last(Last(P)) = last

(* They are of one word, first. *)
LEMMA DividesOne ==
    ASSUME NEW T, Whole(T), NEW s, Slice(s, T), NEW kind
    PROVE  Divides(SplitStep(<<>>, s[1], kind), s, s[1], kind, T)
<1> DEFINE p == s[1]
           x == <<p>>
           P == <<x>>
<1>1. p \in WordParts /\ p.word \in DOMAIN T /\ p = T[p.word] /\ p.word \in Nat
    <2>1. Len(s) \in Nat \ {0} /\ DOMAIN T = 1..Len(T)
        BY SliceIs DEF Whole
    <2>2. 1 \in 1..Len(s)
        BY <2>1
    <2> QED
        BY <2>1, <2>2, SliceIs
<1> HIDE DEF p
<1>2. Slice(x, T) /\ x[1] = p /\ Last(x) = p /\ x \in Seq(WordParts) /\ Clean(x, {kind})
    BY <1>1, SliceOfOne
<1>3. SplitStep(<<>>, p, kind) = P
    BY DEF SplitStep
<1> HIDE DEF x
<1>4. P \in Seq(Seq(WordParts)) /\ P # <<>> /\ DOMAIN P = {1} /\ P[1] = x /\ Len(P) = 1
    BY <1>2
<1> HIDE DEF P
<1>5. Last(P) = x
    BY <1>4 DEF Last
<1>6. \A i \in DOMAIN P : P[i] = x
    BY <1>4
<1>7. \A i \in 1..Len(P) - 1 : P[i + 1][1].word = Last(P[i]).word + 1
    BY <1>4
<1>8. Divides(P, s, p, kind, T)
    BY <1>1, <1>2, <1>4, <1>5, <1>6, <1>7 DEF Divides, p
<1> QED
    BY <1>3, <1>8 DEF p

(* They still are of a word more. *)
LEMMA DividesMore ==
    ASSUME NEW T, Whole(T), NEW s, Slice(s, T), NEW kind, NEW P, NEW last,
           Divides(P, s, last, kind, T),
           NEW p \in WordParts, p.word = last.word + 1, p.word \in DOMAIN T, p = T[p.word]
    PROVE  Divides(SplitStep(P, p, kind), s, p, kind, T)
<1> DEFINE n == Len(P)
           Q == SplitStep(P, p, kind)
<1>1. P \in Seq(Seq(WordParts)) /\ P # <<>> /\ n \in Nat \ {0} /\ DOMAIN P = 1..n /\ Last(P) = P[n]
    BY DEF Divides, Last
<1>2. \A i \in 1..n : /\ Slice(P[i], T) /\ Clean(P[i], {kind})
                      /\ s[1].word <= P[i][1].word /\ Last(P[i]).word <= last.word
    BY <1>1 DEF Divides
<1>3. Last(P[n]) = last /\ n \in 1..n
    BY <1>1 DEF Divides
<1>4. P[1][1].word = s[1].word /\ \A i \in 1..n - 1 : P[i + 1][1].word = Last(P[i]).word + 1
    BY DEF Divides
<1>5. last.word \in Nat /\ p.word \in Nat /\ s[1].word \in Nat
    <2>1. Last(P[n]).word = P[n][1].word + Len(P[n]) - 1 /\ P[n][1].word \in Nat /\ Len(P[n]) \in Nat \ {0}
        BY <1>2, <1>3, SliceIs
    <2>2. last.word \in Nat
        BY <1>3, <2>1
    <2>3. p.word \in Nat
        BY HasWeight
    <2>4. s[1].word \in Nat
        BY SliceIs
    <2> QED
        BY <2>2, <2>3, <2>4
<1>6. \A i \in 1..n : Last(P[i]).word \in Int /\ Last(P[i]).word <= p.word
    <2> SUFFICES ASSUME NEW i \in 1..n
                 PROVE  Last(P[i]).word \in Int /\ Last(P[i]).word <= p.word
        OBVIOUS
    <2>1. Last(P[i]).word = P[i][1].word + Len(P[i]) - 1 /\ P[i][1].word \in Nat /\ Len(P[i]) \in Nat \ {0}
        BY <1>2, SliceIs
    <2>2. Last(P[i]).word <= last.word
        BY <1>2
    <2> QED
        BY <1>5, <2>1, <2>2
<1> HIDE DEF n, Q
<1>7. CASE Last(Last(P)).sep # kind
    <2> DEFINE x == Append(P[n], p)
    <2>1. /\ Slice(x, T) /\ x[1] = P[n][1] /\ Last(x) = p /\ Clean(x, {kind})
        BY <1>1, <1>2, <1>3, <1>7, SliceOfOneMore
    <2>2. Q = Append(Front(P), x)
        BY <1>1, <1>7 DEF SplitStep, Q
    <2> HIDE DEF x
    <2>3. x \in Seq(WordParts)
        BY <2>1 DEF Slice
    <2>4. /\ Q \in Seq(Seq(WordParts)) /\ Q # <<>> /\ Len(Q) = n /\ Last(Q) = x /\ Q[n] = x
          /\ \A i \in 1..n - 1 : Q[i] = P[i]
        <3> DEFINE S == Seq(WordParts)
        <3>1. P \in Seq(S) /\ P # <<>> /\ x \in S
            BY <1>1, <2>3
        <3> HIDE DEF S
        <3>2. LET R == Append(Front(P), x) IN
              /\ R \in Seq(S) /\ R # <<>> /\ Len(R) = Len(P) /\ Last(R) = x /\ R[Len(P)] = x
              /\ \A i \in 1..Len(P) - 1 : R[i] = P[i]
            BY <3>1, LastReplaced
        <3> QED
            BY <2>2, <3>2 DEF n, S
    <2>5. \A i \in 1..n : i = n \/ i \in 1..n - 1
        BY <1>1
    <2>6. \A i \in 1..n : Q[i][1] = P[i][1]
        BY <2>1, <2>4, <2>5
    <2>7. ASSUME NEW i \in 1..n
          PROVE  /\ Slice(Q[i], T) /\ Clean(Q[i], {kind})
                 /\ s[1].word <= Q[i][1].word /\ Last(Q[i]).word <= p.word
        <3>1. CASE i = n
            BY <1>2, <1>5, <2>1, <2>4, <3>1
        <3>2. CASE i # n
            BY <1>2, <1>6, <2>4, <2>5, <3>2
        <3> QED
            BY <3>1, <3>2
    <2>8. ASSUME NEW i \in 1..n - 1
          PROVE  Q[i + 1][1].word = Last(Q[i]).word + 1
        <3>1. i + 1 \in 1..n
            BY <1>1
        <3> QED
            BY <1>4, <2>4, <2>6, <3>1
    <2>9. 1 \in 1..n /\ DOMAIN Q = 1..n
        BY <1>1, <2>4
    <2> QED
        BY <1>4, <2>1, <2>4, <2>6, <2>7, <2>8, <2>9 DEF Divides, Q
<1>8. CASE Last(Last(P)).sep = kind
    <2> DEFINE x == <<p>>
    <2>1. Slice(x, T) /\ x[1] = p /\ Last(x) = p /\ x \in Seq(WordParts) /\ Clean(x, {kind})
        BY SliceOfOne
    <2>2. Q = Append(P, x)
        BY <1>8 DEF SplitStep, Q
    <2> HIDE DEF x
    <2>3. /\ Q \in Seq(Seq(WordParts)) /\ Q # <<>> /\ Len(Q) = n + 1
          /\ \A i \in 1..n : Q[i] = P[i]
          /\ Q[n + 1] = x
        <3> DEFINE S == Seq(WordParts)
        <3>1. P \in Seq(S) /\ x \in S
            BY <1>1, <2>1
        <3> HIDE DEF S
        <3>2. /\ Append(P, x) \in Seq(S) /\ Append(P, x) # <<>> /\ Len(Append(P, x)) = Len(P) + 1
              /\ \A i \in 1..Len(P) : Append(P, x)[i] = P[i]
              /\ Append(P, x)[Len(P) + 1] = x
            BY <3>1, AppendProperties
        <3> QED
            BY <2>2, <3>2 DEF n, S
    <2>4. \A i \in 1..n + 1 : i = n + 1 \/ i \in 1..n
        BY <1>1
    <2>5. Last(Q) = x /\ DOMAIN Q = 1..n + 1
        BY <1>1, <2>3 DEF Last
    <2>6. \A i \in 1..n : s[1].word <= last.word
        <3>1. s[1].word <= P[n][1].word
            BY <1>2, <1>3
        <3>2. Last(P[n]).word = P[n][1].word + Len(P[n]) - 1 /\ P[n][1].word \in Nat /\ Len(P[n]) \in Nat \ {0}
            BY <1>2, <1>3, SliceIs
        <3> QED
            BY <1>3, <1>5, <3>1, <3>2
    <2>7. ASSUME NEW i \in 1..n + 1
          PROVE  /\ Slice(Q[i], T) /\ Clean(Q[i], {kind})
                 /\ s[1].word <= Q[i][1].word /\ Last(Q[i]).word <= p.word
        <3>1. CASE i = n + 1
            <4>1. s[1].word <= p.word
                BY <1>3, <1>5, <2>6
            <4> QED
                BY <1>5, <2>1, <2>3, <3>1, <4>1
        <3>2. CASE i # n + 1
            BY <1>2, <1>6, <2>3, <2>4, <3>2
        <3> QED
            BY <3>1, <3>2
    <2>8. ASSUME NEW i \in 1..n + 1 - 1
          PROVE  Q[i + 1][1].word = Last(Q[i]).word + 1
        <3>1. CASE i = n
            BY <1>3, <2>1, <2>3, <3>1
        <3>2. CASE i # n
            <4>1. i \in 1..n - 1 /\ i \in 1..n /\ i + 1 \in 1..n
                BY <1>1, <3>2
            <4> QED
                BY <1>4, <2>3, <4>1
        <3> QED
            BY <3>1, <3>2
    <2>9. 1 \in 1..n
        BY <1>1
    <2> QED
        <3>1. Q[1][1].word = s[1].word
            BY <1>4, <2>3, <2>9
        <3>2. Last(Last(Q)) = p
            BY <2>1, <2>5
        <3> QED
            <4>1. \A i \in DOMAIN Q :
                      /\ Slice(Q[i], T) /\ Clean(Q[i], {kind})
                      /\ s[1].word <= Q[i][1].word /\ Last(Q[i]).word <= p.word
                BY <2>5, <2>7
            <4>2. \A i \in 1..Len(Q) - 1 : Q[i + 1][1].word = Last(Q[i]).word + 1
                <5>1. Len(Q) - 1 = n + 1 - 1
                    BY <1>1, <2>3
                <5> QED
                    BY <2>8, <5>1
            <4>3. Divides(Q, s, p, kind, T)
                BY <2>3, <3>1, <3>2, <4>1, <4>2 DEF Divides
            <4> QED
                BY <4>3 DEF Q
<1> QED
    BY <1>7, <1>8 DEF Q

(* The parts of a slice divide it. *)
LEMMA SplitDivides ==
    ASSUME NEW T, Whole(T), NEW s, Slice(s, T), NEW kind
    PROVE  Divides(SplitAt(s, kind), s, Last(s), kind, T)
<1> DEFINE n == Len(s)
<1>1. n \in Nat \ {0} /\ Last(s) = s[n] /\ s \in Seq(WordParts)
    BY SliceIs DEF Slice
<1>2. PICK t : /\ t[0] = <<>>
               /\ \A k \in 1..n : t[k] = SplitStep(t[k - 1], s[k], kind)
               /\ SplitAt(s, kind) = t[n]
    BY <1>1, SplitStepwise
<1> HIDE DEF n
<1> DEFINE P == {k \in 0..n : k # 0 => Divides(t[k], s, s[k], kind, T)}
<1>3. 0 \in P
    BY <1>1
<1>4. ASSUME NEW k \in 1..n, k - 1 \in P
      PROVE  k \in P
    <2>1. k \in 0..n /\ t[k] = SplitStep(t[k - 1], s[k], kind)
        BY <1>1, <1>2
    <2>2. CASE k = 1
        BY <1>2, <2>1, <2>2, DividesOne
    <2>3. CASE k # 1
        <3> DEFINE p == s[k]
                   last == s[k - 1]
        <3>1. k - 1 \in 1..n /\ k - 1 # 0
            BY <1>1, <2>3
        <3>2. Divides(t[k - 1], s, last, kind, T)
            BY <1>4, <3>1
        <3>3. /\ p \in WordParts /\ p.word = s[1].word + k - 1 /\ p.word \in 1..Len(T) /\ p = T[p.word]
              /\ last.word = s[1].word + (k - 1) - 1 /\ s[1].word \in Nat
            BY <3>1, SliceIs DEF n
        <3>4. p.word = last.word + 1 /\ p.word \in DOMAIN T
            BY <3>1, <3>3 DEF Whole
        <3> HIDE DEF p, last
        <3>5. Divides(SplitStep(t[k - 1], p, kind), s, p, kind, T)
            BY <3>2, <3>3, <3>4, DividesMore
        <3> QED
            BY <2>1, <3>5 DEF p
    <2> QED
        BY <2>2, <2>3
<1> HIDE DEF P
<1>5. n \in P
    BY <1>1, <1>3, <1>4, Climbing
<1> QED
    BY <1>1, <1>2, <1>5 DEF P

------------------------------------------------------------------------------
(* Pieces of a text, from one word of it to another. *)
Covers(P, a, b, max, T) ==
    /\ P \in Seq(Seq(WordParts)) /\ P # <<>>
    /\ \A i \in DOMAIN P : Unbroken(P[i], T) /\ TextLen(P[i]) <= max
    /\ \A i \in 1..Len(P) - 1 : Continues(Last(P[i]), P[i + 1][1], T)
    /\ P[1][1].word = a /\ P[1][1].from = 0
    /\ Last(Last(P)).word = b /\ Last(Last(P)).from + Last(Last(P)).len = T[b].len

(* What continues a word does so whatever the separators. *)
LEMMA ContinuesTheSame ==
    ASSUME NEW p, NEW q, NEW x, NEW y, NEW T, Same(p, x), Same(q, y), Continues(p, q, T)
    PROVE  Continues(x, y, T)
BY DEF Same, Continues

(* The words of a piece. *)
LEMMA PieceIs ==
    ASSUME NEW x \in Seq(WordParts), NEW T, Unbroken(x, T)
    PROVE  Len(x) \in Nat \ {0} /\ Last(x) = x[Len(x)] /\ Last(x) \in WordParts /\ x[1] \in WordParts
<1>1. x # <<>>
    BY DEF Unbroken
<1>2. Len(x) \in Nat \ {0}
    BY <1>1
<1>3. Last(x) = x[Len(x)] /\ Len(x) \in 1..Len(x) /\ 1 \in 1..Len(x)
    BY <1>2 DEF Last
<1> QED
    BY <1>2, <1>3

(* A slice that fits is a piece. *)
LEMMA SliceCovers ==
    ASSUME NEW T, Whole(T), NEW s, Slice(s, T), NEW max, TextLen(s) <= max
    PROVE  Covers(<<s>>, s[1].word, Last(s).word, max, T)
<1> DEFINE P == <<s>>
<1>1. s \in Seq(WordParts) /\ s # <<>>
    BY DEF Slice
<1>2. P \in Seq(Seq(WordParts)) /\ P # <<>> /\ DOMAIN P = {1} /\ P[1] = s /\ Len(P) = 1
    BY <1>1
<1> HIDE DEF P
<1>3. Last(P) = s
    BY <1>2 DEF Last
<1>4. Len(s) \in Nat \ {0} /\ Last(s) = s[Len(s)] /\ s[1].word \in Nat /\ 1 \in 1..Len(s) /\ Len(s) \in 1..Len(s)
    BY SliceIs
<1>5. ASSUME NEW i \in 1..Len(s) - 1
      PROVE  Continues(s[i], s[i + 1], T)
    <2>1. i \in 1..Len(s) /\ i + 1 \in 1..Len(s)
        BY <1>4
    <2>2. /\ s[i].word = s[1].word + i - 1 /\ s[i] = T[s[i].word] /\ s[i].from = 0 /\ s[i].len \in Nat
          /\ s[i + 1].word = s[1].word + (i + 1) - 1 /\ s[i + 1].from = 0
        BY <2>1, SliceIs
    <2>3. s[i + 1].word = s[i].word + 1
        BY <1>4, <2>2
    <2>4. s[i].from + s[i].len = T[s[i].word].len
        BY <2>2
    <2> QED
        BY <2>2, <2>3, <2>4 DEF Continues
<1>6. Unbroken(s, T)
    BY <1>1, <1>5 DEF Unbroken
<1>7. s[1].from = 0 /\ Last(s).from + Last(s).len = T[Last(s).word].len
    <2>1. s[1].from = 0
        BY <1>4, SliceIs
    <2>2. s[Len(s)] = T[s[Len(s)].word] /\ s[Len(s)].from = 0 /\ s[Len(s)].len \in Nat
        BY <1>4, SliceIs
    <2>3. s[Len(s)].from + s[Len(s)].len = s[Len(s)].len
        BY <2>2
    <2> QED
        BY <1>4, <2>1, <2>2, <2>3
<1>8. \A i \in 1..Len(P) - 1 : Continues(Last(P[i]), P[i + 1][1], T)
    BY <1>2
<1>9. \A i \in DOMAIN P : P[i] = s
    BY <1>2
<1>10. P[1] = s
    BY <1>2
<1>11. Covers(P, s[1].word, Last(s).word, max, T)
    BY <1>2, <1>3, <1>6, <1>7, <1>8, <1>9, <1>10 DEF Covers
<1> QED
    BY <1>11 DEF P

(* Pieces up to a word and pieces from the next one. *)
LEMMA CoversTogether ==
    ASSUME NEW T, NEW max, NEW a, NEW b \in Int, NEW c, NEW P, Covers(P, a, b, max, T),
           NEW Q, Covers(Q, b + 1, c, max, T)
    PROVE  Covers(P \o Q, a, c, max, T)
<1> DEFINE S == Seq(WordParts)
           R == P \o Q
           m == Len(P)
           n == Len(Q)
<1>1. P \in Seq(S) /\ P # <<>> /\ Q \in Seq(S) /\ Q # <<>>
    BY DEF Covers
<1> HIDE DEF S
<1>2. m \in Nat \ {0} /\ n \in Nat \ {0} /\ DOMAIN P = 1..m /\ DOMAIN Q = 1..n
    BY <1>1
<1>3. /\ R \in Seq(S) /\ Len(R) = m + n
      /\ \A i \in 1..m + n : R[i] = IF i <= m THEN P[i] ELSE Q[i - m]
    BY <1>1, ConcatProperties
<1> HIDE DEF R
<1>4. R # <<>> /\ DOMAIN R = 1..m + n /\ Last(R) = R[m + n]
    <2>1. Len(R) # 0
        BY <1>2, <1>3
    <2> QED
        BY <1>3, <2>1 DEF Last
<1>5. Last(P) = P[m] /\ Last(Q) = Q[n]
    BY <1>1, <1>2 DEF Last
<1>6. \A i \in 1..m : R[i] = P[i]
    BY <1>2, <1>3
<1>7. \A i \in 1..n : R[m + i] = Q[i]
    <2> SUFFICES ASSUME NEW i \in 1..n PROVE R[m + i] = Q[i]
        OBVIOUS
    <2>1. m + i \in 1..m + n /\ ~ m + i <= m /\ m + i - m = i
        BY <1>2
    <2> QED
        BY <1>3, <2>1
<1> HIDE DEF m, n
<1>8. ASSUME NEW i \in DOMAIN R
      PROVE  Unbroken(R[i], T) /\ TextLen(R[i]) <= max
    <2>1. CASE i <= m
        <3>1. i \in 1..m
            BY <1>2, <1>4, <2>1
        <3> QED
            BY <1>2, <1>6, <3>1 DEF Covers
    <2>2. CASE ~ i <= m
        <3>1. i - m \in 1..n /\ m + (i - m) = i
            BY <1>2, <1>4, <2>2
        <3>2. R[i] = Q[i - m]
            BY <1>7, <3>1
        <3> QED
            BY <1>2, <3>1, <3>2 DEF Covers
    <2> QED
        BY <2>1, <2>2
<1>9. ASSUME NEW i \in 1..Len(R) - 1
      PROVE  Continues(Last(R[i]), R[i + 1][1], T)
    <2>0. i \in 1..m + n - 1
        BY <1>2, <1>3
    <2>1. CASE i < m
        <3>1. i \in 1..m /\ i + 1 \in 1..m /\ i \in 1..m - 1
            BY <1>2, <2>0, <2>1
        <3>2. Continues(Last(P[i]), P[i + 1][1], T)
            BY <3>1 DEF Covers, m
        <3> QED
            BY <1>6, <3>1, <3>2
    <2>2. CASE i = m
        <3>1. m \in 1..m /\ 1 \in 1..n
            BY <1>2
        <3>2. R[i] = P[m] /\ R[i + 1] = Q[1]
            BY <1>6, <1>7, <2>2, <3>1
        <3>3. Last(P[m]).word = b /\ Last(P[m]).from + Last(P[m]).len = T[b].len
            BY <1>5 DEF Covers
        <3>4. Q[1][1].word = b + 1 /\ Q[1][1].from = 0
            BY DEF Covers
        <3> QED
            BY <3>2, <3>3, <3>4 DEF Continues
    <2>3. CASE i > m
        <3> DEFINE j == i - m
        <3>1. j \in 1..n /\ j + 1 \in 1..n /\ j \in 1..n - 1 /\ m + j = i /\ m + (j + 1) = i + 1
            BY <1>2, <2>0, <2>3
        <3> HIDE DEF j
        <3>2. Continues(Last(Q[j]), Q[j + 1][1], T)
            BY <3>1 DEF Covers, n
        <3>3. R[m + j] = Q[j] /\ R[m + (j + 1)] = Q[j + 1]
            BY <1>7, <3>1
        <3> QED
            BY <3>1, <3>2, <3>3
    <2> QED
        BY <1>2, <2>0, <2>1, <2>2, <2>3
<1>10. R[1] = P[1] /\ Last(R) = Last(Q)
    <2>1. 1 \in 1..m /\ n \in 1..n
        BY <1>2
    <2> QED
        BY <1>4, <1>5, <1>6, <1>7, <2>1
<1>11. R \in Seq(Seq(WordParts))
    BY <1>3 DEF S
<1>12. P[1][1].word = a /\ P[1][1].from = 0
    BY DEF Covers
<1>13. Last(Last(Q)).word = c /\ Last(Last(Q)).from + Last(Last(Q)).len = T[c].len
    BY DEF Covers
<1>14. Covers(R, a, c, max, T)
    BY <1>4, <1>8, <1>9, <1>10, <1>11, <1>12, <1>13 DEF Covers
<1> QED
    BY <1>14 DEF R

(* A piece in which a slice follows another piece. *)
LEMMA JoinedIsUnbroken ==
    ASSUME NEW T, NEW x \in Seq(WordParts), Unbroken(x, T), NEW y \in Seq(WordParts), Unbroken(y, T),
           Continues(Last(x), y[1], T), NEW sep \in 0..3
    PROVE  LET z == JoinedBy(sep, x, y) IN
           /\ z \in Seq(WordParts) /\ Unbroken(z, T) /\ Same(x[1], z[1]) /\ Last(z) = Last(y)
<1> DEFINE z == JoinedBy(sep, x, y)
           m == Len(x)
           n == Len(y)
<1>1. m \in Nat \ {0} /\ n \in Nat \ {0} /\ Last(x) = x[m] /\ Last(y) = y[n] /\ x # <<>> /\ y # <<>>
    BY PieceIs DEF Unbroken
<1>2. /\ z \in Seq(WordParts) /\ z # <<>> /\ Len(z) = m + n
      /\ \A i \in 1..m : Same(x[i], z[i])
      /\ \A i \in 1..n : z[m + i] = y[i]
    BY <1>1, JoinedIs
<1> HIDE DEF z, m, n
<1>3. ASSUME NEW i \in 1..Len(z) - 1
      PROVE  Continues(z[i], z[i + 1], T)
    <2>0. i \in 1..m + n - 1
        BY <1>1, <1>2
    <2>1. CASE i < m
        <3>1. i \in 1..m /\ i + 1 \in 1..m /\ i \in 1..m - 1
            BY <1>1, <2>0, <2>1
        <3>2. Continues(x[i], x[i + 1], T)
            BY <3>1 DEF Unbroken, m
        <3>3. Same(x[i], z[i]) /\ Same(x[i + 1], z[i + 1])
            BY <1>2, <3>1
        <3> QED
            BY <3>2, <3>3, ContinuesTheSame
    <2>2. CASE i = m
        <3>1. m \in 1..m /\ 1 \in 1..n
            BY <1>1
        <3>2. Same(x[m], z[m]) /\ z[m + 1] = y[1]
            BY <1>2, <3>1
        <3>3. Same(y[1], y[1])
            BY DEF Same
        <3>4. Continues(x[m], y[1], T)
            BY <1>1
        <3>5. Continues(z[m], y[1], T)
            BY <3>2, <3>3, <3>4, ContinuesTheSame
        <3> QED
            BY <2>2, <3>2, <3>5
    <2>3. CASE i > m
        <3> DEFINE j == i - m
        <3>1. j \in 1..n /\ j + 1 \in 1..n /\ j \in 1..n - 1 /\ m + j = i /\ m + (j + 1) = i + 1
            BY <1>1, <2>0, <2>3
        <3> HIDE DEF j
        <3>2. Continues(y[j], y[j + 1], T)
            BY <3>1 DEF Unbroken, n
        <3>3. z[m + j] = y[j] /\ z[m + (j + 1)] = y[j + 1]
            BY <1>2, <3>1
        <3> QED
            BY <3>1, <3>2, <3>3
    <2> QED
        BY <1>1, <2>0, <2>1, <2>2, <2>3
<1>4. Same(x[1], z[1]) /\ Last(z) = Last(y)
    <2>1. 1 \in 1..m /\ n \in 1..n
        BY <1>1
    <2> QED
        BY <1>1, <1>2, <2>1 DEF Last
<1> QED
    BY <1>2, <1>3, <1>4 DEF Unbroken, z

------------------------------------------------------------------------------
(* Recombining the parts of a text, part by part. *)
Gathered == [out : Seq(Seq(WordParts)), buf : Seq(WordParts)]
NoneYet == [out |-> <<>>, buf |-> <<>>]
Candidate(acc, part, depth) ==
    JoinedBy(IF depth = Paragraph THEN Paragraph ELSE Space, acc.buf, part)
GatherStep(acc, part, max, depth, deeper) ==
    IF TextLen(Candidate(acc, part, depth)) <= max
    THEN [acc EXCEPT !.buf = Candidate(acc, part, depth)]
    ELSE IF TextLen(part) > max
         THEN [out |-> Kept(acc.out, acc.buf) \o deeper[part], buf |-> <<>>]
         ELSE [out |-> Kept(acc.out, acc.buf), buf |-> part]
Gathering(parts, max, depth, deeper, h) ==
    h = [s \in SUBSET (DOMAIN parts) |->
            IF s = {} THEN NoneYet
            ELSE GatherStep(h[s \ {Max(s)}], parts[Max(s)], max, depth, deeper)]

(* What is kept is a list of texts. *)
LEMMA KeptIs ==
    ASSUME NEW out \in Seq(Seq(WordParts)), NEW buf \in Seq(WordParts)
    PROVE  /\ Kept(out, buf) \in Seq(Seq(WordParts))
           /\ Kept(out, <<>>) = out
           /\ buf # <<>> => Kept(out, buf) = out \o <<buf>> /\ Kept(out, buf) # <<>>
<1> DEFINE S == Seq(WordParts)
<1>1. out \in Seq(S) /\ buf \in S
    OBVIOUS
<1> HIDE DEF S
<1>2. /\ Append(out, buf) \in Seq(S) /\ Append(out, buf) = out \o <<buf>>
      /\ Append(out, buf) # <<>>
    BY <1>1, AppendProperties, AppendIsConcat
<1>3. Append(out, buf) \in Seq(Seq(WordParts))
    BY <1>2 DEF S
<1> QED
    BY <1>2, <1>3 DEF Kept

(* A candidate is a text. *)
LEMMA CandidateIs ==
    ASSUME NEW acc \in Gathered, NEW part \in Seq(WordParts), part # <<>>, NEW depth
    PROVE  /\ acc.out \in Seq(Seq(WordParts)) /\ acc.buf \in Seq(WordParts)
           /\ Candidate(acc, part, depth) \in Seq(WordParts) /\ Candidate(acc, part, depth) # <<>>
           /\ acc.buf = <<>> => Candidate(acc, part, depth) = part
           /\ \E sep \in 0..3 : Candidate(acc, part, depth) = JoinedBy(sep, acc.buf, part)
<1> DEFINE sep == IF depth = Paragraph THEN Paragraph ELSE Space
<1>1. acc.out \in Seq(Seq(WordParts)) /\ acc.buf \in Seq(WordParts)
    BY DEF Gathered
<1>2. sep \in 0..3
    BY DEF Paragraph, Space
<1>3. Candidate(acc, part, depth) = JoinedBy(sep, acc.buf, part)
    BY DEF Candidate
<1> HIDE DEF sep
<1>4. CASE acc.buf = <<>>
    <2>1. JoinedBy(sep, acc.buf, part) = part
        BY <1>4 DEF JoinedBy
    <2> QED
        BY <1>1, <1>2, <1>3, <2>1
<1>5. CASE acc.buf # <<>>
    <2>1. JoinedBy(sep, acc.buf, part) \in Seq(WordParts) /\ JoinedBy(sep, acc.buf, part) # <<>>
        BY <1>1, <1>2, <1>5, JoinedIs
    <2> QED
        BY <1>1, <1>2, <1>3, <1>5, <2>1
<1> QED
    BY <1>4, <1>5

(* Two lists of texts are one. *)
LEMMA ListsJoin ==
    ASSUME NEW P \in Seq(Seq(WordParts)), NEW Q \in Seq(Seq(WordParts))
    PROVE  P \o Q \in Seq(Seq(WordParts))
<1> DEFINE S == Seq(WordParts)
<1>1. P \in Seq(S) /\ Q \in Seq(S)
    OBVIOUS
<1> HIDE DEF S
<1>2. P \o Q \in Seq(S)
    BY <1>1, ConcatProperties
<1> QED
    BY <1>2 DEF S

(* A part more leaves it so. *)
LEMMA GatherStepStays ==
    ASSUME NEW acc \in Gathered, NEW part \in Seq(WordParts), part # <<>>, NEW max, NEW depth,
           NEW deeper, deeper[part] \in Seq(Seq(WordParts))
    PROVE  GatherStep(acc, part, max, depth, deeper) \in Gathered
<1> DEFINE out == Kept(acc.out, acc.buf)
           more == out \o deeper[part]
           candidate == Candidate(acc, part, depth)
<1>1. acc.out \in Seq(Seq(WordParts)) /\ acc.buf \in Seq(WordParts) /\ candidate \in Seq(WordParts)
    BY CandidateIs
<1>2. out \in Seq(Seq(WordParts))
    BY <1>1, KeptIs
<1> HIDE DEF out, candidate
<1>3. more \in Seq(Seq(WordParts))
    BY <1>2, ListsJoin
<1> HIDE DEF more
<1>4. [out |-> more, buf |-> <<>>] \in Gathered
    BY <1>3 DEF Gathered
<1>5. [out |-> out, buf |-> part] \in Gathered
    BY <1>2 DEF Gathered
<1>6. [acc EXCEPT !.buf = candidate] \in Gathered
    BY <1>1 DEF Gathered
<1>7. GatherStep(acc, part, max, depth, deeper)
          \in {[acc EXCEPT !.buf = candidate], [out |-> more, buf |-> <<>>], [out |-> out, buf |-> part]}
    BY DEF GatherStep, candidate, more, out
<1> QED
    BY <1>4, <1>5, <1>6, <1>7

(* What the parts of a text have to be, and what each is split into. *)
Splittable(parts, deeper) ==
    /\ parts \in Seq(Seq(WordParts))
    /\ \A i \in DOMAIN parts : parts[i] # <<>> /\ deeper[parts[i]] \in Seq(Seq(WordParts))

(* There is such a gathering of any parts. *)
LEMMA GatheringExists ==
    ASSUME NEW parts, NEW deeper, Splittable(parts, deeper), NEW max, NEW depth
    PROVE  \E h : Gathering(parts, max, depth, deeper, h)
<1> DEFINE n == Len(parts)
           A == Gathered
           next == [i \in 1..n |-> [a \in A |-> GatherStep(a, parts[i], max, depth, deeper)]]
<1>0. /\ n \in Nat /\ DOMAIN parts = 1..n
      /\ \A i \in 1..n : parts[i] \in Seq(WordParts) /\ parts[i] # <<>> /\ deeper[parts[i]] \in Seq(Seq(WordParts))
    <2> DEFINE S == Seq(WordParts)
    <2>1. parts \in Seq(S)
        BY DEF Splittable
    <2> HIDE DEF S
    <2>2. n \in Nat /\ DOMAIN parts = 1..n /\ \A i \in 1..n : parts[i] \in S
        BY <2>1
    <2> QED
        BY <2>2 DEF Splittable, S
<1> HIDE DEF n
<1>1. NoneYet \in A
    BY DEF NoneYet, Gathered
<1>2. PICK g : FoldsBy(n, NoneYet, next, g)
    BY <1>0, FoldExists
<1>3. \A i \in 1..n : \A a \in A : next[i][a] = GatherStep(a, parts[i], max, depth, deeper)
    OBVIOUS
<1>4. \A i \in 1..n : \A a \in A : next[i][a] \in A
    <2> SUFFICES ASSUME NEW i \in 1..n, NEW a \in A
                 PROVE  GatherStep(a, parts[i], max, depth, deeper) \in A
        BY <1>3
    <2> QED
        BY <1>0, GatherStepStays
<1> HIDE DEF next, A
<1>5. \A s \in SUBSET (1..n) : g[s] \in A
    BY <1>0, <1>1, <1>2, <1>4, FoldStays
<1>6. \A s \in SUBSET (1..n) :
          s # {} => next[Max(s)][g[s \ {Max(s)}]]
                        = GatherStep(g[s \ {Max(s)}], parts[Max(s)], max, depth, deeper)
    <2> SUFFICES ASSUME NEW s \in SUBSET (1..n), s # {}
                 PROVE  next[Max(s)][g[s \ {Max(s)}]]
                            = GatherStep(g[s \ {Max(s)}], parts[Max(s)], max, depth, deeper)
        OBVIOUS
    <2>1. Max(s) \in 1..n
        BY <1>0, Latest
    <2> DEFINE m == Max(s)
    <2> HIDE DEF m
    <2>2. g[s \ {m}] \in A
        BY <1>5
    <2> QED
        BY <1>3, <2>1, <2>2 DEF m
<1>7. g = [s \in SUBSET (1..n) |-> IF s = {} THEN NoneYet ELSE next[Max(s)][g[s \ {Max(s)}]]]
    BY <1>2 DEF FoldsBy
<1>8. g = [s \in SUBSET (1..n) |->
              IF s = {} THEN NoneYet
              ELSE GatherStep(g[s \ {Max(s)}], parts[Max(s)], max, depth, deeper)]
    BY <1>6, <1>7, Zenon
<1>9. Gathering(parts, max, depth, deeper, g)
    BY <1>0, <1>8 DEF Gathering
<1> QED
    BY <1>9

(* What the gathering gives. *)
LEMMA SplitByIs ==
    ASSUME NEW text, NEW max, NEW depth, NEW deeper
    PROVE  LET parts == SplitAt(text, depth)
               all == (CHOOSE h : Gathering(parts, max, depth, deeper, h))[DOMAIN parts]
           IN SplitBy(text, max, depth, deeper) =
                  IF text = <<>> THEN <<>>
                  ELSE IF TextLen(text) <= max THEN <<text>>
                  ELSE IF Len(parts) = 1 THEN deeper[parts[1]]
                  ELSE Kept(all.out, all.buf)
BY DEF SplitBy, FoldLeft, MapThenFoldSet, Gathering, GatherStep, Candidate, NoneYet

(* Parts gathered from the first to the last. *)
GatheredBy(text, parts, max, depth, deeper, t) ==
    /\ t[0] = NoneYet
    /\ \A k \in 1..Len(parts) : t[k] = GatherStep(t[k - 1], parts[k], max, depth, deeper)
    /\ \A k \in 0..Len(parts) : t[k] \in Gathered
    /\ SplitBy(text, max, depth, deeper) =
           IF text = <<>> THEN <<>>
           ELSE IF TextLen(text) <= max THEN <<text>>
           ELSE IF Len(parts) = 1 THEN deeper[parts[1]]
           ELSE Kept(t[Len(parts)].out, t[Len(parts)].buf)

(* Any splittable parts are gathered that way. *)
LEMMA GatherStepwise ==
    ASSUME NEW text, NEW max, NEW depth, NEW deeper, NEW parts, parts = SplitAt(text, depth),
           Splittable(parts, deeper)
    PROVE  \E t : GatheredBy(text, parts, max, depth, deeper, t)
<1> DEFINE h == CHOOSE h : Gathering(parts, max, depth, deeper, h)
           n == Len(parts)
           t == [k \in 0..n |-> h[1..k]]
<1>1. /\ n \in Nat /\ DOMAIN parts = 1..n
      /\ \A i \in 1..n : parts[i] \in Seq(WordParts) /\ parts[i] # <<>> /\ deeper[parts[i]] \in Seq(Seq(WordParts))
    <2> DEFINE S == Seq(WordParts)
    <2>1. parts \in Seq(S)
        BY DEF Splittable
    <2> HIDE DEF S
    <2>2. n \in Nat /\ DOMAIN parts = 1..n /\ \A i \in 1..n : parts[i] \in S
        BY <2>1
    <2> QED
        BY <2>2 DEF Splittable, S
<1>2. Gathering(parts, max, depth, deeper, h)
    BY GatheringExists
<1>3. SplitBy(text, max, depth, deeper) =
          IF text = <<>> THEN <<>>
          ELSE IF TextLen(text) <= max THEN <<text>>
          ELSE IF Len(parts) = 1 THEN deeper[parts[1]]
          ELSE Kept(h[1..n].out, h[1..n].buf)
    <2>1. SplitBy(text, max, depth, deeper) =
              IF text = <<>> THEN <<>>
              ELSE IF TextLen(text) <= max THEN <<text>>
              ELSE IF Len(parts) = 1 THEN deeper[parts[1]]
              ELSE Kept(h[DOMAIN parts].out, h[DOMAIN parts].buf)
        BY SplitByIs
    <2> HIDE DEF h, n
    <2> QED
        BY <1>1, <2>1
<1> HIDE DEF h, n
<1>4. \A s \in SUBSET (1..n) :
          h[s] = IF s = {} THEN NoneYet
                 ELSE GatherStep(h[s \ {Max(s)}], parts[Max(s)], max, depth, deeper)
    BY <1>1, <1>2, Zenon DEF Gathering
<1>5. t[0] = NoneYet
    <2>1. 1..0 = {} /\ {} \in SUBSET (1..n) /\ 0 \in 0..n
        BY <1>1
    <2> QED
        BY <1>4, <2>1
<1>6. ASSUME NEW k \in 1..n
      PROVE  t[k] = GatherStep(t[k - 1], parts[k], max, depth, deeper)
    <2>1. 1..k \in SUBSET (1..n) /\ k \in 1..k /\ 1..k # {} /\ k \in Nat
        BY <1>1, UpTo
    <2>2. Max(1..k) = k
        BY <2>1, LatestIs
    <2>3. (1..k) \ {k} = 1..k - 1
        BY <1>1, UpTo
    <2>4. k \in 0..n /\ k - 1 \in 0..n
        BY <1>1, UpTo
    <2>5. h[1..k] = GatherStep(h[1..k - 1], parts[k], max, depth, deeper)
        <3>1. h[1..k] = GatherStep(h[(1..k) \ {Max(1..k)}], parts[Max(1..k)], max, depth, deeper)
            BY <1>4, <2>1
        <3> QED
            BY <2>2, <2>3, <3>1
    <2> QED
        BY <2>4, <2>5
<1>7. t[n] = h[1..n]
    BY <1>1
<1> HIDE DEF t
<1> DEFINE P == {k \in 0..n : t[k] \in Gathered}
<1>8. 0 \in P
    <2>1. NoneYet \in Gathered
        BY DEF NoneYet, Gathered
    <2> QED
        BY <1>1, <1>5, <2>1
<1>9. ASSUME NEW k \in 1..n, k - 1 \in P
      PROVE  k \in P
    <2>1. t[k - 1] \in Gathered
        BY <1>9
    <2>2. GatherStep(t[k - 1], parts[k], max, depth, deeper) \in Gathered
        BY <1>1, <2>1, GatherStepStays
    <2> QED
        BY <1>1, <1>6, <2>2
<1> HIDE DEF P
<1>10. ASSUME NEW k \in 0..n
       PROVE  k \in P
    <2>1. k \in Nat /\ \A i \in 1..k : i \in 1..n
        BY <1>1
    <2> QED
        BY <1>8, <1>9, <2>1, Climbing
<1>11. \A k \in 0..n : t[k] \in Gathered
    BY <1>10 DEF P
<1>12. GatheredBy(text, parts, max, depth, deeper, t)
    BY <1>3, <1>5, <1>6, <1>7, <1>11 DEF n, GatheredBy
<1> QED
    BY <1>12

------------------------------------------------------------------------------
(* Recombining covers what the parts do. *)

(* What is kept of the parts of a slice up to a word: nothing yet, or pieces of it. *)
Reached(P, s, w, max, T) == (P = <<>> /\ w = s[1].word - 1) \/ Covers(P, s[1].word, w, max, T)

(* Pieces of what comes next reach further. *)
LEMMA ReachedFurther ==
    ASSUME NEW T, NEW s, NEW w \in Int, NEW max, NEW P \in Seq(Seq(WordParts)), Reached(P, s, w, max, T),
           NEW Q, NEW c, Covers(Q, w + 1, c, max, T), s[1].word \in Int
    PROVE  Covers(P \o Q, s[1].word, c, max, T)
<1>1. CASE P = <<>> /\ w = s[1].word - 1
    <2> DEFINE S == Seq(WordParts)
    <2>1. Q \in Seq(S)
        BY DEF Covers
    <2> HIDE DEF S
    <2>2. <<>> \o Q = Q
        BY <2>1, ConcatEmptySeq
    <2>3. w + 1 = s[1].word
        BY <1>1
    <2> QED
        BY <1>1, <2>2, <2>3
<1>2. CASE Covers(P, s[1].word, w, max, T)
    BY <1>2, CoversTogether
<1> QED
    BY <1>1, <1>2 DEF Reached

(* The last piece of a cover made longer by a slice covers that too. *)
LEMMA CoversLonger ==
    ASSUME NEW T, Whole(T), NEW max, NEW a, NEW w \in Int, NEW out \in Seq(Seq(WordParts)),
           NEW buf \in Seq(WordParts), buf # <<>>, Covers(out \o <<buf>>, a, w, max, T),
           NEW part, Slice(part, T), part[1].word = w + 1, NEW sep \in 0..3,
           TextLen(JoinedBy(sep, buf, part)) <= max
    PROVE  Covers(out \o <<JoinedBy(sep, buf, part)>>, a, Last(part).word, max, T)
<1> DEFINE z == JoinedBy(sep, buf, part)
           n == Len(out)
           S == Seq(WordParts)
           P == out \o <<buf>>
           Q == out \o <<z>>
<1>1. part \in Seq(WordParts) /\ Unbroken(part, T) /\ part[1].from = 0
      /\ Last(part).from + Last(part).len = T[Last(part).word].len
    <2> DEFINE R == <<part>>
               b == TextLen(part)
    <2>1. part \in Seq(WordParts) /\ b \in Nat /\ TextLen(part) <= b
        BY LengthIsANumber DEF Slice
    <2>2. Covers(R, part[1].word, Last(part).word, b, T)
        BY <2>1, SliceCovers
    <2>3. R[1] = part /\ Last(R) = part /\ 1 \in DOMAIN R
        BY DEF Last
    <2> HIDE DEF R
    <2> QED
        BY <2>1, <2>2, <2>3 DEF Covers
<1>2. out \in Seq(S) /\ buf \in S /\ n \in Nat
    BY LenProperties
<1> HIDE DEF S
<1>3. P \in Seq(S) /\ Len(P) = n + 1 /\ (\A i \in 1..n : P[i] = out[i]) /\ P[n + 1] = buf
    BY <1>2, AppendProperties, AppendIsConcat
<1> HIDE DEF P
<1>4. DOMAIN P = 1..n + 1 /\ Last(P) = buf /\ n + 1 \in 1..n + 1
    BY <1>2, <1>3 DEF Last
<1>5. Covers(P, a, w, max, T)
    BY DEF P
<1>6. Unbroken(buf, T)
    <2>1. n + 1 \in DOMAIN P
        BY <1>4
    <2>2. Unbroken(P[n + 1], T)
        BY <1>5, <2>1 DEF Covers
    <2> QED
        BY <1>3, <2>2
<1>7. Continues(Last(buf), part[1], T)
    <2>1. Last(buf).word = w /\ Last(buf).from + Last(buf).len = T[w].len
        BY <1>4, <1>5 DEF Covers
    <2> QED
        BY <1>1, <2>1 DEF Continues
<1>8. z \in Seq(WordParts) /\ Unbroken(z, T) /\ Same(buf[1], z[1]) /\ Last(z) = Last(part)
    BY <1>1, <1>6, <1>7, JoinedIsUnbroken
<1>9. TextLen(z) <= max
    OBVIOUS
<1>10. z \in S
    BY <1>8 DEF S
<1> HIDE DEF z
<1>11. Q \in Seq(S) /\ Q # <<>> /\ Len(Q) = n + 1 /\ (\A i \in 1..n : Q[i] = out[i]) /\ Q[n + 1] = z
    BY <1>2, <1>10, AppendProperties, AppendIsConcat
<1> HIDE DEF Q, n
<1>12. DOMAIN Q = 1..n + 1 /\ Last(Q) = z
    BY <1>2, <1>11 DEF Last
<1>13. \A i \in 1..n + 1 : i = n + 1 \/ i \in 1..n
    BY <1>2
<1>14. \A i \in 1..n : Q[i] = P[i]
    BY <1>3, <1>11
<1>15. \A i \in 1..n + 1 : Same(P[i][1], Q[i][1])
    <2> SUFFICES ASSUME NEW i \in 1..n + 1 PROVE Same(P[i][1], Q[i][1])
        OBVIOUS
    <2>1. CASE i = n + 1
        BY <1>3, <1>8, <1>11, <2>1
    <2>2. CASE i \in 1..n
        BY <1>14, <2>2 DEF Same
    <2> QED
        BY <1>13, <2>1, <2>2
<1>16. ASSUME NEW i \in DOMAIN Q
       PROVE  Unbroken(Q[i], T) /\ TextLen(Q[i]) <= max
    <2>1. CASE i = n + 1
        BY <1>8, <1>9, <1>11, <2>1
    <2>2. CASE i \in 1..n
        <3>1. i \in DOMAIN P
            BY <1>4, <1>12
        <3> QED
            BY <1>5, <1>14, <2>2, <3>1 DEF Covers
    <2> QED
        BY <1>12, <1>13, <2>1, <2>2
<1>17. ASSUME NEW i \in 1..Len(Q) - 1
       PROVE  Continues(Last(Q[i]), Q[i + 1][1], T)
    <2>1. i \in 1..Len(P) - 1 /\ i \in 1..n /\ i + 1 \in 1..n + 1
        BY <1>2, <1>3, <1>11
    <2>2. Continues(Last(P[i]), P[i + 1][1], T)
        BY <1>5, <2>1 DEF Covers
    <2>3. Same(P[i + 1][1], Q[i + 1][1]) /\ Q[i] = P[i]
        BY <1>14, <1>15, <2>1
    <2>4. Same(Last(P[i]), Last(P[i]))
        BY DEF Same
    <2> QED
        BY <2>2, <2>3, <2>4, ContinuesTheSame
<1>18. Q[1][1].word = a /\ Q[1][1].from = 0
    <2>1. 1 \in 1..n + 1
        BY <1>2
    <2>2. P[1][1].word = a /\ P[1][1].from = 0
        BY <1>5 DEF Covers
    <2> QED
        BY <1>15, <2>1, <2>2 DEF Same
<1>19. Q \in Seq(Seq(WordParts))
    BY <1>11 DEF S
<1>20. Covers(Q, a, Last(part).word, max, T)
    BY <1>1, <1>8, <1>11, <1>12, <1>16, <1>17, <1>18, <1>19 DEF Covers
<1> QED
    BY <1>20 DEF Q, z

(* A part more reaches its end. *)
LEMMA GatherReaches ==
    ASSUME NEW T, Whole(T), NEW s, s[1].word \in Int, NEW w \in Int, NEW max \in Nat, NEW depth,
           NEW acc \in Gathered, Reached(Kept(acc.out, acc.buf), s, w, max, T),
           NEW part, Slice(part, T), part[1].word = w + 1,
           NEW deeper, Covers(deeper[part], w + 1, Last(part).word, max, T)
    PROVE  LET new == GatherStep(acc, part, max, depth, deeper) IN
           Covers(Kept(new.out, new.buf), s[1].word, Last(part).word, max, T)
<1> DEFINE new == GatherStep(acc, part, max, depth, deeper)
           candidate == Candidate(acc, part, depth)
           kept == Kept(acc.out, acc.buf)
           c == Last(part).word
<1>1. part \in Seq(WordParts) /\ part # <<>> /\ TextLen(part) \in Nat
    BY LengthIsANumber DEF Slice
<1>2. /\ acc.out \in Seq(Seq(WordParts)) /\ acc.buf \in Seq(WordParts)
      /\ candidate \in Seq(WordParts) /\ candidate # <<>>
      /\ acc.buf = <<>> => candidate = part
      /\ \E sep \in 0..3 : candidate = JoinedBy(sep, acc.buf, part)
    BY <1>1, CandidateIs
<1>3. kept \in Seq(Seq(WordParts))
    BY <1>2, KeptIs
<1>4. new = IF TextLen(candidate) <= max THEN [acc EXCEPT !.buf = candidate]
            ELSE IF TextLen(part) > max
                 THEN [out |-> kept \o deeper[part], buf |-> <<>>]
                 ELSE [out |-> kept, buf |-> part]
    BY DEF GatherStep
<1> HIDE DEF new, candidate, c
<1>5. CASE TextLen(candidate) <= max
    <2>1. new.out = acc.out /\ new.buf = candidate
        BY <1>4, <1>5 DEF Gathered
    <2>2. Kept(new.out, new.buf) = acc.out \o <<candidate>>
        <3>1. Kept(acc.out, candidate) = acc.out \o <<candidate>>
            BY <1>2, KeptIs
        <3> QED
            BY <2>1, <3>1
    <2>3. CASE acc.buf = <<>>
        <3>1. kept = acc.out
            BY <1>2, <2>3, KeptIs
        <3> HIDE DEF kept
        <3>2. candidate = part
            BY <1>2, <2>3
        <3>3. Covers(<<part>>, w + 1, c, max, T)
            <4>1. TextLen(part) <= max
                BY <1>5, <3>2
            <4> QED
                BY <4>1, SliceCovers DEF c
        <3>4. Covers(kept \o <<part>>, s[1].word, c, max, T)
            BY <1>3, <3>3, ReachedFurther DEF kept
        <3> QED
            BY <2>2, <3>1, <3>2, <3>4 DEF c, new
    <2>4. CASE acc.buf # <<>>
        <3>1. kept = acc.out \o <<acc.buf>>
            BY <1>2, <2>4, KeptIs
        <3>2. kept # <<>>
            BY <1>2, <2>4, KeptIs
        <3>3. Covers(acc.out \o <<acc.buf>>, s[1].word, w, max, T)
            BY <3>1, <3>2 DEF Reached
        <3> HIDE DEF kept
        <3>4. PICK sep \in 0..3 : candidate = JoinedBy(sep, acc.buf, part)
            BY <1>2
        <3>5. Covers(acc.out \o <<JoinedBy(sep, acc.buf, part)>>, s[1].word, c, max, T)
            BY <1>2, <1>5, <2>4, <3>3, <3>4, CoversLonger DEF c
        <3> QED
            BY <2>2, <3>4, <3>5 DEF c, new
    <2> QED
        BY <2>3, <2>4
<1>6. CASE TextLen(candidate) > max /\ TextLen(part) > max
    <2> DEFINE more == kept \o deeper[part]
    <2>0. TextLen(candidate) \in Nat
        BY <1>2, LengthIsANumber
    <2>2. Covers(more, s[1].word, c, max, T)
        BY <1>3, ReachedFurther DEF c
    <2>3. ~ TextLen(candidate) <= max
        BY <1>6, <2>0
    <2>4. new = [out |-> more, buf |-> <<>>]
        BY <1>4, <1>6, <2>3
    <2> HIDE DEF more
    <2>1. new.out = more /\ new.buf = <<>>
        BY <2>4
    <2>5. Kept(new.out, new.buf) = more
        BY <2>1 DEF Kept
    <2> QED
        BY <2>2, <2>5 DEF c, new
<1>7. CASE TextLen(candidate) > max /\ TextLen(part) <= max
    <2>0. TextLen(candidate) \in Nat
        BY <1>2, LengthIsANumber
    <2>1. new.out = kept /\ new.buf = part
        BY <1>1, <1>4, <1>7, <2>0
    <2>2. Covers(<<part>>, w + 1, c, max, T)
        BY <1>7, SliceCovers DEF c
    <2>3. Covers(kept \o <<part>>, s[1].word, c, max, T)
        BY <1>3, <2>2, ReachedFurther
    <2> HIDE DEF kept
    <2>4. Kept(new.out, new.buf) = kept \o <<part>>
        BY <1>1, <1>3, <2>1, KeptIs
    <2> QED
        BY <2>3, <2>4 DEF c, new
<1>8. TextLen(candidate) \in Nat
    BY <1>2, LengthIsANumber
<1> QED
    BY <1>1, <1>5, <1>6, <1>7, <1>8 DEF new, c

(* What a slice is split into covers it, if what its parts are split into does. *)
LEMMA SplitByCovers ==
    ASSUME NEW T, Whole(T), NEW s, Slice(s, T), NEW max \in Nat, NEW depth, NEW deeper,
           \A part \in PartsAt(s, depth) :
               Covers(deeper[part], part[1].word, Last(part).word, max, T)
    PROVE  Covers(SplitBy(s, max, depth, deeper), s[1].word, Last(s).word, max, T)
<1> DEFINE parts == SplitAt(s, depth)
           n == Len(parts)
           a == s[1].word
<1>1. Divides(parts, s, Last(s), depth, T)
    BY SplitDivides
<1>2. s # <<>> /\ s \in Seq(WordParts) /\ a \in Nat \ {0}
    BY SliceIs DEF Slice
<1>3. \A i \in DOMAIN parts : parts[i] \in PartsAt(s, depth)
    BY DEF PartsAt, Range
<1> HIDE DEF parts
<1>4. parts \in Seq(Seq(WordParts)) /\ parts # <<>> /\ n \in Nat \ {0} /\ DOMAIN parts = 1..n
      /\ Last(parts) = parts[n]
    BY <1>1 DEF Divides, Last
<1>5. \A i \in 1..n : Slice(parts[i], T)
    BY <1>1, <1>4 DEF Divides
<1>6. \A i \in 1..n : Covers(deeper[parts[i]], parts[i][1].word, Last(parts[i]).word, max, T)
    BY <1>3, <1>4
<1>7. Splittable(parts, deeper)
    BY <1>4, <1>5, <1>6 DEF Splittable, Slice, Covers
<1> HIDE DEF n
<1>8. PICK t : /\ t[0] = NoneYet
               /\ \A k \in 1..n : t[k] = GatherStep(t[k - 1], parts[k], max, depth, deeper)
               /\ \A k \in 0..n : t[k] \in Gathered
               /\ SplitBy(s, max, depth, deeper) =
                      IF s = <<>> THEN <<>>
                      ELSE IF TextLen(s) <= max THEN <<s>>
                      ELSE IF n = 1 THEN deeper[parts[1]]
                      ELSE Kept(t[n].out, t[n].buf)
    <2>1. parts = SplitAt(s, depth)
        BY DEF parts
    <2>2. PICK t : GatheredBy(s, parts, max, depth, deeper, t)
        BY <1>7, <2>1, GatherStepwise
    <2> QED
        BY <2>2 DEF n, GatheredBy
<1> DEFINE w == [k \in 0..n |-> IF k = 0 THEN a - 1 ELSE Last(parts[k]).word]
           P == {k \in 0..n : Reached(Kept(t[k].out, t[k].buf), s, w[k], max, T)}
<1>9. \A k \in 0..n : w[k] \in Int
    <2> SUFFICES ASSUME NEW k \in 0..n PROVE w[k] \in Int
        OBVIOUS
    <2>1. CASE k = 0
        BY <1>2, <2>1
    <2>2. CASE k # 0
        <3>1. k \in 1..n
            BY <1>4, <2>2
        <3>2. Last(parts[k]).word = parts[k][1].word + Len(parts[k]) - 1
              /\ parts[k][1].word \in Nat /\ Len(parts[k]) \in Nat
            BY <1>5, <3>1, SliceIs
        <3> QED
            BY <2>2, <3>2
    <2> QED
        BY <2>1, <2>2
<1>10. \A k \in 1..n : parts[k][1].word = w[k - 1] + 1 /\ w[k] = Last(parts[k]).word
    <2> SUFFICES ASSUME NEW k \in 1..n
                 PROVE  parts[k][1].word = w[k - 1] + 1 /\ w[k] = Last(parts[k]).word
        OBVIOUS
    <2>1. k \in 0..n /\ k - 1 \in 0..n /\ k # 0
        BY <1>4
    <2>2. CASE k = 1
        <3>1. parts[1][1].word = a
            BY <1>1 DEF Divides
        <3> QED
            BY <1>2, <2>1, <2>2, <3>1
    <2>3. CASE k # 1
        <3>1. k - 1 \in 1..n - 1 /\ k - 1 # 0 /\ (k - 1) + 1 = k
            BY <1>4, <2>3
        <3>2. parts[(k - 1) + 1][1].word = Last(parts[k - 1]).word + 1
            BY <1>1, <3>1 DEF Divides, n
        <3>3. w[k - 1] = Last(parts[k - 1]).word
            BY <2>1, <3>1
        <3> QED
            BY <2>1, <3>1, <3>2, <3>3
    <2> QED
        BY <2>2, <2>3
<1>11. w[0] = a - 1
    BY <1>4
<1> HIDE DEF w
<1>12. 0 \in P
    <2>1. Kept(t[0].out, t[0].buf) = <<>>
        BY <1>8 DEF NoneYet, Kept
    <2> QED
        BY <1>4, <1>11, <2>1 DEF Reached
<1>13. ASSUME NEW k \in 1..n, k - 1 \in P
       PROVE  /\ k \in P
              /\ Covers(Kept(t[k].out, t[k].buf), s[1].word, w[k], max, T)
    <2> DEFINE acc == t[k - 1]
               part == parts[k]
    <2>1. acc \in Gathered /\ Reached(Kept(acc.out, acc.buf), s, w[k - 1], max, T) /\ w[k - 1] \in Int
        BY <1>4, <1>8, <1>9, <1>13
    <2>2. Slice(part, T) /\ part[1].word = w[k - 1] + 1 /\ w[k] = Last(part).word
        BY <1>5, <1>10
    <2>3. Covers(deeper[part], w[k - 1] + 1, Last(part).word, max, T)
        BY <1>6, <2>2
    <2>4. t[k] = GatherStep(acc, part, max, depth, deeper)
        BY <1>8
    <2> HIDE DEF acc, part
    <2>5. s[1].word \in Int
        BY <1>2
    <2>6. LET new == GatherStep(acc, part, max, depth, deeper) IN
          Covers(Kept(new.out, new.buf), s[1].word, Last(part).word, max, T)
        BY <2>1, <2>2, <2>3, <2>5, GatherReaches
    <2>7. Covers(Kept(t[k].out, t[k].buf), s[1].word, w[k], max, T)
        BY <2>2, <2>4, <2>6
    <2> QED
        BY <1>4, <2>7 DEF Reached
<1>14. ASSUME NEW k \in 0..n
       PROVE  k \in P
    <2> HIDE DEF P
    <2>1. k \in Nat /\ \A i \in 1..k : i \in 1..n
        BY <1>4
    <2> QED
        BY <1>12, <1>13, <2>1, Climbing
<1>15. Covers(Kept(t[n].out, t[n].buf), s[1].word, w[n], max, T) /\ w[n] = Last(s).word
    <2>1. n \in 1..n /\ n - 1 \in 0..n
        BY <1>4
    <2>2. Last(parts[n]) = Last(s)
        BY <1>1, <1>4 DEF Divides
    <2> QED
        BY <1>10, <1>13, <1>14, <2>1, <2>2
<1>16. CASE TextLen(s) <= max
    BY <1>2, <1>8, <1>16, SliceCovers
<1>17. CASE ~ TextLen(s) <= max /\ n = 1
    <2>1. 1 \in 1..n /\ parts[1][1].word = a /\ Last(parts[1]) = Last(s)
        BY <1>1, <1>4, <1>17 DEF Divides
    <2>2. Covers(deeper[parts[1]], a, Last(s).word, max, T)
        BY <1>6, <2>1
    <2> QED
        BY <1>2, <1>8, <1>17, <2>2
<1>18. CASE ~ TextLen(s) <= max /\ n # 1
    BY <1>2, <1>8, <1>15, <1>18
<1> QED
    BY <1>16, <1>17, <1>18

(* The parts of a slice, at separators of a kind: slices of it without them inside. *)
LEMMA PartsAreClean ==
    ASSUME NEW T, Whole(T), NEW s, Slice(s, T), NEW kinds, Clean(s, kinds), NEW kind,
           NEW part \in PartsAt(s, kind)
    PROVE  Slice(part, T) /\ Clean(part, kinds \cup {kind})
<1> DEFINE parts == SplitAt(s, kind)
<1>1. Divides(parts, s, Last(s), kind, T)
    BY SplitDivides
<1>2. PICK i \in DOMAIN parts : part = parts[i]
    BY DEF PartsAt, Range
<1> HIDE DEF parts
<1>3. Slice(part, T) /\ Clean(part, {kind}) /\ Within(part, s)
    BY <1>1, <1>2 DEF Divides, Within
<1>4. Clean(part, kinds)
    BY <1>3, CleanWithin
<1> QED
    BY <1>3, <1>4 DEF Clean

(* A multiple of one number is between two others. *)
LEMMA CutsOf ==
    ASSUME NEW len \in Nat \ {0}, NEW max \in Nat \ {0}
    PROVE  LET n == (len + max - 1) \div max IN
           n \in Nat \ {0} /\ (n - 1) * max < len /\ len <= n * max
OBVIOUS

(* Multiples grow. *)
LEMMA MultiplesGrow ==
    ASSUME NEW i \in Nat, NEW j \in Nat, i <= j, NEW m \in Nat
    PROVE  i * m \in Nat /\ i * m <= j * m /\ (i + 1) * m = i * m + m
OBVIOUS

(* The smaller of two numbers. *)
LEMMA SmallerOf ==
    ASSUME NEW m \in Nat, NEW n \in Nat
    PROVE  Min({m, n}) = IF n <= m THEN n ELSE m
<1>1. \E i \in {m, n} : \A j \in {m, n} : i <= j
    OBVIOUS
<1>2. Min({m, n}) \in {m, n} /\ \A i \in {m, n} : Min({m, n}) <= i
    BY <1>1 DEF Min
<1> QED
    BY <1>2

(* A word is cut into pieces of it, one after the other. *)
LEMMA HardCutCovers ==
    ASSUME NEW T, Whole(T), NEW s, Slice(s, T), Len(s) = 1, NEW max \in Nat \ {0}
    PROVE  Covers(HardCut(s, max), s[1].word, Last(s).word, max, T)
<1> DEFINE w == s[1]
           len == w.len
           n == (len + max - 1) \div max
           Cut(i) == Part(w.word, w.from + (i - 1) * max, Min({max, len - (i - 1) * max}), w.sep)
           P == [i \in 1..n |-> <<Cut(i)>>]
<1>1. /\ w \in WordParts /\ w.from = 0 /\ len \in Nat \ {0} /\ w = T[w.word] /\ Last(s) = w
      /\ w.word \in Nat /\ w.sep \in 0..3
    <2>1. 1 \in 1..Len(s) /\ Last(s) = s[1]
        BY DEF Last
    <2>2. w \in WordParts /\ w.from = 0 /\ len \in Nat \ {0} /\ w = T[w.word]
        BY <2>1, SliceIs
    <2> QED
        BY <2>1, <2>2, HasWeight
<1>2. HardCut(s, max) = P
    BY DEF HardCut
<1> HIDE DEF w
<1>3. n \in Nat \ {0} /\ (n - 1) * max < len /\ len <= n * max
    BY <1>1, CutsOf
<1> HIDE DEF len, n
<1>4. ASSUME NEW i \in 1..n
      PROVE  /\ Cut(i) = Part(w.word, (i - 1) * max, IF i = n THEN len - (n - 1) * max ELSE max, w.sep)
             /\ (i - 1) * max \in Nat /\ i * max = (i - 1) * max + max
             /\ len - (n - 1) * max \in 1..max
    <2>1. i - 1 \in Nat /\ n - 1 \in Nat /\ i - 1 <= n - 1 /\ (i - 1) + 1 = i /\ (n - 1) + 1 = n
        BY <1>3
    <2>2. (i - 1) * max \in Nat /\ (i - 1) * max <= (n - 1) * max /\ (n - 1) * max \in Nat
          /\ i * max = (i - 1) * max + max /\ n * max = (n - 1) * max + max
        BY <2>1, MultiplesGrow
    <2> DEFINE a == (i - 1) * max
               b == (n - 1) * max
    <2>3. a \in Nat /\ b \in Nat /\ a <= b /\ b < len /\ len <= b + max
        BY <1>3, <2>2
    <2>4. i # n => a + max <= b
        <3> SUFFICES ASSUME i # n PROVE i * max <= b
            BY <2>2
        <3>1. i \in Nat /\ i <= n - 1
            BY <1>3
        <3> QED
            BY <2>1, <3>1, MultiplesGrow
    <2> HIDE DEF a, b
    <2>5. len - a \in Nat /\ len - b \in 1..max
        BY <1>1, <2>3
    <2>6. Min({max, len - a}) = IF len - a <= max THEN len - a ELSE max
        BY <2>5, SmallerOf
    <2>7. Min({max, len - a}) = IF i = n THEN len - b ELSE max
        <3>1. CASE i = n
            <4>1. a = b
                BY <3>1 DEF a, b
            <4> QED
                BY <2>5, <2>6, <3>1, <4>1
        <3>2. CASE i # n
            <4>1. ~ len - a <= max
                BY <1>1, <2>3, <2>4, <3>2
            <4> QED
                BY <2>6, <3>2, <4>1
        <3> QED
            BY <3>1, <3>2
    <2>8. w.from + a = a
        BY <1>1, <2>3
    <2>9. Cut(i) = Part(w.word, a, IF i = n THEN len - b ELSE max, w.sep)
        BY <2>7, <2>8 DEF a
    <2> HIDE DEF Cut
    <2> QED
        BY <2>2, <2>5, <2>9 DEF a, b
<1> HIDE DEF Cut
<1> DEFINE p == [i \in 1..n |-> Cut(i)]
<1>5. ASSUME NEW i \in 1..n
      PROVE  /\ p[i] \in WordParts /\ p[i].word = w.word /\ p[i].from = (i - 1) * max
             /\ p[i].len = (IF i = n THEN len - (n - 1) * max ELSE max) /\ p[i].len <= max
    <2> DEFINE a == (i - 1) * max
               l == IF i = n THEN len - (n - 1) * max ELSE max
    <2>1. p[i] = Part(w.word, a, l, w.sep) /\ a \in Nat /\ len - (n - 1) * max \in 1..max
        BY <1>4
    <2>2. l \in Nat /\ l <= max
        BY <2>1
    <2> HIDE DEF a, l, p
    <2>3. p[i] = [word |-> w.word, from |-> a, len |-> l, sep |-> w.sep]
        BY <2>1 DEF Part
    <2>4. p[i] \in WordParts
        BY <1>1, <2>1, <2>2, <2>3 DEF WordParts
    <2>5. p[i].word = w.word /\ p[i].from = a /\ p[i].len = l
        BY <2>3
    <2> QED
        BY <2>2, <2>4, <2>5 DEF a, l
<1>6. \A i \in 1..n : P[i] = <<p[i]>>
    OBVIOUS
<1>7. P = [i \in 1..n |-> <<p[i]>>]
    OBVIOUS
<1> HIDE DEF p, P
<1>8. ASSUME NEW i \in 1..n
      PROVE  /\ P[i] \in Seq(WordParts) /\ P[i] # <<>> /\ P[i][1] = p[i] /\ Last(P[i]) = p[i] /\ Len(P[i]) = 1
             /\ TextLen(P[i]) <= max
    <2> DEFINE x == <<p[i]>>
    <2>1. x \in Seq(WordParts) /\ x # <<>> /\ x[1] = p[i] /\ Len(x) = 1
        BY <1>5
    <2>2. TextLen(x) = p[i].len
        BY <1>5, LengthOfFew
    <2>3. Last(x) = p[i]
        BY <2>1 DEF Last
    <2>4. P[i] = x
        BY <1>6
    <2> HIDE DEF x
    <2> QED
        BY <1>5, <2>1, <2>2, <2>3, <2>4
<1>9. P \in Seq(Seq(WordParts)) /\ Len(P) = n /\ DOMAIN P = 1..n
    <2> DEFINE S == Seq(WordParts)
    <2>1. \A i \in 1..n : <<p[i]>> \in S
        BY <1>6, <1>8
    <2> HIDE DEF S
    <2>2. n \in Nat
        BY <1>3
    <2>3. P \in Seq(S) /\ Len(P) = n /\ DOMAIN P = 1..n
        BY <1>7, <2>1, <2>2, IsASeq
    <2> QED
        BY <2>3 DEF S
<1>10. P # <<>> /\ Last(P) = P[n] /\ 1 \in 1..n /\ n \in 1..n
    BY <1>3, <1>9 DEF Last
<1>11. \A i \in 1..n : Unbroken(P[i], T)
    BY <1>8 DEF Unbroken
<1>12. ASSUME NEW i \in 1..n - 1
       PROVE  Continues(Last(P[i]), P[i + 1][1], T)
    <2>1. i \in 1..n /\ i + 1 \in 1..n /\ i # n /\ (i + 1) - 1 = i
        BY <1>3
    <2>2. p[i].word = w.word /\ p[i].from = (i - 1) * max /\ p[i].len = max
        BY <1>5, <2>1
    <2>3. p[i + 1].word = w.word /\ p[i + 1].from = ((i + 1) - 1) * max
        BY <1>5, <2>1
    <2>4. i * max = (i - 1) * max + max
        BY <1>4, <2>1
    <2>5. p[i + 1].from = p[i].from + p[i].len
        BY <2>1, <2>2, <2>3, <2>4
    <2>6. Last(P[i]) = p[i] /\ P[i + 1][1] = p[i + 1]
        BY <1>8, <2>1
    <2> QED
        BY <2>2, <2>3, <2>5, <2>6 DEF Continues
<1>13. P[1][1].word = w.word /\ P[1][1].from = 0
    <2>1. p[1].from = (1 - 1) * max /\ p[1].word = w.word /\ P[1][1] = p[1]
        BY <1>5, <1>8, <1>10
    <2> QED
        BY <2>1
<1>14. Last(Last(P)).word = w.word /\ Last(Last(P)).from + Last(Last(P)).len = T[w.word].len
    <2>1. p[n].from = (n - 1) * max /\ p[n].len = len - (n - 1) * max /\ p[n].word = w.word
        BY <1>5, <1>10
    <2>2. (n - 1) * max \in Nat
        BY <1>4, <1>10
    <2>3. p[n].from + p[n].len = len
        BY <1>1, <2>1, <2>2
    <2>4. T[w.word].len = len
        BY <1>1 DEF len
    <2> QED
        BY <1>8, <1>10, <2>1, <2>3, <2>4
<1>15. Covers(P, w.word, w.word, max, T)
    <2>1. \A i \in DOMAIN P : Unbroken(P[i], T) /\ TextLen(P[i]) <= max
        BY <1>8, <1>9, <1>11
    <2>2. \A i \in 1..Len(P) - 1 : Continues(Last(P[i]), P[i + 1][1], T)
        BY <1>9, <1>12
    <2> QED
        BY <1>9, <1>10, <1>13, <1>14, <2>1, <2>2 DEF Covers
<1> QED
    BY <1>1, <1>2, <1>15 DEF w

(* With no separator inside it is one word. *)
LEMMA CleanIsAWord ==
    ASSUME NEW T, Whole(T), NEW s, Slice(s, T), Clean(s, {0, 1, 2, 3})
    PROVE  Len(s) = 1
<1> SUFFICES ASSUME Len(s) # 1
             PROVE  FALSE
    OBVIOUS
<1>1. 1 \in 1..Len(s) - 1 /\ 1 \in 1..Len(s)
    <2>1. Len(s) \in Nat \ {0}
        BY SliceIs
    <2> QED
        BY <2>1
<1>2. s[1].sep \in 0..3
    BY <1>1, SliceIs, HasWeight
<1>3. s[1].sep \notin {0, 1, 2, 3}
    BY <1>1 DEF Clean
<1> QED
    BY <1>2, <1>3

(* Splitting covers the text, at each kind of separator. *)
LEMMA SpacesCover ==
    ASSUME NEW T, Whole(T), NEW max \in Nat \ {0}, NEW s, Slice(s, T), Clean(s, {0, 1, 2})
    PROVE  Covers(AtSpaces(s, max), s[1].word, Last(s).word, max, T)
<1> DEFINE deeper == [word \in PartsAt(s, Space) |-> HardCut(word, max)]
<1>1. ASSUME NEW part \in PartsAt(s, Space)
      PROVE  Covers(deeper[part], part[1].word, Last(part).word, max, T)
    <2>1. {0, 1, 2} \cup {Space} = {0, 1, 2, 3}
        BY DEF Space
    <2>2. Slice(part, T) /\ Clean(part, {0, 1, 2, 3})
        BY <2>1, PartsAreClean
    <2> QED
        BY <2>2, CleanIsAWord, HardCutCovers
<1> HIDE DEF deeper
<1>2. Covers(SplitBy(s, max, Space, deeper), s[1].word, Last(s).word, max, T)
    BY <1>1, SplitByCovers
<1> QED
    BY <1>2 DEF AtSpaces, deeper

(* At lines. *)
LEMMA LinesCover ==
    ASSUME NEW T, Whole(T), NEW max \in Nat \ {0}, NEW s, Slice(s, T), Clean(s, {0, 1})
    PROVE  Covers(AtLines(s, max), s[1].word, Last(s).word, max, T)
<1> DEFINE deeper == [part \in PartsAt(s, Line) |-> AtSpaces(part, max)]
<1>1. ASSUME NEW part \in PartsAt(s, Line)
      PROVE  Covers(deeper[part], part[1].word, Last(part).word, max, T)
    <2>1. {0, 1} \cup {Line} = {0, 1, 2}
        BY DEF Line
    <2>2. Slice(part, T) /\ Clean(part, {0, 1, 2})
        BY <2>1, PartsAreClean
    <2> QED
        BY <2>2, SpacesCover
<1> HIDE DEF deeper
<1>2. Covers(SplitBy(s, max, Line, deeper), s[1].word, Last(s).word, max, T)
    BY <1>1, SplitByCovers
<1> QED
    BY <1>2 DEF AtLines, deeper

(* At sentences. *)
LEMMA SentencesCover ==
    ASSUME NEW T, Whole(T), NEW max \in Nat \ {0}, NEW s, Slice(s, T), Clean(s, {0})
    PROVE  Covers(AtSentences(s, max), s[1].word, Last(s).word, max, T)
<1> DEFINE deeper == [part \in PartsAt(s, Sentence) |-> AtLines(part, max)]
<1>1. ASSUME NEW part \in PartsAt(s, Sentence)
      PROVE  Covers(deeper[part], part[1].word, Last(part).word, max, T)
    <2>1. {0} \cup {Sentence} = {0, 1}
        BY DEF Sentence
    <2>2. Slice(part, T) /\ Clean(part, {0, 1})
        BY <2>1, PartsAreClean
    <2> QED
        BY <2>2, LinesCover
<1> HIDE DEF deeper
<1>2. Covers(SplitBy(s, max, Sentence, deeper), s[1].word, Last(s).word, max, T)
    BY <1>1, SplitByCovers
<1> QED
    BY <1>2 DEF AtSentences, deeper

(* At paragraphs, which is the whole text. *)
LEMMA SplitCovers ==
    ASSUME NEW T, Whole(T), NEW max \in Nat \ {0}, NEW s, Slice(s, T)
    PROVE  Covers(SplitRecursive(s, max), s[1].word, Last(s).word, max, T)
<1> DEFINE deeper == [part \in PartsAt(s, Paragraph) |-> AtSentences(part, max)]
<1>1. ASSUME NEW part \in PartsAt(s, Paragraph)
      PROVE  Covers(deeper[part], part[1].word, Last(part).word, max, T)
    <2>1. {} \cup {Paragraph} = {0} /\ Clean(s, {})
        BY DEF Paragraph, Clean
    <2>2. Slice(part, T) /\ Clean(part, {0})
        BY <2>1, PartsAreClean
    <2> QED
        BY <2>2, SentencesCover
<1> HIDE DEF deeper
<1>2. Covers(SplitBy(s, max, Paragraph, deeper), s[1].word, Last(s).word, max, T)
    BY <1>1, SplitByCovers
<1> QED
    BY <1>2 DEF SplitRecursive, deeper

(* Of a text, nothing is lost, and no piece of it is too long. *)
LEMMA PiecesOfAText ==
    ASSUME NEW T, Whole(T), NEW max \in Nat \ {0}
    PROVE  /\ SplitRecursive(T, max) \in Seq(Seq(WordParts))
           /\ \A i \in DOMAIN SplitRecursive(T, max) :
                  SplitRecursive(T, max)[i] # <<>> /\ TextLen(SplitRecursive(T, max)[i]) <= max
           /\ NothingLost(T, max)
<1> DEFINE P == SplitRecursive(T, max)
<1>1. CASE T = <<>>
    <2>1. P = <<>>
        BY <1>1 DEF SplitRecursive, SplitBy
    <2> HIDE DEF P
    <2>2. P \in Seq(Seq(WordParts)) /\ \A i \in DOMAIN P : P[i] # <<>> /\ TextLen(P[i]) <= max
        BY <2>1
    <2>3. NothingLost(T, max)
        BY <1>1 DEF NothingLost
    <2> QED
        BY <2>2, <2>3 DEF P
<1>2. CASE T # <<>>
    <2>1. T \in Seq(WordParts) /\ Len(T) \in Nat \ {0} /\ DOMAIN T = 1..Len(T) /\ 1 \in 1..Len(T)
          /\ Len(T) \in 1..Len(T)
        BY <1>2 DEF Whole
    <2>2. Last(T) = T[Len(T)] /\ T[1].word = 1 /\ Last(T).word = Len(T)
        BY <2>1 DEF Whole, Last
    <2>3. Slice(T, T)
        <3>1. \A i \in DOMAIN T : T[1].word + i - 1 = i
            BY <2>1, <2>2
        <3> QED
            BY <1>2, <2>1, <3>1 DEF Slice
    <2>4. Covers(P, 1, Len(T), max, T)
        BY <2>2, <2>3, SplitCovers
    <2> HIDE DEF P
    <2>5. P \in Seq(Seq(WordParts)) /\ \A i \in DOMAIN P : P[i] # <<>> /\ TextLen(P[i]) <= max
        BY <2>4 DEF Covers, Unbroken
    <2>6. NothingLost(T, max)
        BY <2>2, <2>4 DEF Covers, NothingLost, P
    <2> QED
        BY <2>5, <2>6 DEF P
<1> QED
    BY <1>1, <1>2

------------------------------------------------------------------------------
(* What a chunk is given of the one before. *)

(* Where a text is cut: after its first space within the end of it, if there is one. *)
SpacesIn(text, n) == {j \in 1..Len(text) - 1 : IsSpace(text[j].sep) /\ After(text, j) + 1 <= n}

(* The end of a text. *)
LEMMA EndOfText ==
    ASSUME NEW c \in Seq(WordParts), NEW j \in 0..Len(c) - 1
    PROVE  LET e == SubSeq(c, j + 1, Len(c)) IN
           /\ e \in Seq(WordParts) /\ e # <<>> /\ Len(e) = Len(c) - j /\ TextLen(e) = After(c, j)
           /\ \A i \in 1..Len(c) - j : e[i] = c[j + i]
<1> DEFINE e == SubSeq(c, j + 1, Len(c))
           n == Len(c)
<1>1. n \in Nat /\ j \in Nat /\ j + 1 \in Int /\ j + 1 <= n /\ n - (j + 1) + 1 = n - j
      /\ \A i \in 1..n - j : j + 1 + i - 1 = j + i
    OBVIOUS
<1>2. \A i \in j + 1..n : c[i] \in WordParts
    OBVIOUS
<1>3. /\ e \in Seq(WordParts) /\ Len(e) = (IF j + 1 <= n THEN n - (j + 1) + 1 ELSE 0)
      /\ \A i \in 1..n - (j + 1) + 1 : e[i] = c[j + 1 + i - 1]
    BY <1>1, <1>2, SubSeqProperties
<1>4. TextLen(e) = After(c, j)
    BY DEF After
<1> HIDE DEF e, n
<1>5. Len(e) = n - j /\ \A i \in 1..n - j : e[i] = c[j + i]
    BY <1>1, <1>3
<1>6. e # <<>>
    <2>1. Len(e) # 0
        BY <1>1, <1>5
    <2> QED
        BY <2>1
<1> QED
    BY <1>3, <1>4, <1>5, <1>6 DEF e, n

(* With a space in it, the end after the space. *)
LEMMA CarriedAfterSpace ==
    ASSUME NEW c \in Seq(WordParts), c # <<>>, NEW n \in Nat \ {0}, SpacesIn(c, n) # {}
    PROVE  \E m \in SpacesIn(c, n) : /\ Carried(c, n) = SubSeq(c, m + 1, Len(c))
                                     /\ \A j \in SpacesIn(c, n) : m <= j
<1> DEFINE m == Min(SpacesIn(c, n))
<1>1. SpacesIn(c, n) \in SUBSET (1..Len(c) - 1) /\ Len(c) - 1 \in Nat
    <2>1. Len(c) \in Nat \ {0}
        OBVIOUS
    <2> QED
        BY <2>1 DEF SpacesIn
<1>2. m \in SpacesIn(c, n) /\ \A j \in SpacesIn(c, n) : m <= j
    BY <1>1, Earliest
<1>3. Carried(c, n) = SubSeq(c, m + 1, Len(c))
    BY DEF Carried, SpacesIn
<1> QED
    BY <1>2, <1>3

(* With none, as many characters as fit, the first of them maybe of a word that is cut. *)
LEMMA CarriedWithoutSpace ==
    ASSUME NEW c \in Seq(WordParts), c # <<>>, NEW n \in Nat \ {0}, SpacesIn(c, n) = {}
    PROVE  /\ Carried(c, n) \in Seq(WordParts) /\ Carried(c, n) # <<>>
           /\ TextLen(Carried(c, n)) <= n
<1> DEFINE N == Len(c)
           whole == {j \in 1..N : After(c, j - 1) <= n}
           first == IF whole = {} THEN N + 1 ELSE Min(whole)
           taken == IF first > N THEN 0
                    ELSE After(c, first - 1) + (IF first > 1 THEN Width(c[first - 1].sep) ELSE 0)
           left == n - taken
           cut == c[first - 1]
           q == Part(cut.word, cut.from + cut.len - left, left, cut.sep)
           rest == SubSeq(c, first, N)
<1>1. Carried(c, n) = (IF first > 1 /\ left > 0 THEN <<q>> ELSE <<>>) \o rest
    BY DEF Carried, SpacesIn
<1>2. N \in Nat \ {0} /\ \A i \in 1..N : c[i] \in WordParts
    OBVIOUS
<1>3. \A j \in 0..N : After(c, j) \in Nat
    BY AfterIs
<1> HIDE DEF N
<1>4. CASE whole = {}
    <2>1. first = N + 1 /\ first > N /\ first > 1
        BY <1>2, <1>4
    <2>2. left = n /\ left > 0
        BY <2>1
    <2>3. cut \in WordParts
        <3>1. first - 1 \in 1..N
            BY <1>2, <2>1
        <3> HIDE DEF first
        <3> QED
            BY <1>2, <3>1
    <2>4. rest = <<>>
        <3>1. N < first /\ first \in Int /\ N \in Int
            BY <1>2, <2>1
        <3> HIDE DEF first
        <3> QED
            BY <3>1, SubSeqEmpty
    <2> HIDE DEF cut, left, rest
    <2>5. q \in WordParts /\ q.len = n
        <3>1. cut.word \in Nat /\ cut.from + cut.len - left \in Int /\ left \in Nat /\ cut.sep \in 0..3
            BY <2>2, <2>3, HasWeight
        <3> QED
            BY <2>2, <3>1 DEF Part, WordParts
    <2> HIDE DEF q
    <2>6. Carried(c, n) = <<q>>
        <3>1. <<q>> \in Seq(WordParts) /\ <<q>> \o <<>> = <<q>>
            BY <2>5
        <3> HIDE DEF first
        <3> QED
            BY <1>1, <2>1, <2>2, <2>4, <3>1
    <2>7. TextLen(<<q>>) = n
        BY <2>5, LengthOfFew
    <2> QED
        BY <2>5, <2>6, <2>7
<1>5. CASE whole # {}
    <2>1. whole \in SUBSET (1..N)
        OBVIOUS
    <2>2. first \in whole /\ \A j \in whole : first <= j
        <3> HIDE DEF whole
        <3> QED
            BY <1>2, <1>5, <2>1, Earliest
    <2> HIDE DEF first
    <2>3. first \in 1..N /\ After(c, first - 1) <= n /\ first - 1 \in 0..N - 1 /\ ~ first > N
        BY <1>2, <2>2
    <2>4. /\ rest \in Seq(WordParts) /\ rest # <<>> /\ TextLen(rest) = After(c, first - 1)
        <3> DEFINE j == first - 1
        <3>1. j \in 0..Len(c) - 1 /\ j + 1 = first
            BY <1>2, <2>3 DEF N
        <3> HIDE DEF j
        <3>2. LET e == SubSeq(c, j + 1, Len(c)) IN
              e \in Seq(WordParts) /\ e # <<>> /\ TextLen(e) = After(c, j)
            BY <3>1, EndOfText
        <3> QED
            BY <3>1, <3>2 DEF N, j
    <2>5. taken = After(c, first - 1) + (IF first > 1 THEN Width(c[first - 1].sep) ELSE 0)
        BY <2>3
    <2> HIDE DEF rest, taken, left
    <2>6. CASE ~ (first > 1 /\ left > 0)
        <3>1. Carried(c, n) = <<>> \o rest
            BY <1>1, <2>6
        <3>2. <<>> \o rest = rest
            BY <2>4, ConcatEmptySeq
        <3> QED
            BY <2>3, <2>4, <3>1, <3>2
    <2>7. CASE first > 1 /\ left > 0
        <3>1. first - 1 \in 1..N
            BY <1>2, <2>3, <2>7
        <3>2. cut \in WordParts
            BY <1>2, <3>1
        <3>3. left = n - (After(c, first - 1) + Width(cut.sep)) /\ left > 0
            BY <2>5, <2>7 DEF left
        <3>4. After(c, first - 1) \in Nat /\ Width(cut.sep) \in 1..2
            <4>1. first - 1 \in 0..N
                BY <1>2, <2>3
            <4>2. After(c, first - 1) \in Nat
                BY <1>3, <4>1
            <4>3. Width(cut.sep) \in 1..2
                BY <3>2, HasWeight
            <4> QED
                BY <4>2, <4>3
        <3> DEFINE a == After(c, first - 1)
        <3> HIDE DEF a, cut
        <3>5. left \in Nat /\ left + Width(cut.sep) + a = n
            BY <3>3, <3>4 DEF a
        <3>6. q \in WordParts /\ q.len = left /\ q.sep = cut.sep
            <4>1. cut.word \in Nat /\ cut.from + cut.len - left \in Int /\ cut.sep \in 0..3
                BY <3>2, <3>5, HasWeight
            <4> QED
                BY <3>5, <4>1 DEF Part, WordParts
        <3> HIDE DEF q
        <3>7. <<q>> \in Seq(WordParts) /\ <<q>> # <<>> /\ Last(<<q>>) = q /\ TextLen(<<q>>) = left
            BY <3>6, LengthOfFew DEF Last
        <3>8. TextLen(<<q>> \o rest) = left + Width(cut.sep) + a
            <4>1. TextLen(<<q>> \o rest) = TextLen(<<q>>) + Width(Last(<<q>>).sep) + TextLen(rest)
                BY <2>4, <3>7, LengthsAdd
            <4> QED
                BY <2>4, <3>6, <3>7, <4>1 DEF a
        <3>9. Carried(c, n) = <<q>> \o rest
            BY <1>1, <2>7
        <3>10. <<q>> \o rest \in Seq(WordParts) /\ <<q>> \o rest # <<>>
            <4>1. <<q>> \o rest \in Seq(WordParts) /\ Len(<<q>> \o rest) = 1 + Len(rest)
                BY <2>4, <3>6
            <4>2. Len(rest) \in Nat
                BY <2>4
            <4>3. Len(<<q>> \o rest) # 0
                BY <4>1, <4>2
            <4> QED
                BY <4>1, <4>3
        <3> QED
            BY <3>5, <3>8, <3>9, <3>10
    <2> QED
        BY <2>6, <2>7
<1> QED
    BY <1>4, <1>5

(* What is carried is a text no longer than the overlap. *)
LEMMA CarriedIs ==
    ASSUME NEW c \in Seq(WordParts), c # <<>>, NEW n \in Nat \ {0}
    PROVE  /\ Carried(c, n) \in Seq(WordParts) /\ Carried(c, n) # <<>>
           /\ TextLen(Carried(c, n)) <= n
<1>1. CASE SpacesIn(c, n) = {}
    BY <1>1, CarriedWithoutSpace
<1>2. CASE SpacesIn(c, n) # {}
    <2>1. PICK m \in SpacesIn(c, n) : Carried(c, n) = SubSeq(c, m + 1, Len(c))
        BY <1>2, CarriedAfterSpace
    <2>2. m \in 0..Len(c) - 1 /\ m \in 0..Len(c) /\ After(c, m) + 1 <= n
        BY DEF SpacesIn
    <2>3. LET e == SubSeq(c, m + 1, Len(c)) IN
          e \in Seq(WordParts) /\ e # <<>> /\ TextLen(e) = After(c, m)
        BY <2>2, EndOfText
    <2>4. After(c, m) \in Nat
        BY <2>2, AfterIs
    <2> QED
        BY <2>1, <2>2, <2>3, <2>4
<1> QED
    BY <1>1, <1>2

(* What a chunk ends with, the next one has as well. *)
Repeats(c, next, overlap) ==
    \A j \in 2..Len(c) :
        IsSpace(c[j - 1].sep) /\ After(c, j - 1) + 1 <= overlap =>
            \E d \in 0..Len(next) - (Len(c) - j + 1) :
                \A k \in j..Len(c) : Same(c[k], next[d + k - j + 1])

(* The next one has it because it is what was carried. *)
LEMMA CarriedRepeats ==
    ASSUME NEW c \in Seq(WordParts), c # <<>>, NEW n \in Nat \ {0}, NEW piece \in Seq(WordParts), piece # <<>>
    PROVE  Repeats(c, JoinedBy(Space, Carried(c, n), piece), n)
<1> DEFINE x == Carried(c, n)
           next == JoinedBy(Space, x, piece)
           N == Len(c)
<1> SUFFICES ASSUME NEW j \in 2..N, IsSpace(c[j - 1].sep), After(c, j - 1) + 1 <= n
             PROVE  \E d \in 0..Len(next) - (N - j + 1) :
                        \A k \in j..N : Same(c[k], next[d + k - j + 1])
    BY DEF Repeats
<1>1. N \in Nat /\ j - 1 \in 1..N - 1
    OBVIOUS
<1>2. j - 1 \in SpacesIn(c, n)
    BY <1>1 DEF SpacesIn
<1>3. PICK m \in SpacesIn(c, n) : x = SubSeq(c, m + 1, N) /\ \A i \in SpacesIn(c, n) : m <= i
    BY <1>2, CarriedAfterSpace
<1>4. m \in 1..N - 1 /\ m \in 0..N - 1 /\ m <= j - 1
    BY <1>1, <1>2, <1>3 DEF SpacesIn
<1>5. /\ Len(x) = N - m /\ \A i \in 1..N - m : x[i] = c[m + i]
    BY <1>3, <1>4, EndOfText
<1>6. x \in Seq(WordParts) /\ x # <<>>
    BY CarriedIs
<1> HIDE DEF x
<1>7. Space \in 0..3
    BY DEF Space
<1>8. /\ Len(next) = Len(x) + Len(piece)
      /\ \A i \in 1..Len(x) : Same(x[i], next[i])
    BY <1>6, <1>7, JoinedIs
<1> HIDE DEF next, N
<1> DEFINE d == j - 1 - m
<1>9. Len(piece) \in Nat
    OBVIOUS
<1>10. d \in 0..Len(next) - (N - j + 1)
    BY <1>1, <1>4, <1>5, <1>8, <1>9
<1>11. ASSUME NEW k \in j..N
       PROVE  Same(c[k], next[d + k - j + 1])
    <2>1. k - m \in 1..N - m /\ m + (k - m) = k /\ d + k - j + 1 = k - m
        BY <1>1, <1>4
    <2> HIDE DEF d
    <2>2. x[k - m] = c[k]
        BY <1>5, <2>1
    <2>3. Same(x[k - m], next[k - m])
        BY <1>5, <1>8, <2>1
    <2> QED
        BY <2>1, <2>2, <2>3
<1> QED
    BY <1>10, <1>11

------------------------------------------------------------------------------
(* The chunks of a text, made of its pieces one after the other. *)

(* Chunks: a piece more, with what it is given. *)
Chunks == {c \in Seq(Seq(WordParts)) : c # <<>> /\ \A i \in DOMAIN c : c[i] # <<>>}
OverlapStep(chunks, pieces, i, overlap) ==
    Append(chunks, JoinedBy(Space, Carried(Previous(chunks, pieces, i), overlap), pieces[i]))
Overlapping(pieces, overlap, h) ==
    LET later == [i \in 1..Len(pieces) - 1 |-> i + 1] IN
    h = [s \in SUBSET (DOMAIN later) |->
            IF s = {} THEN <<pieces[1]>>
            ELSE OverlapStep(h[s \ {Max(s)}], pieces, later[Max(s)], overlap)]

(* Of the chunks so far, and the one more. *)
LEMMA OverlapStepIs ==
    ASSUME NEW chunks \in Chunks, NEW pieces, NEW i, pieces[i] \in Seq(WordParts), pieces[i] # <<>>,
           NEW overlap \in Nat \ {0}
    PROVE  LET n == Len(chunks)
               new == OverlapStep(chunks, pieces, i, overlap)
           IN /\ new \in Chunks /\ n \in Nat \ {0} /\ Len(new) = n + 1
              /\ \A j \in 1..n : new[j] = chunks[j] /\ chunks[j] \in Seq(WordParts)
              /\ new[n + 1] = JoinedBy(Space, Carried(chunks[n], overlap), pieces[i])
              /\ TextLen(new[n + 1]) <= overlap + 1 + TextLen(pieces[i])
              /\ Repeats(chunks[n], new[n + 1], overlap)
<1> DEFINE n == Len(chunks)
           new == OverlapStep(chunks, pieces, i, overlap)
           S == Seq(WordParts)
           x == Carried(chunks[n], overlap)
           z == JoinedBy(Space, x, pieces[i])
<1>1. chunks \in Seq(S) /\ chunks # <<>>
    BY DEF Chunks
<1> HIDE DEF S
<1>2. n \in Nat \ {0} /\ DOMAIN chunks = 1..n /\ Last(chunks) = chunks[n] /\ n \in 1..n
      /\ \A j \in 1..n : chunks[j] \in S
    BY <1>1 DEF Last
<1>3. new = Append(chunks, z)
    BY <1>2 DEF OverlapStep, Previous
<1> HIDE DEF n, new
<1>4. \A j \in 1..n : chunks[j] # <<>>
    BY <1>2 DEF Chunks
<1>5. x \in Seq(WordParts) /\ x # <<>> /\ TextLen(x) <= overlap
    <2> DEFINE c == chunks[n]
    <2>1. c \in Seq(WordParts) /\ c # <<>>
        BY <1>2, <1>4 DEF S
    <2> HIDE DEF c
    <2>2. Carried(c, overlap) \in Seq(WordParts) /\ Carried(c, overlap) # <<>>
          /\ TextLen(Carried(c, overlap)) <= overlap
        BY <2>1, CarriedIs
    <2> QED
        BY <2>2 DEF c
<1>6. Repeats(chunks[n], z, overlap)
    <2> DEFINE c == chunks[n]
    <2>1. c \in Seq(WordParts) /\ c # <<>>
        BY <1>2, <1>4 DEF S
    <2> HIDE DEF c
    <2>2. Repeats(c, JoinedBy(Space, Carried(c, overlap), pieces[i]), overlap)
        BY <2>1, CarriedRepeats
    <2> QED
        BY <2>2 DEF c
<1> HIDE DEF x
<1>7. z \in Seq(WordParts) /\ z # <<>> /\ TextLen(z) <= overlap + 1 + TextLen(pieces[i])
    <2>1. Space \in 0..3 /\ Width(Space) = 1
        BY DEF Space, Width, Paragraph
    <2>2. z \in Seq(WordParts) /\ z # <<>> /\ TextLen(z) = TextLen(x) + Width(Space) + TextLen(pieces[i])
        BY <1>5, <2>1, JoinedIs
    <2>3. TextLen(x) \in Nat /\ TextLen(pieces[i]) \in Nat
        BY <1>5, LengthIsANumber
    <2> HIDE DEF z
    <2> QED
        BY <1>5, <2>1, <2>2, <2>3
<1> HIDE DEF z
<1>8. z \in S
    BY <1>7 DEF S
<1>9. /\ new \in Seq(S) /\ new # <<>> /\ Len(new) = n + 1
      /\ \A j \in 1..n : new[j] = chunks[j]
      /\ new[n + 1] = z
    BY <1>1, <1>3, <1>8, AppendProperties DEF n
<1>10. new \in Chunks
    <2>1. \A j \in DOMAIN new : j = n + 1 \/ j \in 1..n
        BY <1>2, <1>9
    <2>2. \A j \in DOMAIN new : new[j] # <<>>
        BY <1>4, <1>7, <1>9, <2>1
    <2> QED
        BY <1>9, <2>2 DEF Chunks, S
<1> QED
    BY <1>2, <1>6, <1>7, <1>9, <1>10 DEF n, new, S, z, x

(* There are such chunks. *)
LEMMA OverlappingExists ==
    ASSUME NEW pieces \in Chunks, NEW overlap \in Nat \ {0}
    PROVE  \E h : Overlapping(pieces, overlap, h)
<1> DEFINE n == Len(pieces) - 1
           later == [i \in 1..n |-> i + 1]
           A == Chunks
           base == <<pieces[1]>>
           next == [i \in 1..n |-> [a \in A |-> OverlapStep(a, pieces, i + 1, overlap)]]
<1>0. /\ n \in Nat /\ base \in A
      /\ \A i \in 1..n : pieces[i + 1] \in Seq(WordParts) /\ pieces[i + 1] # <<>>
    <2> DEFINE S == Seq(WordParts)
    <2>1. pieces \in Seq(S) /\ pieces # <<>> /\ \A i \in DOMAIN pieces : pieces[i] # <<>>
        BY DEF Chunks
    <2> HIDE DEF S
    <2>2. Len(pieces) \in Nat \ {0} /\ DOMAIN pieces = 1..Len(pieces)
          /\ \A i \in 1..Len(pieces) : pieces[i] \in S /\ pieces[i] # <<>>
        BY <2>1
    <2>3. n \in Nat /\ 1 \in 1..Len(pieces) /\ \A i \in 1..n : i + 1 \in 1..Len(pieces)
        BY <2>2
    <2> DEFINE p == pieces[1]
    <2>4. p \in S /\ p # <<>>
        BY <2>2, <2>3
    <2> HIDE DEF p
    <2>5. <<p>> \in Seq(S) /\ <<p>> # <<>> /\ \A i \in DOMAIN <<p>> : <<p>>[i] # <<>>
        BY <2>4
    <2>6. base \in A
        BY <2>5 DEF S, p, Chunks
    <2> QED
        BY <2>2, <2>3, <2>6 DEF S
<1> HIDE DEF n, base
<1>2. PICK g : FoldsBy(n, base, next, g)
    BY <1>0, FoldExists
<1>3. \A i \in 1..n : \A a \in A : next[i][a] = OverlapStep(a, pieces, i + 1, overlap)
    OBVIOUS
<1>4. \A i \in 1..n : \A a \in A : next[i][a] \in A
    <2> SUFFICES ASSUME NEW i \in 1..n, NEW a \in A
                 PROVE  OverlapStep(a, pieces, i + 1, overlap) \in A
        BY <1>3
    <2>1. pieces[i + 1] \in Seq(WordParts) /\ pieces[i + 1] # <<>>
        BY <1>0
    <2> QED
        BY <2>1, OverlapStepIs
<1> HIDE DEF next, A
<1>5. \A s \in SUBSET (1..n) : g[s] \in A
    BY <1>0, <1>2, <1>4, FoldStays
<1>6. \A s \in SUBSET (1..n) :
          s # {} => next[Max(s)][g[s \ {Max(s)}]]
                        = OverlapStep(g[s \ {Max(s)}], pieces, later[Max(s)], overlap)
    <2> SUFFICES ASSUME NEW s \in SUBSET (1..n), s # {}
                 PROVE  next[Max(s)][g[s \ {Max(s)}]]
                            = OverlapStep(g[s \ {Max(s)}], pieces, later[Max(s)], overlap)
        OBVIOUS
    <2>1. Max(s) \in 1..n
        BY <1>0, Latest
    <2> DEFINE m == Max(s)
    <2> HIDE DEF m
    <2>2. g[s \ {m}] \in A /\ later[m] = m + 1
        BY <1>5, <2>1 DEF m
    <2> QED
        BY <1>3, <2>1, <2>2 DEF m
<1>7. g = [s \in SUBSET (1..n) |-> IF s = {} THEN base ELSE next[Max(s)][g[s \ {Max(s)}]]]
    BY <1>2 DEF FoldsBy
<1>8. g = [s \in SUBSET (1..n) |->
              IF s = {} THEN base
              ELSE OverlapStep(g[s \ {Max(s)}], pieces, later[Max(s)], overlap)]
    BY <1>6, <1>7, Zenon
<1>9. DOMAIN later = 1..n
    OBVIOUS
<1>10. Overlapping(pieces, overlap, g)
    BY <1>8, <1>9 DEF Overlapping, base, n
<1> QED
    BY <1>10

(* What the chunks of a text are. *)
LEMMA ChunkTextIs ==
    ASSUME NEW text, NEW max, NEW overlap
    PROVE  LET pieces == SplitRecursive(text, max)
               later == [i \in 1..Len(pieces) - 1 |-> i + 1]
           IN ChunkText(text, max, overlap) =
                  IF Len(pieces) <= 1 THEN pieces
                  ELSE (CHOOSE h : Overlapping(pieces, overlap, h))[DOMAIN later]
BY DEF ChunkText, FoldLeft, MapThenFoldSet, Overlapping, OverlapStep

(* Each of several pieces is made a chunk, from the first to the last. *)
OverlappedBy(text, max, overlap, t) ==
    LET pieces == SplitRecursive(text, max)
        n == Len(pieces) - 1
    IN /\ t[0] = <<pieces[1]>>
       /\ \A k \in 1..n : t[k] = OverlapStep(t[k - 1], pieces, k + 1, overlap)
       /\ ChunkText(text, max, overlap) = t[n]

(* They are made that way. *)
LEMMA OverlapStepwise ==
    ASSUME NEW text, NEW max, NEW overlap \in Nat \ {0}, SplitRecursive(text, max) \in Chunks,
           Len(SplitRecursive(text, max)) > 1
    PROVE  \E t : OverlappedBy(text, max, overlap, t)
<1> DEFINE pieces == SplitRecursive(text, max)
           h == CHOOSE h : Overlapping(pieces, overlap, h)
           n == Len(pieces) - 1
           later == [i \in 1..n |-> i + 1]
           t == [k \in 0..n |-> h[1..k]]
<1>1. n \in Nat
    <2>1. pieces \in Seq(Seq(WordParts))
        BY DEF Chunks
    <2> HIDE DEF pieces
    <2>2. Len(pieces) \in Nat
        BY <2>1, LenProperties
    <2>3. Len(pieces) > 1
        BY DEF pieces
    <2> QED
        BY <2>2, <2>3
<1>2. Overlapping(pieces, overlap, h)
    BY OverlappingExists
<1>3. ChunkText(text, max, overlap) = h[1..n]
    <2>1. ChunkText(text, max, overlap) = IF Len(pieces) <= 1 THEN pieces ELSE h[DOMAIN later]
        BY ChunkTextIs
    <2>2. DOMAIN later = 1..n
        OBVIOUS
    <2>3. ~ Len(pieces) <= 1
        <3> HIDE DEF pieces
        <3>1. Len(pieces) \in Int
            <4>1. pieces \in Seq(Seq(WordParts))
                BY DEF Chunks, pieces
            <4> QED
                BY <4>1, LenProperties
        <3>2. Len(pieces) > 1
            BY DEF pieces
        <3> QED
            BY <3>1, <3>2
    <2> HIDE DEF h, n, pieces, later
    <2> QED
        BY <2>1, <2>2, <2>3
<1> HIDE DEF h, pieces
<1>4. \A s \in SUBSET (1..n) :
          h[s] = IF s = {} THEN <<pieces[1]>>
                 ELSE OverlapStep(h[s \ {Max(s)}], pieces, later[Max(s)], overlap)
    <2>1. DOMAIN later = 1..n
        OBVIOUS
    <2>2. h = [s \in SUBSET (1..n) |->
                  IF s = {} THEN <<pieces[1]>>
                  ELSE OverlapStep(h[s \ {Max(s)}], pieces, later[Max(s)], overlap)]
        BY <1>2, <2>1 DEF Overlapping
    <2> HIDE DEF n, later
    <2> QED
        BY <2>2, Zenon
<1> HIDE DEF n
<1>5. t[0] = <<pieces[1]>>
    <2>1. 1..0 = {} /\ {} \in SUBSET (1..n) /\ 0 \in 0..n
        BY <1>1
    <2> QED
        BY <1>4, <2>1
<1>6. ASSUME NEW k \in 1..n
      PROVE  t[k] = OverlapStep(t[k - 1], pieces, k + 1, overlap)
    <2>1. 1..k \in SUBSET (1..n) /\ k \in 1..k /\ 1..k # {} /\ k \in Nat
        BY <1>1, UpTo
    <2>2. Max(1..k) = k
        BY <2>1, LatestIs
    <2>3. (1..k) \ {k} = 1..k - 1
        BY <1>1, UpTo
    <2>4. k \in 0..n /\ k - 1 \in 0..n
        BY <1>1, UpTo
    <2>5. later[k] = k + 1
        OBVIOUS
    <2>6. h[1..k] = OverlapStep(h[1..k - 1], pieces, k + 1, overlap)
        <3>1. h[1..k] = OverlapStep(h[(1..k) \ {Max(1..k)}], pieces, later[Max(1..k)], overlap)
            BY <1>4, <2>1
        <3> QED
            BY <2>2, <2>3, <2>5, <3>1
    <2> QED
        BY <2>4, <2>6
<1>7. t[n] = h[1..n]
    BY <1>1
<1> HIDE DEF t
<1>8. OverlappedBy(text, max, overlap, t)
    BY <1>3, <1>5, <1>6, <1>7 DEF OverlappedBy, n, pieces
<1> QED
    BY <1>8

(* Chunks that hold to what is asked of them: none too long, each repeated in part by
   the next. *)
Overlapped(c, max, overlap) ==
    /\ c \in Chunks
    /\ \A i \in 1..Len(c) : TextLen(c[i]) <= max + overlap + 1
    /\ \A i \in 1..Len(c) - 1 : Repeats(c[i], c[i + 1], overlap)

(* The first piece is such a list. *)
LEMMA FirstPieceOverlapped ==
    ASSUME NEW p \in Seq(WordParts), p # <<>>, NEW max \in Nat, NEW overlap \in Nat, TextLen(p) <= max
    PROVE  Overlapped(<<p>>, max, overlap)
<1> DEFINE S == Seq(WordParts)
           c == <<p>>
<1>1. p \in S
    OBVIOUS
<1> HIDE DEF S
<1>2. c \in Seq(S) /\ c # <<>> /\ Len(c) = 1 /\ DOMAIN c = 1..1 /\ c[1] = p
    BY <1>1
<1> HIDE DEF c
<1>3. \A i \in 1..1 : i = 1
    OBVIOUS
<1>4. \A i \in DOMAIN c : c[i] # <<>>
    BY <1>2, <1>3
<1>5. c \in Chunks
    BY <1>2, <1>4 DEF Chunks, S
<1>6. TextLen(p) \in Nat
    BY LengthIsANumber
<1>7. \A i \in 1..Len(c) : TextLen(c[i]) <= max + overlap + 1
    BY <1>2, <1>3, <1>6
<1>8. 1..Len(c) - 1 = {}
    BY <1>2
<1>9. Overlapped(c, max, overlap)
    BY <1>5, <1>7, <1>8 DEF Overlapped
<1> QED
    BY <1>9 DEF c

(* With a piece more it still is. *)
LEMMA OneMoreOverlapped ==
    ASSUME NEW chunks, NEW max \in Nat, NEW overlap \in Nat \ {0}, Overlapped(chunks, max, overlap),
           NEW pieces, NEW i, pieces[i] \in Seq(WordParts), pieces[i] # <<>>, TextLen(pieces[i]) <= max
    PROVE  Overlapped(OverlapStep(chunks, pieces, i, overlap), max, overlap)
<1> DEFINE n == Len(chunks)
           new == OverlapStep(chunks, pieces, i, overlap)
<1>1. chunks \in Chunks
    BY DEF Overlapped
<1>2. /\ new \in Chunks /\ n \in Nat \ {0} /\ Len(new) = n + 1
      /\ \A j \in 1..n : new[j] = chunks[j] /\ chunks[j] \in Seq(WordParts)
      /\ new[n + 1] = JoinedBy(Space, Carried(chunks[n], overlap), pieces[i])
      /\ TextLen(new[n + 1]) <= overlap + 1 + TextLen(pieces[i])
      /\ Repeats(chunks[n], new[n + 1], overlap)
    BY <1>1, OverlapStepIs
<1>3. /\ \A j \in 1..n : TextLen(chunks[j]) <= max + overlap + 1
      /\ \A j \in 1..n - 1 : Repeats(chunks[j], chunks[j + 1], overlap)
    BY DEF Overlapped
<1>4. TextLen(new[n + 1]) <= max + overlap + 1
    <2>1. new[n + 1] \in Seq(WordParts)
        <3> DEFINE S == Seq(WordParts)
        <3>1. new \in Seq(S)
            BY <1>2 DEF Chunks
        <3> HIDE DEF S, new, n
        <3>2. n + 1 \in 1..Len(new)
            BY <1>2
        <3>3. new[n + 1] \in S
            BY <3>1, <3>2
        <3> QED
            BY <3>3 DEF S
    <2>2. TextLen(pieces[i]) \in Nat /\ TextLen(new[n + 1]) \in Nat
        BY <2>1, LengthIsANumber
    <2> HIDE DEF new, n
    <2> QED
        BY <1>2, <2>2
<1> HIDE DEF new, n
<1>5. \A j \in 1..n + 1 : TextLen(new[j]) <= max + overlap + 1
    <2>1. \A j \in 1..n + 1 : j = n + 1 \/ j \in 1..n
        BY <1>2
    <2> QED
        BY <1>2, <1>3, <1>4, <2>1
<1>6. \A j \in 1..n : Repeats(new[j], new[j + 1], overlap)
    <2> SUFFICES ASSUME NEW j \in 1..n
                 PROVE  Repeats(new[j], new[j + 1], overlap)
        OBVIOUS
    <2>1. CASE j = n
        BY <1>2, <2>1
    <2>2. CASE j # n
        <3>1. j \in 1..n - 1 /\ j + 1 \in 1..n
            BY <1>2, <2>2
        <3>2. new[j] = chunks[j] /\ new[j + 1] = chunks[j + 1]
            BY <1>2, <3>1
        <3> QED
            BY <1>3, <3>1, <3>2
    <2> QED
        BY <2>1, <2>2
<1>7. n + 1 - 1 = n
    BY <1>2
<1>8. Overlapped(new, max, overlap)
    BY <1>2, <1>5, <1>6, <1>7 DEF Overlapped
<1> QED
    BY <1>8 DEF new

(* Several pieces are made such a list. *)
LEMMA SeveralOverlapped ==
    ASSUME NEW text, NEW max \in Nat, NEW overlap \in Nat \ {0},
           SplitRecursive(text, max) \in Chunks, Len(SplitRecursive(text, max)) > 1,
           \A i \in DOMAIN SplitRecursive(text, max) : TextLen(SplitRecursive(text, max)[i]) <= max
    PROVE  Overlapped(ChunkText(text, max, overlap), max, overlap)
<1> DEFINE pieces == SplitRecursive(text, max)
           n == Len(pieces) - 1
           S == Seq(WordParts)
<1>1. PICK t : OverlappedBy(text, max, overlap, t)
    BY OverlapStepwise
<1>2. /\ t[0] = <<pieces[1]>>
      /\ \A k \in 1..n : t[k] = OverlapStep(t[k - 1], pieces, k + 1, overlap)
      /\ ChunkText(text, max, overlap) = t[n]
    BY <1>1 DEF OverlappedBy
<1>3. pieces \in Seq(S) /\ \A i \in DOMAIN pieces : pieces[i] # <<>> /\ TextLen(pieces[i]) <= max
    BY DEF Chunks
<1>4. Len(pieces) > 1
    OBVIOUS
<1> HIDE DEF pieces, S
<1>5. /\ n \in Nat /\ 1 \in DOMAIN pieces /\ \A k \in 1..n : k + 1 \in DOMAIN pieces
      /\ \A i \in DOMAIN pieces : pieces[i] \in S
    BY <1>3, <1>4
<1>6. \A i \in DOMAIN pieces : pieces[i] \in Seq(WordParts) /\ pieces[i] # <<>> /\ TextLen(pieces[i]) <= max
    BY <1>3, <1>5 DEF S
<1> DEFINE P == {k \in 0..n : Overlapped(t[k], max, overlap)}
<1> HIDE DEF n
<1>7. 0 \in P
    <2> DEFINE p == pieces[1]
    <2>1. p \in Seq(WordParts) /\ p # <<>> /\ TextLen(p) <= max
        BY <1>5, <1>6
    <2>2. t[0] = <<p>> /\ 0 \in 0..n
        BY <1>2, <1>5
    <2> HIDE DEF p
    <2>3. Overlapped(<<p>>, max, overlap)
        BY <2>1, FirstPieceOverlapped
    <2> QED
        BY <2>2, <2>3
<1>8. \A k \in 1..n : k - 1 \in P => k \in P
    <2> SUFFICES ASSUME NEW k \in 1..n, k - 1 \in P
                 PROVE  k \in P
        OBVIOUS
    <2>1. Overlapped(t[k - 1], max, overlap) /\ k \in 0..n
        BY <1>5
    <2>2. k + 1 \in DOMAIN pieces
        BY <1>5
    <2>3. Overlapped(OverlapStep(t[k - 1], pieces, k + 1, overlap), max, overlap)
        BY <1>6, <2>1, <2>2, OneMoreOverlapped
    <2> QED
        BY <1>2, <2>1, <2>3
<1> HIDE DEF P
<1>9. n \in P
    BY <1>5, <1>7, <1>8, Climbing
<1> QED
    BY <1>2, <1>9 DEF P

(* So a document's chunks are what is asked of them. *)
LEMMA ChunksOfAText ==
    ASSUME NEW T, Whole(T), NEW max \in Nat \ {0}, NEW overlap \in Nat \ {0}
    PROVE  LET chunks == ChunkText(T, max, overlap) IN
           /\ NothingLost(T, max) /\ SizeBounded(chunks, max, overlap)
           /\ OverlapCarried(chunks, overlap)
<1> DEFINE pieces == SplitRecursive(T, max)
           chunks == ChunkText(T, max, overlap)
           S == Seq(WordParts)
<1>1. /\ pieces \in Seq(S) /\ NothingLost(T, max)
      /\ \A i \in DOMAIN pieces : pieces[i] # <<>> /\ TextLen(pieces[i]) <= max
    BY PiecesOfAText
<1>2. CASE Len(pieces) <= 1
    <2>1. chunks = pieces
        BY <1>2, ChunkTextIs
    <2> HIDE DEF pieces, chunks, S
    <2>2. Len(pieces) \in Nat /\ 1..Len(pieces) - 1 = {} /\ \A i \in DOMAIN pieces : pieces[i] \in S
        BY <1>1, <1>2
    <2>3. \A i \in DOMAIN pieces : TextLen(pieces[i]) \in Nat
        BY <2>2, LengthIsANumber DEF S
    <2>4. \A i \in DOMAIN pieces : TextLen(pieces[i]) <= max + overlap + 1
        BY <1>1, <2>3
    <2>5. SizeBounded(pieces, max, overlap)
        BY <2>4 DEF SizeBounded
    <2>6. OverlapCarried(pieces, overlap)
        BY <2>2 DEF OverlapCarried
    <2>7. SizeBounded(chunks, max, overlap) /\ OverlapCarried(chunks, overlap)
        BY <2>1, <2>5, <2>6
    <2> QED
        BY <1>1, <2>7 DEF chunks
<1>3. CASE ~ Len(pieces) <= 1
    <2>1. pieces \in Chunks /\ Len(pieces) > 1
        <3> HIDE DEF pieces
        <3>1. Len(pieces) \in Nat
            BY <1>1
        <3>2. pieces # <<>> /\ Len(pieces) > 1
            BY <1>3, <3>1
        <3> QED
            BY <1>1, <3>2 DEF Chunks, S
    <2>2. Overlapped(chunks, max, overlap)
        BY <1>1, <2>1, SeveralOverlapped
    <2> HIDE DEF pieces, chunks, S
    <2>3. DOMAIN chunks = 1..Len(chunks)
        <3>1. chunks \in Seq(S)
            BY <2>2 DEF Overlapped, Chunks, S
        <3> QED
            BY <3>1
    <2>4. SizeBounded(chunks, max, overlap)
        BY <2>2, <2>3 DEF Overlapped, SizeBounded
    <2>5. OverlapCarried(chunks, overlap)
        BY <2>2 DEF Overlapped, Repeats, OverlapCarried
    <2> QED
        BY <1>1, <2>4, <2>5 DEF chunks
<1> QED
    BY <1>2, <1>3

(* A document of the cases is such a text. *)
LEMMA CasesAreWhole ==
    ASSUME NEW c \in TextCases
    PROVE  Whole(c.text) /\ ChunkMax \in Nat \ {0} /\ c.overlap \in Nat \ {0}
<1> DEFINE T == c.text
<1>1. /\ ChunkMax \in Nat \ {0} /\ c.overlap \in Nat \ {0}
      /\ T \in Seq({T[i] : i \in DOMAIN T})
      /\ \A i \in DOMAIN T : /\ T[i] = Part(i, 0, T[i].len, T[i].sep)
                             /\ T[i].len \in Nat \ {0}
                             /\ T[i].sep \in {Paragraph, Sentence, Line, Space}
    BY TextAssumption
<1> HIDE DEF T
<1>2. DOMAIN T = 1..Len(T) /\ Len(T) \in Nat
    BY <1>1
<1>3. ASSUME NEW i \in DOMAIN T
      PROVE  T[i] \in WordParts /\ T[i].word = i /\ T[i].from = 0
    <2> DEFINE l == T[i].len
               s == T[i].sep
    <2>1. T[i] = [word |-> i, from |-> 0, len |-> l, sep |-> s]
        BY <1>1 DEF Part
    <2>2. l \in Nat /\ s \in 0..3 /\ i \in Nat
        BY <1>1, <1>2 DEF Paragraph, Sentence, Line, Space
    <2> HIDE DEF l, s
    <2> QED
        BY <2>1, <2>2 DEF WordParts
<1>4. T \in Seq(WordParts)
    BY <1>1, <1>2, <1>3, IsASeq
<1>5. Whole(T)
    BY <1>1, <1>3, <1>4 DEF Whole
<1> QED
    BY <1>1, <1>5 DEF T

(* A document's chunks hold every word of it in order, none is longer than it may be, and
   each begins with the end of the one before, whatever its words and separators are
   (rag/chunking.py, chunk_text). *)
THEOREM CoversTheText == Spec => []ChunksCoverTheText
<1>1. Init => ChunksCoverTheText
    <2> SUFFICES ASSUME Init, case.kind = "text"
                 PROVE  LET chunks == ChunkText(case.of.text, ChunkMax, case.of.overlap) IN
                        /\ NothingLost(case.of.text, ChunkMax)
                        /\ SizeBounded(chunks, ChunkMax, case.of.overlap)
                        /\ OverlapCarried(chunks, case.of.overlap)
        BY DEF ChunksCoverTheText
    <2>1. case.of \in TextCases
        BY DEF Init, Cases
    <2>2. Whole(case.of.text) /\ ChunkMax \in Nat \ {0} /\ case.of.overlap \in Nat \ {0}
        BY <2>1, CasesAreWhole
    <2> QED
        BY <2>2, ChunksOfAText
<1>2. ChunksCoverTheText /\ [Next]_case => ChunksCoverTheText'
    BY DEF ChunksCoverTheText, Next
<1> QED
    BY <1>1, <1>2, PTL DEF Spec
==============================================================================
