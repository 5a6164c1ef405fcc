------------------------- MODULE CommandLine_proofs --------------------------
(***************************************************************************)
(* That CommandLine's readings of a line agree with their references, for  *)
(* lines over every set of letters.                                        *)
(***************************************************************************)
EXTENDS CommandLine, Induction_proofs

-----------------------------------------------------------------------------
(* Positions and pieces *)

\* The positions up to a bound, counted from the first.
LEMMA RankGrows ==
    ASSUME NEW N \in Nat, NEW F \in SUBSET (1 .. N)
    PROVE  /\ Rank(F, 0) = 0
           /\ \A n \in 0 .. N : Rank(F, n) \in Nat
           /\ \A n \in 0 .. (N - 1) :
                  Rank(F, n + 1) = Rank(F, n) + IF n + 1 \in F THEN 1 ELSE 0
           /\ Rank(F, N) = Cardinality(F)
<1> DEFINE UpTo(n) == {j \in F : j <= n}
<1>0. \A n : Rank(F, n) = Cardinality(UpTo(n))
    BY Zenon DEF Rank
<1>1. IsFiniteSet(F) /\ \A n \in 0 .. N : IsFiniteSet(UpTo(n))
    <2>1. IsFiniteSet(1 .. N)
        BY FS_Interval
    <2>2. \A n \in 0 .. N : UpTo(n) \in SUBSET (1 .. N)
        OBVIOUS
    <2> HIDE DEF UpTo
    <2> QED
        BY <2>1, <2>2, FS_Subset
<1>2. Rank(F, 0) = 0
    <2>1. \A j \in F : j \in Nat /\ ~(j <= 0)
        OBVIOUS
    <2>2. UpTo(0) = {}
        BY <2>1
    <2> QED
        BY <1>0, <2>2, FS_EmptySet, Zenon
<1>3. \A n \in 0 .. N : Rank(F, n) \in Nat
    <2> HIDE DEF UpTo
    <2> QED
        BY <1>0, <1>1, FS_CardinalityType
<1>4. ASSUME NEW n \in 0 .. (N - 1)
      PROVE  Rank(F, n + 1) = Rank(F, n) + IF n + 1 \in F THEN 1 ELSE 0
    <2>1. n \in 0 .. N /\ n + 1 \notin UpTo(n) /\ Rank(F, n) \in Nat
        BY <1>3
    <2>0. \A j \in F : j \in Nat /\ (j <= n + 1 <=> j <= n \/ j = n + 1)
        OBVIOUS
    <2>2. CASE n + 1 \in F
        <3>1. UpTo(n + 1) = UpTo(n) \cup {n + 1}
            BY <2>0, <2>2
        <3>2. Cardinality(UpTo(n + 1)) = Cardinality(UpTo(n)) + 1
            <4> HIDE DEF UpTo
            <4> QED
                BY <1>1, <2>1, <3>1, FS_AddElement
        <3> HIDE DEF UpTo
        <3> QED
            BY <1>0, <2>2, <3>2
    <2>3. CASE n + 1 \notin F
        <3>1. UpTo(n + 1) = UpTo(n)
            BY <2>0, <2>3
        <3> HIDE DEF UpTo
        <3>2. Rank(F, n + 1) = Rank(F, n)
            BY <1>0, <3>1, Zenon
        <3> QED
            BY <2>1, <2>3, <3>2
    <2> QED
        BY <2>2, <2>3
<1>5. Rank(F, N) = Cardinality(F)
    <2>0. \A j \in F : j <= N
        OBVIOUS
    <2>1. UpTo(N) = F
        BY <2>0
    <2> HIDE DEF UpTo
    <2> QED
        BY <1>0, <2>1, Zenon
<1> QED
    BY <1>2, <1>3, <1>4, <1>5

\* The next position counts if it is one of them.
LEMMA RankNext ==
    ASSUME NEW N \in Nat, NEW F \in SUBSET (1 .. N), NEW n \in 0 .. (N - 1)
    PROVE  /\ Rank(F, n) \in Nat
           /\ Rank(F, n + 1) = Rank(F, n) + IF n + 1 \in F THEN 1 ELSE 0
<1>1. n \in 0 .. N
    OBVIOUS
<1> QED
    BY <1>1, RankGrows

\* Later positions count no less.
LEMMA RankMonotone ==
    ASSUME NEW N \in Nat, NEW F \in SUBSET (1 .. N), NEW m \in 0 .. N, NEW n \in 0 .. N,
           m <= n
    PROVE  Rank(F, m) <= Rank(F, n)
<1> DEFINE Above == {k \in 0 .. N : k < m \/ Rank(F, m) <= Rank(F, k)}
<1>1. /\ \A k \in 0 .. N : Rank(F, k) \in Nat
      /\ \A k \in 0 .. (N - 1) : Rank(F, k + 1) = Rank(F, k) + IF k + 1 \in F THEN 1 ELSE 0
    BY RankGrows
<1>2. 0 \in Above
    BY <1>1
<1>3. ASSUME NEW k \in 0 .. (N - 1), k \in Above PROVE k + 1 \in Above
    <2>1. k \in 0 .. N /\ k + 1 \in 0 .. N
        OBVIOUS
    <2>2. Rank(F, k) \in Nat /\ Rank(F, k + 1) \in Nat /\ Rank(F, m) \in Nat
        BY <1>1, <2>1
    <2>3. Rank(F, k) <= Rank(F, k + 1)
        BY <1>1, <2>2
    <2>4. k + 1 < m \/ k + 1 = m \/ k >= m
        OBVIOUS
    <2> QED
        BY <1>3, <2>1, <2>2, <2>3, <2>4
<1>4. \A k \in 0 .. N : k \in Above
    <2> HIDE DEF Above
    <2> QED
        BY <1>2, <1>3, BoundedInduction
<1> QED
    BY <1>4

\* No positions, no characters.
LEMMA NothingListed ==
    ASSUME NEW text
    PROVE  Listed(text, {}) = <<>>
<1>1. Cardinality({}) = 0
    BY FS_EmptySet
<1> QED
    BY <1>1 DEF Listed

\* What is listed is a sequence, as long as there are positions.
LEMMA ListedType ==
    ASSUME NEW text, NEW N \in Nat, NEW P \in SUBSET (1 .. N)
    PROVE  /\ Cardinality(P) \in Nat
           /\ Listed(text, P) \in Seq({text[Nth(P, n)] : n \in 1 .. Cardinality(P)})
           /\ Len(Listed(text, P)) = Cardinality(P)
           /\ \A n \in 1 .. Cardinality(P) : Listed(text, P)[n] = text[Nth(P, n)]
<1>1. Cardinality(P) \in Nat
    <2>1. IsFiniteSet(1 .. N)
        BY FS_Interval
    <2>2. IsFiniteSet(P)
        BY <2>1, FS_Subset
    <2> QED
        BY <2>2, FS_CardinalityType
<1> QED
    BY <1>1 DEF Listed

\* A later position adds its character.
LEMMA ListedGrows ==
    ASSUME NEW text, NEW N \in Nat, NEW P \in SUBSET (1 .. N), NEW m \in 1 .. N,
           \A i \in P : i < m
    PROVE  Listed(text, P \cup {m}) = Append(Listed(text, P), text[m])
<1> DEFINE Q == P \cup {m}
           c == Cardinality(P)
           At(S, n) == {j \in S : Rank(S, j) = n}
<1>1. IsFiniteSet(P) /\ m \notin P /\ Q \in SUBSET (1 .. N)
    <2>1. IsFiniteSet(1 .. N)
        BY FS_Interval
    <2>2. IsFiniteSet(P)
        BY <2>1, FS_Subset
    <2> QED
        BY <2>2
<1>2. Cardinality(Q) = c + 1 /\ c \in Nat
    BY <1>1, FS_AddElement, FS_CardinalityType
<1>3. Rank(Q, m) = c + 1
    <2>0. \A j \in Q : j <= m
        OBVIOUS
    <2> HIDE DEF Q
    <2>1. {j \in Q : j <= m} = Q
        BY <2>0
    <2>2. Rank(Q, m) = Cardinality({j \in Q : j <= m})
        BY Zenon DEF Rank
    <2>3. Rank(Q, m) = Cardinality(Q)
        BY <2>1, <2>2, Zenon
    <2> QED
        BY <1>2, <2>3
<1>4. \A i \in P : Rank(Q, i) = Rank(P, i) /\ Rank(P, i) \in Nat /\ Rank(P, i) <= c
    <2> SUFFICES ASSUME NEW i \in P
                 PROVE Rank(Q, i) = Rank(P, i) /\ Rank(P, i) \in Nat /\ Rank(P, i) <= c
        OBVIOUS
    <2>1. {j \in Q : j <= i} = {j \in P : j <= i}
        OBVIOUS
    <2>2. i \in 0 .. N /\ N \in 0 .. N /\ i <= N
        OBVIOUS
    <2>3. Rank(P, i) \in Nat /\ Rank(P, N) = c
        BY <2>2, RankGrows
    <2>4. Rank(P, i) <= Rank(P, N)
        BY <2>2, RankMonotone
    <2>5. Rank(Q, i) = Rank(P, i)
        BY <2>1, Zenon DEF Rank
    <2> QED
        BY <2>3, <2>4, <2>5
<1>5. ASSUME NEW n \in 1 .. c PROVE Nth(Q, n) = Nth(P, n)
    <2>1. \A j \in Q : j \in P \/ j = m
        OBVIOUS
    <2>2. P \subseteq Q /\ ~(n = c + 1)
        BY <1>2
    <2> HIDE DEF Q
    <2>3. At(Q, n) = At(P, n)
        BY <1>3, <1>4, <2>1, <2>2
    <2> QED
        BY <2>3, Zenon DEF Nth
<1>6. Nth(Q, c + 1) = m
    <2>0. m \in Q /\ \A j \in Q : j \in P \/ j = m
        OBVIOUS
    <2> HIDE DEF Q
    <2>4. \A j \in Q : Rank(Q, j) = c + 1 <=> j = m
        BY <1>2, <1>3, <1>4, <2>0
    <2>1. At(Q, c + 1) = {m}
        BY <2>0, <2>4
    <2> HIDE DEF At, c
    <2>2. Nth(Q, c + 1) = CHOOSE i \in At(Q, c + 1) : TRUE
        BY Zenon DEF Nth, At
    <2> QED
        BY <2>1, <2>2
<1>7. /\ Listed(text, P) \in Seq({text[Nth(P, n)] : n \in 1 .. c})
      /\ Len(Listed(text, P)) = c
      /\ \A n \in 1 .. c : Listed(text, P)[n] = text[Nth(P, n)]
    BY ListedType
<1> HIDE DEF Q, c
<1>8. Listed(text, Q) = [n \in 1 .. (c + 1) |-> text[Nth(Q, n)]]
    BY <1>2 DEF Listed
<1>9. Append(Listed(text, P), text[m]) = [n \in 1 .. (c + 1) |->
          IF n <= c THEN Listed(text, P)[n] ELSE text[m]]
    BY <1>2, <1>7
<1>10. \A n \in 1 .. (c + 1) :
          text[Nth(Q, n)] = IF n <= c THEN Listed(text, P)[n] ELSE text[m]
    <2> SUFFICES ASSUME NEW n \in 1 .. (c + 1)
                 PROVE text[Nth(Q, n)] = IF n <= c THEN Listed(text, P)[n] ELSE text[m]
        OBVIOUS
    <2>1. (n \in 1 .. c /\ n <= c) \/ (n = c + 1 /\ ~(n <= c))
        BY <1>2
    <2> QED
        BY <2>1, <1>5, <1>6, <1>7
<1>11. Listed(text, Q) = Append(Listed(text, P), text[m])
    BY <1>8, <1>9, <1>10, Zenon
<1> QED
    BY <1>11 DEF Q


-----------------------------------------------------------------------------
(* Words *)

Words == Seq(Characters)

\* What extract_args has read: some words, the last of which may go on.
Splits == [args : Seq(Words) \ {<<>>}, quoted : BOOLEAN, gap : BOOLEAN]

\* A character is read, whatever was read before.
LEMMA SplitCharType ==
    ASSUME NEW split \in Splits, NEW char \in Characters
    PROVE  SplitChar(split, char) \in Splits
<1> DEFINE args == split.args
           last == Len(args)
<1>1. args \in Seq(Words) /\ args # <<>> /\ split.quoted \in BOOLEAN /\ split.gap \in BOOLEAN
    BY DEF Splits
<1>2. last \in 1 .. Len(args) /\ args[last] \in Words
    <2>1. last \in Nat /\ last # 0
        BY <1>1, EmptySeq
    <2> QED
        BY <1>1, <2>1
<1>3. SplitChar(split, char) = [split EXCEPT !.quoted = ~@, !.gap = FALSE] =>
          SplitChar(split, char) \in Splits
    BY <1>1 DEF Splits
<1>4. ToArgument(split, char) \in Splits
    <2>1. Append(args[last], char) \in Words
        BY <1>2 DEF Words
    <2>2. [args EXCEPT ![last] = Append(args[last], char)] \in Seq(Words) \ {<<>>}
        <3> DEFINE word == Append(args[last], char)
        <3> HIDE DEF word
        <3>1. [args EXCEPT ![last] = word] \in Seq(Words)
            BY <1>1, <1>2, <2>1 DEF word
        <3>2. Len([args EXCEPT ![last] = word]) = Len(args)
            BY <1>1, <1>2
        <3>3. [args EXCEPT ![last] = word] # <<>>
            BY <1>1, <1>2, <3>2, EmptySeq
        <3> QED
            BY <3>1, <3>3 DEF word
    <2> QED
        BY <2>2 DEF ToArgument, Splits
<1>5. NextArgument(split) \in Splits
    <2>1. Append(args, <<>>) \in Seq(Words) \ {<<>>}
        <3>1. <<>> \in Words
            BY DEF Words
        <3>2. Append(args, <<>>) \in Seq(Words) /\ Len(Append(args, <<>>)) # 0
            BY <1>1, <3>1
        <3> QED
            BY <3>2, EmptySeq
    <2> QED
        BY <2>1 DEF NextArgument, Splits
<1> QED
    BY <1>3, <1>4, <1>5 DEF SplitChar

\* A reading of a text from its first character to its last.
SplitsText(text, g) ==
    /\ g[0] = Split
    /\ \A n \in 1 .. Len(text) : g[n] = SplitChar(g[n - 1], text[n])
    /\ extract_args(text) = g[Len(text)].args

SplitStep == [split \in Splits |-> [char \in Characters |-> SplitChar(split, char)]]

\* Every text has one.
LEMMA TextIsSplit ==
    ASSUME NEW text \in Words
    PROVE  \E g \in [0 .. Len(text) -> Splits] : SplitsText(text, g)
<1> DEFINE N == Len(text)
           Iterates(f) ==
               f = [x \in SUBSET DOMAIN text |->
                       IF x = {} THEN Split ELSE SplitChar(f[x \ {Max(x)}], text[Max(x)])]
           iter == CHOOSE f : Iterates(f)
<1>1. extract_args(text) = iter[DOMAIN text].args
    BY DEF extract_args, FoldLeft, MapThenFoldSet
<1>2. DOMAIN text = 1 .. N /\ N \in Nat /\ text \in Seq(Characters)
    BY DEF Words
<1>3. SplitStep \in [Splits -> [Characters -> Splits]] /\ Split \in Splits
    <2>1. \A split \in Splits :
              [char \in Characters |-> SplitChar(split, char)] \in [Characters -> Splits]
        BY SplitCharType
    <2>2. Split \in Splits
        <3>1. <<<<>>>> \in Seq(Words) /\ <<<<>>>> # <<>>
            BY DEF Words
        <3> QED
            BY <3>1 DEF Split, Splits
    <2> QED
        BY <2>1, <2>2 DEF SplitStep
<1>4. FoldTo(Splits, SplitStep, Split, text, N)
    BY <1>2, <1>3, FoldExists
<1>5. PICK f \in [SUBSET (1 .. N) -> Splits] : FoldsSets(f, SplitStep, Split, text, N)
    BY <1>4 DEF FoldTo
<1>6. Iterates(f)
    <2>1. ASSUME NEW x \in SUBSET (1 .. N)
          PROVE  f[x] = IF x = {} THEN Split ELSE SplitChar(f[x \ {Max(x)}], text[Max(x)])
        <3>1. CASE x = {}
            BY <1>5, <3>1 DEF FoldsSets
        <3>2. CASE x # {}
            <4>1. Max(x) \in 1 .. N
                BY <1>2, <3>2, MaxIn
            <4>2. text[Max(x)] \in Characters /\ f[x \ {Max(x)}] \in Splits
                <5>1. x \ {Max(x)} \in SUBSET (1 .. N)
                    OBVIOUS
                <5> QED
                    BY <1>2, <4>1, <5>1
            <4>3. SplitStep[f[x \ {Max(x)}]][text[Max(x)]] =
                      SplitChar(f[x \ {Max(x)}], text[Max(x)])
                BY <4>2 DEF SplitStep
            <4> QED
                BY <1>5, <3>2, <4>3 DEF FoldsSets
        <3> QED
            BY <3>1, <3>2
    <2> HIDE DEF N
    <2>2. f = [x \in SUBSET (1 .. N) |-> f[x]]
        OBVIOUS
    <2> QED
        BY <1>2, <2>1, <2>2, Zenon
<1>7. Iterates(iter)
    <2> HIDE DEF Iterates
    <2> QED
        BY <1>6
<1>8. \A x \in SUBSET (1 .. N) :
          iter[x] = IF x = {} THEN Split ELSE SplitChar(iter[x \ {Max(x)}], text[Max(x)])
    <2> HIDE DEF iter
    <2> QED
        BY <1>2, <1>7
<1> DEFINE g == [n \in 0 .. N |-> iter[1 .. n]]
<1> HIDE DEF iter
<1>9. g[0] = Split
    <2>1. 1 .. 0 = {} /\ 0 \in 0 .. N
        OBVIOUS
    <2> QED
        BY <1>8, <2>1
<1>10. ASSUME NEW n \in 1 .. N PROVE g[n] = SplitChar(g[n - 1], text[n])
    <2>1. n \in 0 .. N /\ n - 1 \in 0 .. N
        BY <1>2
    <2>2. /\ 1 .. n \in SUBSET (1 .. N) /\ 1 .. n # {}
          /\ Max(1 .. n) = n
          /\ (1 .. n) \ {n} = 1 .. (n - 1)
        BY <1>2, LastPosition
    <2>3. iter[1 .. n] = SplitChar(iter[1 .. (n - 1)], text[n])
        BY <1>8, <2>2
    <2> QED
        BY <2>1, <2>3
<1>11. extract_args(text) = g[N].args
    BY <1>1, <1>2
<1>12. \A n \in 0 .. N : g[n] \in Splits
    <2> DEFINE Typed == {n \in 0 .. N : g[n] \in Splits}
    <2> HIDE DEF g
    <2>1. 0 \in Typed
        BY <1>3, <1>9
    <2>2. ASSUME NEW n \in 0 .. (N - 1), n \in Typed PROVE n + 1 \in Typed
        <3>1. n + 1 \in 1 .. N /\ n + 1 - 1 = n /\ text[n + 1] \in Characters
            BY <1>2
        <3>2. g[n + 1] = SplitChar(g[n], text[n + 1])
            BY <1>10, <3>1
        <3> QED
            BY <2>2, <3>1, <3>2, SplitCharType
    <2>3. \A n \in 0 .. N : n \in Typed
        <3> HIDE DEF Typed, N
        <3> QED
            BY <1>2, <2>1, <2>2, BoundedInduction
    <2> QED
        BY <2>3
<1>13. g \in [0 .. N -> Splits]
    BY <1>12
<1>14. SplitsText(text, g)
    <2> HIDE DEF g
    <2> QED
        BY <1>9, <1>10, <1>11 DEF SplitsText
<1> QED
    <2> HIDE DEF g
    <2> QED
        BY <1>13, <1>14


\* The positions that the references look at.
QuotesOf(text) == {i \in DOMAIN text : text[i] = Quote}
GapsOf(text) == {i \in DOMAIN text : text[i] = Space /\ Rank(QuotesOf(text), i) % 2 = 0}
OpenOf(text) == DOMAIN text \ GapsOf(text)
WordsBegin(text) == Firsts(OpenOf(text))

\* What the first n characters have of the k-th word.
WordSoFar(text, n, k) ==
    {i \in OpenOf(text) \ QuotesOf(text) : i <= n /\ Rank(WordsBegin(text), i) = k}

\* They are positions of the text.
LEMMA WordPositions ==
    ASSUME NEW text \in Words
    PROVE  /\ Len(text) \in Nat /\ DOMAIN text = 1 .. Len(text)
           /\ QuotesOf(text) \in SUBSET (1 .. Len(text))
           /\ OpenOf(text) \in SUBSET (1 .. Len(text))
           /\ WordsBegin(text) \in SUBSET (1 .. Len(text))
           /\ \A n, k : WordSoFar(text, n, k) \in SUBSET (1 .. Len(text))
<1>1. Len(text) \in Nat /\ DOMAIN text = 1 .. Len(text)
    BY DEF Words
<1>2. QuotesOf(text) \subseteq DOMAIN text /\ OpenOf(text) \subseteq DOMAIN text
    BY DEF QuotesOf, OpenOf
<1>3. WordsBegin(text) \subseteq OpenOf(text)
    BY DEF WordsBegin, Firsts
<1>4. \A n, k : WordSoFar(text, n, k) \subseteq OpenOf(text)
    BY DEF WordSoFar
<1> QED
    BY <1>1, <1>2, <1>3, <1>4

\* What the next character is to the words.
LEMMA NextPosition ==
    ASSUME NEW text \in Words, NEW n \in 0 .. (Len(text) - 1)
    PROVE  /\ n + 1 \in QuotesOf(text) <=> text[n + 1] = Quote
           /\ Rank(QuotesOf(text), n) \in Nat
           /\ n + 1 \in OpenOf(text) <=>
                  text[n + 1] # Space \/ Rank(QuotesOf(text), n) % 2 # 0
           /\ n + 1 \in WordsBegin(text) <=> n + 1 \in OpenOf(text) /\ n \notin OpenOf(text)
<1>1. /\ Len(text) \in Nat /\ DOMAIN text = 1 .. Len(text)
      /\ QuotesOf(text) \in SUBSET (1 .. Len(text))
    BY WordPositions
<1>2. n + 1 \in 1 .. Len(text) /\ n + 1 - 1 = n /\ n \in 0 .. Len(text)
    BY <1>1
<1>3. n + 1 \in QuotesOf(text) <=> text[n + 1] = Quote
    BY <1>1, <1>2 DEF QuotesOf
<1>4. /\ Rank(QuotesOf(text), n) \in Nat
      /\ Rank(QuotesOf(text), n + 1) =
             Rank(QuotesOf(text), n) + IF n + 1 \in QuotesOf(text) THEN 1 ELSE 0
    BY <1>1, RankNext
<1>5. n + 1 \in OpenOf(text) <=> ~(text[n + 1] = Space /\ Rank(QuotesOf(text), n + 1) % 2 = 0)
    BY <1>1, <1>2 DEF OpenOf, GapsOf
<1>6. text[n + 1] = Space => Rank(QuotesOf(text), n + 1) = Rank(QuotesOf(text), n)
    <2>1. Space # Quote
        BY DEF Space, Quote
    <2> QED
        BY <1>3, <1>4, <2>1
<1>7. n + 1 \in WordsBegin(text) <=> n + 1 \in OpenOf(text) /\ n \notin OpenOf(text)
    BY <1>2 DEF WordsBegin, Firsts
<1> QED
    BY <1>3, <1>4, <1>5, <1>6, <1>7

\* What it adds to a word.
LEMMA WordGrows ==
    ASSUME NEW text \in Words, NEW n \in 0 .. (Len(text) - 1), NEW k
    PROVE  /\ WordSoFar(text, n + 1, k) =
                  IF /\ n + 1 \in OpenOf(text) /\ n + 1 \notin QuotesOf(text)
                     /\ Rank(WordsBegin(text), n + 1) = k
                  THEN WordSoFar(text, n, k) \cup {n + 1}
                  ELSE WordSoFar(text, n, k)
           /\ Rank(WordsBegin(text), n) \in Nat
           /\ Rank(WordsBegin(text), n + 1) =
                  Rank(WordsBegin(text), n) + IF n + 1 \in WordsBegin(text) THEN 1 ELSE 0
           /\ \A i \in WordSoFar(text, n, k) : i < n + 1
<1>1. /\ Len(text) \in Nat /\ OpenOf(text) \in SUBSET (1 .. Len(text))
      /\ WordsBegin(text) \in SUBSET (1 .. Len(text))
    BY WordPositions
<1>2. \A i \in OpenOf(text) : i \in Nat /\ (i <= n + 1 <=> i <= n \/ i = n + 1)
    BY <1>1
<1>3. ~(n + 1 <= n)
    BY <1>1
<1>4. WordSoFar(text, n + 1, k) =
          IF /\ n + 1 \in OpenOf(text) /\ n + 1 \notin QuotesOf(text)
             /\ Rank(WordsBegin(text), n + 1) = k
          THEN WordSoFar(text, n, k) \cup {n + 1}
          ELSE WordSoFar(text, n, k)
    BY <1>2, <1>3 DEF WordSoFar
<1>5. n \in 0 .. Len(text)
    BY <1>1
<1>6. /\ Rank(WordsBegin(text), n) \in Nat
      /\ Rank(WordsBegin(text), n + 1) =
             Rank(WordsBegin(text), n) + IF n + 1 \in WordsBegin(text) THEN 1 ELSE 0
    BY <1>1, RankNext
<1>7. \A i \in WordSoFar(text, n, k) : i < n + 1
    BY <1>1, <1>2 DEF WordSoFar
<1> QED
    BY <1>4, <1>6, <1>7

\* What the first n characters have of a word that has not begun.
LEMMA WordNotBegun ==
    ASSUME NEW text \in Words, NEW n \in 0 .. Len(text), NEW k \in Nat,
           k > Rank(WordsBegin(text), n)
    PROVE  WordSoFar(text, n, k) = {}
<1>1. /\ Len(text) \in Nat /\ OpenOf(text) \in SUBSET (1 .. Len(text))
      /\ WordsBegin(text) \in SUBSET (1 .. Len(text))
    BY WordPositions
<1>2. ASSUME NEW i \in WordSoFar(text, n, k) PROVE FALSE
    <2>1. i \in 0 .. Len(text) /\ i <= n /\ Rank(WordsBegin(text), i) = k
        BY <1>1 DEF WordSoFar
    <2>2. Rank(WordsBegin(text), i) <= Rank(WordsBegin(text), n)
        BY <1>1, <2>1, RankMonotone
    <2>3. Rank(WordsBegin(text), n) \in Nat
        BY <1>1, RankGrows
    <2> QED
        BY <2>1, <2>2, <2>3
<1> QED
    BY <1>2

\* What has been read after n characters: the words so far, the last of which is
\* empty after a gap.
SplitIs(text, n, split) ==
    /\ split.quoted <=> Rank(QuotesOf(text), n) % 2 # 0
    /\ split.gap <=> n \notin OpenOf(text)
    /\ Len(split.args) =
           Rank(WordsBegin(text), n) + IF n \in OpenOf(text) THEN 0 ELSE 1
    /\ \A k \in 1 .. Len(split.args) :
           split.args[k] = Listed(text, WordSoFar(text, n, k))

LEMMA SplitGrows ==
    ASSUME NEW text \in Words, NEW n \in 0 .. (Len(text) - 1),
           NEW split \in Splits, SplitIs(text, n, split)
    PROVE  SplitIs(text, n + 1, SplitChar(split, text[n + 1]))
<1> DEFINE m == n + 1
           args == split.args
           count == Rank(WordsBegin(text), n)
           quotes == Rank(QuotesOf(text), n)
           new == SplitChar(split, text[m])
<1>1. /\ m \in QuotesOf(text) <=> text[m] = Quote
      /\ quotes \in Nat
      /\ m \in OpenOf(text) <=> text[m] # Space \/ quotes % 2 # 0
      /\ m \in WordsBegin(text) <=> m \in OpenOf(text) /\ n \notin OpenOf(text)
    BY NextPosition
<1>2. /\ count \in Nat
      /\ Rank(WordsBegin(text), m) = count + IF m \in WordsBegin(text) THEN 1 ELSE 0
    BY WordGrows
<1>3. Rank(QuotesOf(text), m) = quotes + IF m \in QuotesOf(text) THEN 1 ELSE 0
    BY WordPositions, RankNext
<1>4. m \in 1 .. Len(text) /\ n \in 0 .. Len(text)
    BY WordPositions
<1>5. /\ args \in Seq(Words) /\ split.quoted \in BOOLEAN /\ split.gap \in BOOLEAN
      /\ split = [args |-> args, quoted |-> split.quoted, gap |-> split.gap]
      /\ Len(args) \in Nat /\ Len(args) # 0
    BY EmptySeq DEF Splits
<1>6. \A k : WordSoFar(text, m, k) =
                 IF /\ m \in OpenOf(text) /\ m \notin QuotesOf(text)
                    /\ Rank(WordsBegin(text), m) = k
                 THEN WordSoFar(text, n, k) \cup {m}
                 ELSE WordSoFar(text, n, k)
    BY WordGrows
<1>7. Quote # Space
    BY DEF Quote, Space
<1>8. /\ split.quoted <=> quotes % 2 # 0
      /\ split.gap <=> n \notin OpenOf(text)
      /\ Len(args) = count + IF n \in OpenOf(text) THEN 0 ELSE 1
      /\ \A k \in 1 .. Len(args) : args[k] = Listed(text, WordSoFar(text, n, k))
    BY DEF SplitIs
<1> HIDE DEF m, args, count, quotes, new
<1>9. CASE text[m] = Quote
    <2>1. m \in QuotesOf(text) /\ m \in OpenOf(text)
        BY <1>1, <1>7, <1>9
    <2>2. /\ new.args = args /\ (new.quoted <=> ~split.quoted)
          /\ new.gap = FALSE
        <3>1. new = [split EXCEPT !.quoted = ~@, !.gap = FALSE]
            BY <1>9 DEF SplitChar, new
        <3> DEFINE negated == ~split.quoted
        <3>2. new = [split EXCEPT !.quoted = negated, !.gap = FALSE]
            BY <3>1, Zenon
        <3>3. negated <=> ~split.quoted
            OBVIOUS
        <3> HIDE DEF negated
        <3>4. new.args = args /\ new.quoted = negated /\ new.gap = FALSE
            BY <1>5, <3>2
        <3> QED
            BY <3>3, <3>4
    <2>3. Rank(QuotesOf(text), m) = quotes + 1
        BY <1>1, <1>3, <2>1
    <2>4. (quotes + 1) % 2 # 0 <=> quotes % 2 = 0
        BY <1>1
    <2>5. Rank(WordsBegin(text), m) = Len(args)
        BY <1>1, <1>2, <1>8, <2>1
    <2>6. \A k : WordSoFar(text, m, k) = WordSoFar(text, n, k)
        BY <1>6, <2>1
    <2>7. new.quoted <=> Rank(QuotesOf(text), m) % 2 # 0
        BY <1>8, <2>2, <2>3, <2>4
    <2>8. new.gap <=> m \notin OpenOf(text)
        BY <2>1, <2>2
    <2>9. Len(new.args) = Rank(WordsBegin(text), m) + IF m \in OpenOf(text) THEN 0 ELSE 1
        BY <1>5, <2>1, <2>2, <2>5
    <2>10. \A k \in 1 .. Len(new.args) : new.args[k] = Listed(text, WordSoFar(text, m, k))
        BY <1>8, <2>2, <2>6
    <2> QED
        BY <2>7, <2>8, <2>9, <2>10 DEF SplitIs, m, new
<1>10. CASE text[m] # Quote /\ InArgument(split, text[m])
    <2>1. m \notin QuotesOf(text) /\ m \in OpenOf(text)
        BY <1>1, <1>8, <1>10 DEF InArgument
    <2>2. new = ToArgument(split, text[m])
        BY <1>10 DEF SplitChar, new
    <2> DEFINE r == Len(args)
               word == Append(args[r], text[m])
    <2>3. /\ new.args = [args EXCEPT ![r] = word]
          /\ (new.quoted <=> split.quoted) /\ new.gap = FALSE
        BY <1>5, <2>2 DEF ToArgument, args
    <2>4. Rank(WordsBegin(text), m) = r
        BY <1>1, <1>2, <1>8, <2>1
    <2>5. word = Listed(text, WordSoFar(text, m, r))
        <3>1. WordSoFar(text, m, r) = WordSoFar(text, n, r) \cup {m}
            BY <1>6, <2>1, <2>4
        <3>2. /\ WordSoFar(text, n, r) \in SUBSET (1 .. Len(text)) /\ Len(text) \in Nat
              /\ \A i \in WordSoFar(text, n, r) : i < m
            BY WordPositions, WordGrows DEF m
        <3>3. Listed(text, WordSoFar(text, n, r) \cup {m}) =
                  Append(Listed(text, WordSoFar(text, n, r)), text[m])
            BY <1>4, <3>2, ListedGrows
        <3>4. args[r] = Listed(text, WordSoFar(text, n, r))
            BY <1>5, <1>8
        <3> QED
            BY <3>1, <3>3, <3>4
    <2>6. \A k : k # r => WordSoFar(text, m, k) = WordSoFar(text, n, k)
        BY <1>6, <2>4
    <2> HIDE DEF word
    <2>7. /\ Len(new.args) = r /\ new.args[r] = word
          /\ \A k \in 1 .. r : k # r => new.args[k] = args[k]
        BY <1>5, <2>3
    <2>8. Rank(QuotesOf(text), m) = quotes
        BY <1>1, <1>3, <2>1
    <2>9. new.quoted <=> Rank(QuotesOf(text), m) % 2 # 0
        BY <1>8, <2>3, <2>8
    <2>10. new.gap <=> m \notin OpenOf(text)
        BY <2>1, <2>3
    <2>11. Len(new.args) = Rank(WordsBegin(text), m) + IF m \in OpenOf(text) THEN 0 ELSE 1
        BY <1>5, <2>1, <2>4, <2>7
    <2>12. \A k \in 1 .. Len(new.args) : new.args[k] = Listed(text, WordSoFar(text, m, k))
        BY <1>8, <2>5, <2>6, <2>7
    <2> QED
        BY <2>9, <2>10, <2>11, <2>12 DEF SplitIs, m, new
<1>11. CASE text[m] # Quote /\ ~InArgument(split, text[m])
    <2>1. m \notin QuotesOf(text) /\ m \notin OpenOf(text)
        BY <1>1, <1>8, <1>11 DEF InArgument
    <2>2. new = NextArgument(split)
        BY <1>11 DEF SplitChar, new
    <2>3. (new.quoted <=> split.quoted) /\ new.gap = TRUE
        BY <1>5, <2>2 DEF NextArgument
    <2>4. Rank(WordsBegin(text), m) = count /\ Rank(QuotesOf(text), m) = quotes
        BY <1>1, <1>2, <1>3, <2>1
    <2>5. \A k : WordSoFar(text, m, k) = WordSoFar(text, n, k)
        BY <1>6, <2>1
    <2>6. CASE split.gap
        <3>1. new.args = args
            BY <2>2, <2>6 DEF NextArgument, args
        <3>2. Len(new.args) = count + 1
            BY <1>8, <2>6, <3>1
        <3>3. \A k \in 1 .. Len(new.args) : new.args[k] = Listed(text, WordSoFar(text, m, k))
            BY <1>8, <2>5, <3>1
        <3> QED
            BY <1>8, <2>1, <2>3, <2>4, <3>2, <3>3 DEF SplitIs, m, new
    <2>7. CASE ~split.gap
        <3>1. new.args = Append(args, <<>>)
            BY <1>5, <2>2, <2>7 DEF NextArgument, args
        <3>2. Len(args) = count
            BY <1>2, <1>8, <2>7
        <3>3. /\ Len(new.args) = count + 1 /\ new.args[count + 1] = <<>>
              /\ \A k \in 1 .. count : new.args[k] = args[k]
            <4>1. <<>> \in Words
                BY DEF Words
            <4> QED
                BY <1>5, <3>1, <3>2, <4>1
        <3>4. Listed(text, WordSoFar(text, n, count + 1)) = <<>>
            <4>1. count + 1 \in Nat /\ count + 1 > count
                BY <1>2
            <4>2. WordSoFar(text, n, count + 1) = {}
                BY <1>4, <4>1, WordNotBegun DEF count
            <4> QED
                BY <4>2, NothingListed
        <3>5. \A k \in 1 .. Len(new.args) : new.args[k] = Listed(text, WordSoFar(text, m, k))
            <4>1. \A k \in 1 .. (count + 1) : k \in 1 .. count \/ k = count + 1
                BY <1>2
            <4> QED
                BY <1>8, <2>5, <3>2, <3>3, <3>4, <4>1
        <3> QED
            BY <1>8, <2>1, <2>3, <2>4, <3>3, <3>5 DEF SplitIs, m, new
    <2> QED
        BY <2>6, <2>7
<1> QED
    BY <1>9, <1>10, <1>11


\* The words of a text, as Cut lists them.
LEMMA CutIs ==
    ASSUME NEW text \in Words
    PROVE  LET N == Len(text) count == Rank(WordsBegin(text), N)
           IN  /\ count \in Nat
               /\ Cut(text) = [k \in 1 .. count |-> Listed(text, WordSoFar(text, N, k))]
<1> DEFINE N == Len(text)
           count == Rank(WordsBegin(text), N)
           Of(k) == {i \in OpenOf(text) \cap (DOMAIN text \ QuotesOf(text)) :
                        Rank(WordsBegin(text), i) = k}
<1>1. /\ N \in Nat /\ DOMAIN text = 1 .. N
      /\ OpenOf(text) \in SUBSET (1 .. N)
      /\ WordsBegin(text) \in SUBSET (1 .. N)
    BY WordPositions
<1>2. count = Cardinality(WordsBegin(text)) /\ count \in Nat
    BY <1>1, RankGrows
<1>3. Cut(text) = [k \in 1 .. Cardinality(WordsBegin(text)) |-> Listed(text, Of(k))]
    BY Zenon DEF Cut, Pieces, QuotesOf, GapsOf, OpenOf, WordsBegin
<1>4. \A k : Of(k) = WordSoFar(text, N, k)
    <2>1. \A i \in OpenOf(text) : i <= N /\ i \in DOMAIN text
        BY <1>1
    <2> QED
        BY <2>1 DEF WordSoFar
<1> HIDE DEF Of, count
<1>5. Cut(text) = [k \in 1 .. count |-> Listed(text, WordSoFar(text, N, k))]
    BY <1>2, <1>3, <1>4, Zenon
<1> QED
    BY <1>2, <1>5 DEF count

\* The arguments of any text are its words.
LEMMA ArgumentsAreWords ==
    ASSUME NEW text \in Words, NEW k \in Nat \ {0}
    PROVE  /\ Argument(extract_args(text), k) = Argument(Cut(text), k)
           /\ Argument(Cut(text), k) \in Words
<1> DEFINE N == Len(text)
           count == Rank(WordsBegin(text), N)
           args == extract_args(text)
<1>1. PICK g \in [0 .. N -> Splits] : SplitsText(text, g)
    BY TextIsSplit
<1>2. N \in Nat /\ text \in Seq(Characters)
    BY DEF Words
<1> DEFINE Read == {n \in 0 .. N : SplitIs(text, n, g[n])}
<1>3. 0 \in Read
    <2>1. g[0] = Split /\ 0 \in 0 .. N
        BY <1>1, <1>2 DEF SplitsText
    <2>2. Rank(QuotesOf(text), 0) = 0 /\ Rank(WordsBegin(text), 0) = 0
        BY WordPositions, RankGrows
    <2>3. 0 \notin OpenOf(text)
        <3>1. OpenOf(text) \in SUBSET (1 .. N)
            BY WordPositions
        <3> QED
            BY <3>1
    <2>4. Len(<<<<>>>>) = 1 /\ <<<<>>>>[1] = <<>>
        OBVIOUS
    <2>5. Listed(text, WordSoFar(text, 0, 1)) = <<>>
        <3>1. 1 > Rank(WordsBegin(text), 0) /\ 0 \in 0 .. N /\ 1 \in Nat
            BY <1>2, <2>2
        <3>2. WordSoFar(text, 0, 1) = {}
            BY <3>1, WordNotBegun
        <3> QED
            BY <3>2, NothingListed
    <2>6. SplitIs(text, 0, Split)
        <3>1. \A j \in 1 .. Len(<<<<>>>>) : j = 1
            BY <2>4
        <3>2. \A j \in 1 .. Len(<<<<>>>>) : <<<<>>>>[j] = Listed(text, WordSoFar(text, 0, j))
            BY <2>4, <2>5, <3>1
        <3> QED
            BY <2>2, <2>3, <2>4, <3>2 DEF SplitIs, Split
    <2> QED
        BY <2>1, <2>6
<1>4. ASSUME NEW n \in 0 .. (N - 1), n \in Read PROVE n + 1 \in Read
    <2>1. n + 1 \in 1 .. N /\ n + 1 - 1 = n /\ n \in 0 .. N /\ n + 1 \in 0 .. N
        BY <1>2
    <2>2. g[n + 1] = SplitChar(g[n], text[n + 1])
        BY <1>1, <2>1 DEF SplitsText
    <2>3. g[n] \in Splits
        BY <2>1
    <2>4. SplitIs(text, n, g[n])
        BY <1>4
    <2>5. SplitIs(text, n + 1, SplitChar(g[n], text[n + 1]))
        BY <2>3, <2>4, SplitGrows
    <2> QED
        BY <2>1, <2>2, <2>5
<1>5. SplitIs(text, N, g[N])
    <2>1. N \in 0 .. N
        BY <1>2
    <2> HIDE DEF Read, N
    <2>2. \A n \in 0 .. N : n \in Read
        BY <1>2, <1>3, <1>4, BoundedInduction
    <2> QED
        BY <2>1, <2>2 DEF Read
<1>6. args = g[N].args /\ g[N] \in Splits
    BY <1>1, <1>2 DEF SplitsText
<1>7. args \in Seq(Words)
    BY <1>6 DEF Splits
<1>8. /\ count \in Nat
      /\ Cut(text) = [j \in 1 .. count |-> Listed(text, WordSoFar(text, N, j))]
    BY CutIs
<1>9. /\ Len(args) = count + IF N \in OpenOf(text) THEN 0 ELSE 1
      /\ \A j \in 1 .. Len(args) : args[j] = Listed(text, WordSoFar(text, N, j))
    BY <1>5, <1>6 DEF SplitIs
<1> DEFINE word == Listed(text, WordSoFar(text, N, k))
<1> HIDE DEF args, count, word
<1>10. Argument(args, k) \in Words
    <2>1. <<>> \in Words
        BY DEF Words
    <2> QED
        BY <1>7, <2>1 DEF Argument
<1>11. Len(Cut(text)) = count /\ (k \in 1 .. count => Cut(text)[k] = word)
    <2>1. \A s : s = [j \in 1 .. count |-> Listed(text, WordSoFar(text, N, j))] =>
                     /\ Len(s) = count
                     /\ k \in 1 .. count => s[k] = Listed(text, WordSoFar(text, N, k))
        BY <1>8
    <2> QED
        BY <1>8, <2>1 DEF word
<1>12. Argument(args, k) = Argument(Cut(text), k)
    <2>1. CASE k <= count
        <3>1. k \in 1 .. count /\ k \in 1 .. Len(args) /\ k <= Len(args)
            BY <1>8, <1>9, <2>1
        <3> QED
            BY <1>9, <1>11, <2>1, <3>1 DEF Argument, word
    <2>2. CASE k > count
        <3>1. Argument(Cut(text), k) = <<>>
            BY <1>8, <1>11, <2>2 DEF Argument
        <3>2. k <= Len(args) => args[k] = <<>>
            <4>1. N \in 0 .. N /\ k \in Nat
                BY <1>2
            <4>2. WordSoFar(text, N, k) = {}
                BY <2>2, <4>1, WordNotBegun DEF count
            <4>3. word = <<>>
                BY <4>2, NothingListed DEF word
            <4>4. k <= Len(args) => k \in 1 .. Len(args)
                BY <1>7
            <4> QED
                BY <1>9, <4>3, <4>4 DEF word
        <3> QED
            BY <3>1, <3>2 DEF Argument
    <2> QED
        BY <1>8, <2>1, <2>2
<1> QED
    BY <1>10, <1>12 DEF args


-----------------------------------------------------------------------------
(* Numbers *)

Digits == {"0", "1", "2", "3", "4", "5", "6", "7", "8", "9"}

LEMMA DigitsHaveValues ==
    DOMAIN DigitValue = Digits /\ \A char \in Digits : DigitValue[char] \in Nat
BY DEF DigitValue, Digits

\* What has been converted of a string: a number so far, unless it is none.
Results == [code : {0, 1}, num : Nat]

LEMMA AddDigitType ==
    ASSUME NEW result \in Results, NEW char
    PROVE  /\ AddDigit(result, char) \in Results
           /\ AddDigit(result, char) =
                  IF result.code # 0 THEN result
                  ELSE IF char \in Digits
                  THEN [code |-> 0, num |-> (result.num * 10 + DigitValue[char]) % UINT64]
                  ELSE [code |-> 1, num |-> result.num]
<1>1. result.code \in {0, 1} /\ result.num \in Nat
      /\ result = [code |-> result.code, num |-> result.num]
    BY DEF Results
<1>2. CASE result.code # 0
    BY <1>2 DEF AddDigit
<1>3. CASE result.code = 0 /\ char \notin Digits
    <2>1. AddDigit(result, char) = [result EXCEPT !.code = 1]
        BY <1>3, DigitsHaveValues DEF AddDigit
    <2> QED
        BY <1>1, <1>3, <2>1 DEF Results
<1>4. CASE result.code = 0 /\ char \in Digits
    <2>1. AddDigit(result, char) = [result EXCEPT !.num = (@ * 10 + DigitValue[char]) % UINT64]
        BY <1>4, DigitsHaveValues DEF AddDigit
    <2>2. (result.num * 10 + DigitValue[char]) % UINT64 \in Nat
        <3> DEFINE next == result.num * 10 + DigitValue[char]
        <3>1. next \in Nat
            BY <1>1, <1>4, DigitsHaveValues
        <3>2. UINT64 \in Nat /\ UINT64 > 0
            BY CommandLineAssumption DEF PIT_FREQUENCY
        <3> HIDE DEF next
        <3>3. next % UINT64 \in Nat
            BY ONLY <3>1, <3>2
        <3> QED
            BY <3>3 DEF next
    <2> DEFINE num == (result.num * 10 + DigitValue[char]) % UINT64
    <2> HIDE DEF num
    <2>3. AddDigit(result, char) = [code |-> 0, num |-> num] /\ num \in Nat
        BY <1>1, <1>4, <2>1, <2>2 DEF num
    <2>4. AddDigit(result, char) \in Results
        BY <2>3 DEF Results
    <2> QED
        BY <1>4, <2>3, <2>4 DEF num
<1> QED
    BY <1>2, <1>3, <1>4

NoDigit == [code |-> 0, num |-> 0]

\* A conversion from the first digit to the last.
Converts(str, g) ==
    /\ g[0] = NoDigit
    /\ \A n \in 1 .. Len(str) : g[n] = AddDigit(g[n - 1], str[n])
    /\ str # <<>> /\ Head(str) # Minus => str_to_positive_int(str) = g[Len(str)]

DigitStep == [result \in Results |-> [char \in Characters |-> AddDigit(result, char)]]

LEMMA NoDigitType == NoDigit \in Results
BY DEF NoDigit, Results

\* Every string has one.
LEMMA StringIsConverted ==
    ASSUME NEW str \in Words
    PROVE  \E g \in [0 .. Len(str) -> Results] : Converts(str, g)
<1> DEFINE N == Len(str)
           Iterates(f) ==
               f = [x \in SUBSET DOMAIN str |->
                       IF x = {} THEN NoDigit ELSE AddDigit(f[x \ {Max(x)}], str[Max(x)])]
           iter == CHOOSE f : Iterates(f)
<1>1. str # <<>> /\ Head(str) # Minus => str_to_positive_int(str) = iter[DOMAIN str]
    BY DEF str_to_positive_int, FoldLeft, MapThenFoldSet, NoDigit
<1>2. DOMAIN str = 1 .. N /\ N \in Nat /\ str \in Seq(Characters)
    BY DEF Words
<1>3. DigitStep \in [Results -> [Characters -> Results]] /\ NoDigit \in Results
    <2>1. \A v \in Results : [c \in Characters |-> AddDigit(v, c)] \in [Characters -> Results]
        BY AddDigitType
    <2> QED
        BY <2>1, NoDigitType DEF DigitStep
<1>4. FoldTo(Results, DigitStep, NoDigit, str, N)
    BY <1>2, <1>3, FoldExists
<1>5. PICK f \in [SUBSET (1 .. N) -> Results] : FoldsSets(f, DigitStep, NoDigit, str, N)
    BY <1>4 DEF FoldTo
<1>6. Iterates(f)
    <2>1. ASSUME NEW x \in SUBSET (1 .. N)
          PROVE  f[x] = IF x = {} THEN NoDigit ELSE AddDigit(f[x \ {Max(x)}], str[Max(x)])
        <3>1. CASE x = {}
            BY <1>5, <3>1 DEF FoldsSets
        <3>2. CASE x # {}
            <4>1. Max(x) \in 1 .. N
                BY <1>2, <3>2, MaxIn
            <4>2. str[Max(x)] \in Characters /\ f[x \ {Max(x)}] \in Results
                <5>1. x \ {Max(x)} \in SUBSET (1 .. N)
                    OBVIOUS
                <5> QED
                    BY <1>2, <4>1, <5>1
            <4>3. DigitStep[f[x \ {Max(x)}]][str[Max(x)]] = AddDigit(f[x \ {Max(x)}], str[Max(x)])
                BY <4>2 DEF DigitStep
            <4> QED
                BY <1>5, <3>2, <4>3 DEF FoldsSets
        <3> QED
            BY <3>1, <3>2
    <2> HIDE DEF N
    <2>2. f = [x \in SUBSET (1 .. N) |-> f[x]]
        OBVIOUS
    <2> QED
        BY <1>2, <2>1, <2>2, Zenon
<1>7. Iterates(iter)
    <2> HIDE DEF Iterates
    <2> QED
        BY <1>6
<1>8. \A x \in SUBSET (1 .. N) :
          iter[x] = IF x = {} THEN NoDigit ELSE AddDigit(iter[x \ {Max(x)}], str[Max(x)])
    <2> HIDE DEF iter
    <2> QED
        BY <1>2, <1>7
<1> DEFINE g == [n \in 0 .. N |-> iter[1 .. n]]
<1> HIDE DEF iter
<1>9. g[0] = NoDigit
    <2>1. 1 .. 0 = {} /\ 0 \in 0 .. N
        OBVIOUS
    <2> QED
        BY <1>8, <2>1
<1>10. ASSUME NEW n \in 1 .. N PROVE g[n] = AddDigit(g[n - 1], str[n])
    <2>1. n \in 0 .. N /\ n - 1 \in 0 .. N
        BY <1>2
    <2>2. /\ 1 .. n \in SUBSET (1 .. N) /\ 1 .. n # {}
          /\ Max(1 .. n) = n
          /\ (1 .. n) \ {n} = 1 .. (n - 1)
        BY <1>2, LastPosition
    <2>3. iter[1 .. n] = AddDigit(iter[1 .. (n - 1)], str[n])
        BY <1>8, <2>2
    <2> QED
        BY <2>1, <2>3
<1>11. \A n \in 0 .. N : g[n] \in Results
    <2> DEFINE Typed == {n \in 0 .. N : g[n] \in Results}
    <2> HIDE DEF g
    <2>1. 0 \in Typed
        BY <1>3, <1>9
    <2>2. ASSUME NEW n \in 0 .. (N - 1), n \in Typed PROVE n + 1 \in Typed
        <3>1. n + 1 \in 1 .. N /\ n + 1 - 1 = n /\ str[n + 1] \in Characters
            BY <1>2
        <3>2. g[n + 1] = AddDigit(g[n], str[n + 1])
            BY <1>10, <3>1
        <3> QED
            BY <2>2, <3>1, <3>2, AddDigitType
    <2>3. \A n \in 0 .. N : n \in Typed
        <3> HIDE DEF Typed, N
        <3> QED
            BY <1>2, <2>1, <2>2, BoundedInduction
    <2> QED
        BY <2>3
<1>12. g \in [0 .. N -> Results]
    BY <1>11
<1>13. str # <<>> /\ Head(str) # Minus => str_to_positive_int(str) = g[N]
    BY <1>1, <1>2
<1>14. Converts(str, g)
    <2> HIDE DEF g
    <2> QED
        BY <1>9, <1>10, <1>13 DEF Converts
<1> QED
    <2> HIDE DEF g
    <2> QED
        BY <1>12, <1>14

\* A sum of weighted digits, from the last digit to the first.
Sums == [value : Nat, weight : Nat \ {0}]

LEMMA AddWeightedType ==
    ASSUME NEW sum \in Sums, NEW char \in Digits
    PROVE  /\ AddWeighted(sum, char) \in Sums
           /\ AddWeighted(sum, char).value = sum.value + DigitValue[char] * sum.weight
           /\ AddWeighted(sum, char).weight = 10 * sum.weight
<1>1. /\ sum.value \in Nat /\ sum.weight \in Nat /\ sum.weight \in Nat \ {0}
      /\ DigitValue[char] \in Nat
    BY DigitsHaveValues DEF Sums
<1>2. /\ \A v, w, d \in Nat : v + d * w \in Nat
      /\ \A w \in Nat \ {0} : 10 * w \in Nat \ {0}
    OBVIOUS
<1>3. sum.value + DigitValue[char] * sum.weight \in Nat /\ 10 * sum.weight \in Nat \ {0}
    BY <1>1, <1>2, Zenon
<1> DEFINE value == sum.value + DigitValue[char] * sum.weight
           weight == 10 * sum.weight
<1>4. AddWeighted(sum, char) = [value |-> value, weight |-> weight]
    BY Zenon DEF AddWeighted
<1> HIDE DEF value, weight
<1>5. value \in Nat /\ weight \in Nat \ {0}
    BY <1>3, Zenon DEF value, weight
<1>6. /\ AddWeighted(sum, char) \in Sums
      /\ AddWeighted(sum, char).value = value /\ AddWeighted(sum, char).weight = weight
    BY <1>4, <1>5 DEF Sums
<1> QED
    BY <1>6, Zenon DEF value, weight

NoWeight == [value |-> 0, weight |-> 1]

LEMMA NoWeightType == NoWeight \in Sums
BY DEF NoWeight, Sums

Weighs(word, g) ==
    /\ g[0] = NoWeight
    /\ \A n \in 1 .. Len(word) : g[n] = AddWeighted(g[n - 1], word[n])
    /\ FoldLeft(AddWeighted, NoWeight, word) = g[Len(word)]

WeightStep == [sum \in Sums |-> [char \in Digits |-> AddWeighted(sum, char)]]

\* Digits have one.
LEMMA DigitsAreWeighed ==
    ASSUME NEW word \in Seq(Digits)
    PROVE  \E g \in [0 .. Len(word) -> Sums] : Weighs(word, g)
<1> DEFINE N == Len(word)
           Iterates(f) ==
               f = [x \in SUBSET DOMAIN word |->
                       IF x = {} THEN NoWeight ELSE AddWeighted(f[x \ {Max(x)}], word[Max(x)])]
           iter == CHOOSE f : Iterates(f)
<1>1. FoldLeft(AddWeighted, NoWeight, word) = iter[DOMAIN word]
    BY DEF FoldLeft, MapThenFoldSet
<1>2. DOMAIN word = 1 .. N /\ N \in Nat /\ word \in Seq(Digits)
    OBVIOUS
<1>3. WeightStep \in [Sums -> [Digits -> Sums]] /\ NoWeight \in Sums
    <2>1. \A v \in Sums : [c \in Digits |-> AddWeighted(v, c)] \in [Digits -> Sums]
        BY AddWeightedType
    <2> QED
        BY <2>1, NoWeightType DEF WeightStep
<1>4. FoldTo(Sums, WeightStep, NoWeight, word, N)
    BY <1>2, <1>3, FoldExists
<1>5. PICK f \in [SUBSET (1 .. N) -> Sums] : FoldsSets(f, WeightStep, NoWeight, word, N)
    BY <1>4 DEF FoldTo
<1>6. Iterates(f)
    <2>1. ASSUME NEW x \in SUBSET (1 .. N)
          PROVE  f[x] = IF x = {} THEN NoWeight ELSE AddWeighted(f[x \ {Max(x)}], word[Max(x)])
        <3>1. CASE x = {}
            BY <1>5, <3>1 DEF FoldsSets
        <3>2. CASE x # {}
            <4>1. Max(x) \in 1 .. N
                BY <1>2, <3>2, MaxIn
            <4>2. word[Max(x)] \in Digits /\ f[x \ {Max(x)}] \in Sums
                <5>1. x \ {Max(x)} \in SUBSET (1 .. N)
                    OBVIOUS
                <5> QED
                    BY <1>2, <4>1, <5>1
            <4>3. WeightStep[f[x \ {Max(x)}]][word[Max(x)]] = AddWeighted(f[x \ {Max(x)}], word[Max(x)])
                BY <4>2 DEF WeightStep
            <4> QED
                BY <1>5, <3>2, <4>3 DEF FoldsSets
        <3> QED
            BY <3>1, <3>2
    <2> HIDE DEF N
    <2>2. f = [x \in SUBSET (1 .. N) |-> f[x]]
        OBVIOUS
    <2> QED
        BY <1>2, <2>1, <2>2, Zenon
<1>7. Iterates(iter)
    <2> HIDE DEF Iterates
    <2> QED
        BY <1>6
<1>8. \A x \in SUBSET (1 .. N) :
          iter[x] = IF x = {} THEN NoWeight ELSE AddWeighted(iter[x \ {Max(x)}], word[Max(x)])
    <2> HIDE DEF iter
    <2> QED
        BY <1>2, <1>7
<1> DEFINE g == [n \in 0 .. N |-> iter[1 .. n]]
<1> HIDE DEF iter
<1>9. g[0] = NoWeight
    <2>1. 1 .. 0 = {} /\ 0 \in 0 .. N
        OBVIOUS
    <2> QED
        BY <1>8, <2>1
<1>10. ASSUME NEW n \in 1 .. N PROVE g[n] = AddWeighted(g[n - 1], word[n])
    <2>1. n \in 0 .. N /\ n - 1 \in 0 .. N
        BY <1>2
    <2>2. /\ 1 .. n \in SUBSET (1 .. N) /\ 1 .. n # {}
          /\ Max(1 .. n) = n
          /\ (1 .. n) \ {n} = 1 .. (n - 1)
        BY <1>2, LastPosition
    <2>3. iter[1 .. n] = AddWeighted(iter[1 .. (n - 1)], word[n])
        BY <1>8, <2>2
    <2> QED
        BY <2>1, <2>3
<1>11. \A n \in 0 .. N : g[n] \in Sums
    <2> DEFINE Typed == {n \in 0 .. N : g[n] \in Sums}
    <2> HIDE DEF g
    <2>1. 0 \in Typed
        BY <1>3, <1>9
    <2>2. ASSUME NEW n \in 0 .. (N - 1), n \in Typed PROVE n + 1 \in Typed
        <3>1. n + 1 \in 1 .. N /\ n + 1 - 1 = n /\ word[n + 1] \in Digits
            BY <1>2
        <3>2. g[n + 1] = AddWeighted(g[n], word[n + 1])
            BY <1>10, <3>1
        <3> QED
            BY <2>2, <3>1, <3>2, AddWeightedType
    <2>3. \A n \in 0 .. N : n \in Typed
        <3> HIDE DEF Typed, N
        <3> QED
            BY <1>2, <2>1, <2>2, BoundedInduction
    <2> QED
        BY <2>3
<1>12. g \in [0 .. N -> Sums]
    BY <1>11
<1>13. FoldLeft(AddWeighted, NoWeight, word) = g[N]
    BY <1>1, <1>2
<1>14. Weighs(word, g)
    <2> HIDE DEF g
    <2> QED
        BY <1>9, <1>10, <1>13 DEF Weighs
<1> QED
    <2> HIDE DEF g
    <2> QED
        BY <1>12, <1>14


\* Digits from the first convert to what they weigh from the last.
LEMMA NumberIsRead ==
    ASSUME NEW word \in Words, IsNumber(word)
    PROVE  /\ NumberOf(word) \in Nat
           /\ NumberOf(word) < UINT64 =>
                  str_to_positive_int(word) = [code |-> 0, num |-> NumberOf(word)]
<1> DEFINE L == Len(word)
           back == Reverse(word)
<1>1. /\ L \in Nat /\ L # 0 /\ word # <<>> /\ DOMAIN word = 1 .. L
      /\ \A i \in 1 .. L : word[i] \in Digits
      /\ word \in Seq(Digits)
    <2>1. word \in Seq(Characters) /\ word # <<>>
        BY DEF Words, IsNumber
    <2>2. L \in Nat /\ L # 0 /\ DOMAIN word = 1 .. L
        BY <2>1, EmptySeq
    <2>3. \A i \in 1 .. L : word[i] \in Digits
        BY <2>2, DigitsHaveValues DEF IsNumber, ToSet
    <2> QED
        BY <2>1, <2>2, <2>3
<1>2. /\ back \in Seq(Digits) /\ Len(back) = L
      /\ \A i \in 1 .. L : back[i] = word[L - i + 1]
    <2>1. back = [i \in 1 .. L |-> word[L - i + 1]]
        BY DEF Reverse
    <2>2. \A i \in 1 .. L : L - i + 1 \in 1 .. L
        BY <1>1
    <2> HIDE DEF back, L
    <2> QED
        BY <1>1, <2>1, <2>2
<1>3. PICK g \in [0 .. L -> Results] : Converts(word, g)
    BY StringIsConverted
<1>4. PICK w \in [0 .. L -> Sums] : Weighs(back, w)
    BY <1>2, DigitsAreWeighed
<1>5. Head(word) # Minus
    <2>1. Head(word) = word[1] /\ 1 \in 1 .. L
        BY <1>1
    <2>2. Minus \notin Digits
        BY DEF Minus, Digits
    <2> QED
        BY <1>1, <2>1, <2>2
<1>6. str_to_positive_int(word) = g[L]
    BY <1>1, <1>3, <1>5 DEF Converts
<1>7. NumberOf(word) = w[L].value
    BY <1>2, <1>4 DEF Weighs, NumberOf, NoWeight
<1> DEFINE Moved == {n \in 0 .. L :
               /\ g[n].code = 0
               /\ g[n].num * w[L - n].weight + w[L - n].value = w[L].value}
<1> HIDE DEF L, back
<1>8. /\ \A n \in 0 .. L : g[n].num \in Nat /\ g[n] \in Results
      /\ \A n \in 0 .. L : /\ w[n].value \in Nat /\ w[n].weight \in Nat /\ w[n] \in Sums
                           /\ w[n].weight >= 1
    BY DEF Results, Sums
<1>9. w[L].value \in Nat
    <2>1. L \in 0 .. L
        BY <1>1
    <2> QED
        BY <1>8, <2>1
<1> SUFFICES ASSUME w[L].value < UINT64
             PROVE  str_to_positive_int(word) = [code |-> 0, num |-> NumberOf(word)]
    BY <1>7, <1>9
<1>10. 0 \in Moved
    <2>1. g[0].code = 0 /\ g[0].num = 0
        BY <1>3 DEF Converts, NoDigit
    <2>2. L \in 0 .. L /\ L - 0 = L /\ 0 \in 0 .. L
        BY <1>1
    <2>3. \A weight, value \in Nat : 0 * weight + value = value
        OBVIOUS
    <2>4. g[0].num * w[L].weight + w[L].value = w[L].value
        BY <1>8, <2>1, <2>2, <2>3
    <2> QED
        BY <2>1, <2>2, <2>4
<1>11. ASSUME NEW n \in 0 .. (L - 1), n \in Moved PROVE n + 1 \in Moved
    <2> DEFINE m == L - (n + 1)
               digit == DigitValue[word[n + 1]]
    <2>1. /\ n \in 0 .. L /\ n + 1 \in 1 .. L /\ n + 1 - 1 = n /\ n + 1 \in 0 .. L
          /\ m \in 0 .. L /\ m + 1 \in 1 .. L /\ m + 1 - 1 = m /\ m + 1 = L - n
          /\ L - (m + 1) + 1 = n + 1
        BY <1>1
    <2>2. word[n + 1] \in Digits /\ back[m + 1] = word[n + 1] /\ digit \in Nat
        <3>1. back[m + 1] = word[L - (m + 1) + 1]
            BY <1>2, <2>1
        <3>2. word[n + 1] \in Digits
            BY <1>1, <2>1
        <3> QED
            BY <2>1, <3>1, <3>2, DigitsHaveValues
    <2>3. g[n].code = 0 /\ g[n].num * w[m + 1].weight + w[m + 1].value = w[L].value
        BY <1>11, <2>1
    <2>4. g[n + 1] = [code |-> 0, num |-> (g[n].num * 10 + digit) % UINT64]
        <3>1. g[n + 1] = AddDigit(g[n], word[n + 1])
            BY <1>3, <2>1 DEF Converts, L
        <3>2. g[n] \in Results /\ g[n].code = 0
            BY <1>8, <2>1, <2>3
        <3>3. AddDigit(g[n], word[n + 1]) =
                  [code |-> 0, num |-> (g[n].num * 10 + DigitValue[word[n + 1]]) % UINT64]
            BY <2>2, <3>2, AddDigitType
        <3> QED
            BY <3>1, <3>3, Zenon
    <2>5. /\ w[m + 1].value = w[m].value + digit * w[m].weight
          /\ w[m + 1].weight = 10 * w[m].weight
        <3>1. w[m + 1] = AddWeighted(w[m], back[m + 1])
            BY <1>2, <1>4, <2>1 DEF Weighs
        <3>2. AddWeighted(w[m], word[n + 1]).value = w[m].value + digit * w[m].weight
              /\ AddWeighted(w[m], word[n + 1]).weight = 10 * w[m].weight
            BY <1>8, <2>1, <2>2, AddWeightedType
        <3> QED
            BY <2>2, <3>1, <3>2
    <2> HIDE DEF m, digit
    <2>6. (g[n].num * 10 + digit) * w[m].weight + w[m].value =
              g[n].num * (10 * w[m].weight) + (w[m].value + digit * w[m].weight)
        <3>1. g[n].num \in Nat /\ w[m].value \in Nat /\ w[m].weight \in Nat
            BY <1>8, <2>1
        <3> DEFINE num == g[n].num
                   value == w[m].value
                   weight == w[m].weight
        <3> HIDE DEF num, value, weight
        <3>2. num \in Nat /\ value \in Nat /\ weight \in Nat
            BY <3>1 DEF num, value, weight
        <3>3. (num * 10 + digit) * weight + value =
                  num * (10 * weight) + (value + digit * weight)
            BY ONLY <2>2, <3>2
        <3> QED
            BY <3>3 DEF num, value, weight
    <2>7. (g[n].num * 10 + digit) % UINT64 = g[n].num * 10 + digit
        <3>1. /\ g[n].num \in Nat /\ w[m].value \in Nat /\ w[m].weight \in Nat
              /\ w[m].weight >= 1
            BY <1>8, <2>1
        <3> DEFINE num == g[n].num * 10 + digit
                   value == w[m].value
                   weight == w[m].weight
                   whole == w[L].value
        <3>2. /\ num \in Nat /\ value \in Nat /\ weight \in Nat /\ weight >= 1
              /\ whole \in Nat /\ whole < UINT64 /\ UINT64 \in Nat
            <4>1. UINT64 \in Nat
                BY CommandLineAssumption
            <4>2. g[n].num * 10 + digit \in Nat
                BY <2>2, <3>1
            <4> QED
                BY <1>9, <3>1, <4>1, <4>2
        <3>3. num * weight + value = whole
            BY <2>3, <2>5, <2>6, Zenon
        <3> HIDE DEF num, value, weight, whole
        <3>4. num * weight >= num
            BY ONLY <3>2
        <3>5. num * weight \in Nat
            BY ONLY <3>2
        <3>6. num < UINT64
            BY ONLY <3>2, <3>3, <3>4, <3>5
        <3>7. num % UINT64 = num
            BY ONLY <3>2, <3>6
        <3> QED
            BY <3>7 DEF num
    <2>8. g[n + 1].code = 0 /\ g[n + 1].num = g[n].num * 10 + digit
        BY <2>4, <2>7
    <2>9. g[n + 1].num * w[m].weight + w[m].value = w[L].value
        BY <2>3, <2>5, <2>6, <2>8, Zenon
    <2> QED
        BY <2>1, <2>8, <2>9 DEF m
<1>12. L \in Moved
    <2>1. L \in 0 .. L
        BY <1>1
    <2> HIDE DEF Moved
    <2>2. \A n \in 0 .. L : n \in Moved
        BY <1>1, <1>10, <1>11, BoundedInduction
    <2> QED
        BY <2>1, <2>2
<1>13. g[L].code = 0 /\ g[L].num = w[L].value
    <2>1. L - L = 0 /\ L \in 0 .. L /\ 0 \in 0 .. L
        BY <1>1
    <2>2. w[0].value = 0 /\ w[0].weight = 1
        BY <1>4 DEF Weighs, NoWeight
    <2>3. g[L].code = 0 /\ g[L].num * w[0].weight + w[0].value = w[L].value
        BY <1>12, <2>1
    <2>4. \A k \in Nat : k * 1 + 0 = k
        OBVIOUS
    <2> QED
        BY <1>8, <2>1, <2>2, <2>3, <2>4
<1>14. g[L] \in Results /\ w[L].value \in Nat
    BY <1>1, <1>8
<1>15. g[L] = [code |-> g[L].code, num |-> g[L].num]
    BY <1>14 DEF Results
<1> QED
    BY <1>6, <1>7, <1>13, <1>14, <1>15

\* What is no number is refused.
LEMMA NoNumberIsRead ==
    ASSUME NEW word \in Words, ~IsNumber(word)
    PROVE  str_to_positive_int(word).code # 0
<1> DEFINE L == Len(word)
<1>1. CASE word = <<>>
    BY <1>1 DEF str_to_positive_int
<1>2. CASE word # <<>> /\ Head(word) = Minus
    BY <1>2 DEF str_to_positive_int
<1>3. CASE word # <<>> /\ Head(word) # Minus
    <2>1. L \in Nat /\ DOMAIN word = 1 .. L
        BY DEF Words
    <2>2. PICK i \in 1 .. L : word[i] \notin Digits
        BY <1>3, <2>1, DigitsHaveValues DEF IsNumber, ToSet
    <2>3. PICK g \in [0 .. L -> Results] : Converts(word, g)
        BY StringIsConverted
    <2> DEFINE Refused == {n \in 0 .. L : n >= i => g[n].code # 0}
    <2>4. 0 \in Refused
        BY <2>1
    <2>5. ASSUME NEW n \in 0 .. (L - 1), n \in Refused PROVE n + 1 \in Refused
        <3>1. n + 1 \in 1 .. L /\ n + 1 - 1 = n /\ n + 1 \in 0 .. L /\ n \in 0 .. L
            BY <2>1
        <3>2. g[n + 1] = AddDigit(g[n], word[n + 1]) /\ g[n] \in Results
            BY <2>3, <3>1 DEF Converts
        <3>3. CASE n >= i
            <4>1. g[n].code # 0
                BY <2>5, <3>3
            <4>2. g[n + 1] = g[n]
                BY <3>2, <4>1, AddDigitType
            <4> QED
                BY <3>1, <4>1, <4>2
        <3>4. CASE n + 1 = i
            <4>1. word[n + 1] \notin Digits
                BY <2>2, <3>4
            <4>2. g[n + 1].code # 0
                BY <3>2, <4>1, AddDigitType
            <4> QED
                BY <3>1, <4>2
        <3>5. CASE ~(n + 1 >= i)
            BY <3>1, <3>5
        <3> QED
            BY <2>1, <3>3, <3>4, <3>5
    <2>6. g[L].code # 0
        <3>1. L \in 0 .. L /\ L >= i
            BY <2>1
        <3> HIDE DEF Refused, L
        <3>2. \A n \in 0 .. L : n \in Refused
            BY <2>1, <2>4, <2>5, BoundedInduction
        <3> QED
            BY <3>1, <3>2 DEF Refused
    <2> QED
        BY <1>3, <2>3, <2>6 DEF Converts
<1> QED
    BY <1>1, <1>2, <1>3


\* A counter of the timer fits in two bytes from 19 Hz upwards.
LEMMA TimerIsFast ==
    PIT_FREQUENCY \in Nat /\ PIT_FREQUENCY < 19 * 65536
BY SMT DEF PIT_FREQUENCY

\* The counter of a frequency is the first from that frequency upwards.
LEMMA CounterIsNearest ==
    ASSUME NEW f \in 19 .. PIT_FREQUENCY
    PROVE  /\ play_sound(f) \in Nat
           /\ play_sound(f) * f <= PIT_FREQUENCY
           /\ (play_sound(f) + 1) * f > PIT_FREQUENCY
<1> DEFINE Div == PIT_FREQUENCY \div f
           rest == PIT_FREQUENCY % f
<1>1. f \in Nat /\ f >= 19 /\ PIT_FREQUENCY \in Nat /\ PIT_FREQUENCY < 19 * 65536
    BY TimerIsFast
<1>2. Div \in Int /\ rest \in 0 .. (f - 1) /\ PIT_FREQUENCY = f * Div + rest
    BY <1>1
<1> HIDE DEF Div, rest
<1>3. Div >= 0
    <2> SUFFICES ASSUME Div < 0 PROVE FALSE
        BY <1>2
    <2>1. Div + 1 <= 0
        BY <1>2
    <2>2. f * (Div + 1) <= 0
        BY <1>1, <1>2, <2>1
    <2>3. f * (Div + 1) = f * Div + f
        BY <1>1, <1>2
    <2> QED
        BY <1>1, <1>2, <2>2, <2>3
<1>4. Div < 65536
    <2> SUFFICES ASSUME Div >= 65536 PROVE FALSE
        BY <1>2
    <2>1. f * Div >= 19 * 65536
        BY <1>1, <1>2
    <2> QED
        BY <1>1, <1>2, <2>1
<1>5. play_sound(f) = Div
    <2>1. play_sound(f) = (Div % 256) + 256 * ((Div \div 256) % 256)
        BY Zenon DEF play_sound, Div
    <2>2. (Div \div 256) % 256 = Div \div 256
        BY <1>2, <1>3, <1>4
    <2>3. (Div % 256) + 256 * (Div \div 256) = Div
        BY <1>2, <1>3
    <2> QED
        BY <2>1, <2>2, <2>3
<1>6. Div * f = f * Div /\ (Div + 1) * f = f * Div + f
    <2>1. f \in Int /\ Div \in Int
        BY <1>1, <1>2
    <2> QED
        BY ONLY <2>1
<1> DEFINE product == f * Div
<1>7. product \in Int /\ PIT_FREQUENCY = product + rest
    BY <1>1, <1>2
<1>8. Div * f = product /\ (Div + 1) * f = product + f
    BY <1>6
<1> HIDE DEF product
<1>9. product <= PIT_FREQUENCY /\ product + f > PIT_FREQUENCY
    BY <1>1, <1>2, <1>7
<1> QED
    BY <1>2, <1>3, <1>5, <1>8, <1>9

-----------------------------------------------------------------------------
(* Components of a path *)

\* A path as it is typed has no other dots in letters.
LEMMA LettersAreNoDots == DOT \notin Letters
BY CommandLineAssumption

\* A component without a dot.
LEMMA PlainComponent ==
    ASSUME NEW name \in Seq(Letters)
    PROVE  /\ Dots(name) = {} /\ NameOf(name) = name /\ ExtOf(name) = <<>>
           /\ name # DotDot.name /\ ToSet(name) \subseteq Letters \cup {DOT}
           /\ Cardinality(Dots(name)) <= 1
<1>1. \A i \in 1 .. Len(name) : name[i] \in Letters
    OBVIOUS
<1>2. Dots(name) = {}
    BY <1>1, LettersAreNoDots DEF Dots
<1>3. NameOf(name) = name /\ ExtOf(name) = <<>>
    BY <1>2 DEF NameOf, ExtOf
<1>4. name # DotDot.name
    <2> SUFFICES ASSUME name = <<DOT, DOT>> PROVE FALSE
        BY DEF DotDot
    <2>1. 1 \in 1 .. Len(name) /\ name[1] = DOT
        OBVIOUS
    <2> QED
        BY <1>1, <2>1, LettersAreNoDots
<1>5. ToSet(name) \subseteq Letters \cup {DOT}
    BY <1>1 DEF ToSet
<1>6. Cardinality({}) = 0
    BY FS_EmptySet
<1> QED
    BY <1>2, <1>3, <1>4, <1>5, <1>6

\* A component with a dot.
LEMMA DottedComponent ==
    ASSUME NEW name \in Seq(Letters), NEW ext \in Seq(Letters),
           NEW part, part = name \o <<DOT>> \o ext
    PROVE  /\ part \in Seq(Letters \cup {DOT})
           /\ Len(part) = Len(name) + 1 + Len(ext)
           /\ Dots(part) = {Len(name) + 1}
           /\ NameOf(part) = name /\ ExtOf(part) = ext
           /\ part # DotDot.name /\ ToSet(part) \subseteq Letters \cup {DOT}
           /\ Cardinality(Dots(part)) <= 1
<1> DEFINE n == Len(name)
           e == Len(ext)
<1>1. /\ n \in Nat /\ e \in Nat
      /\ part \in Seq(Letters \cup {DOT}) /\ Len(part) = n + 1 + e
      /\ \A i \in 1 .. n : part[i] = name[i] /\ name[i] \in Letters
      /\ part[n + 1] = DOT
      /\ \A i \in 1 .. e : part[n + 1 + i] = ext[i] /\ ext[i] \in Letters
    <2>1. /\ name \in Seq(Letters \cup {DOT}) /\ ext \in Seq(Letters \cup {DOT})
          /\ <<DOT>> \in Seq(Letters \cup {DOT}) /\ n \in Nat /\ e \in Nat
        OBVIOUS
    <2> DEFINE front == name \o <<DOT>>
    <2>2. /\ front \in Seq(Letters \cup {DOT}) /\ Len(front) = n + 1
          /\ \A i \in 1 .. n : front[i] = name[i] /\ name[i] \in Letters
          /\ front[n + 1] = DOT
        BY <2>1
    <2> HIDE DEF front
    <2>3. part = front \o ext
        BY DEF front
    <2>4. \A i \in 1 .. n : i \in 1 .. (n + 1)
        BY <2>1
    <2>5. n + 1 \in 1 .. (n + 1)
        BY <2>1
    <2>6. /\ part \in Seq(Letters \cup {DOT}) /\ Len(part) = n + 1 + e
          /\ \A i \in 1 .. (n + 1) : part[i] = front[i]
          /\ \A i \in 1 .. e : part[n + 1 + i] = ext[i] /\ ext[i] \in Letters
        BY <2>1, <2>2, <2>3
    <2> QED
        BY <2>1, <2>2, <2>4, <2>5, <2>6
<1> HIDE DEF n, e
<1>2. \A i \in 1 .. Len(part) : part[i] = DOT <=> i = n + 1
    <2>1. \A i \in 1 .. Len(part) :
              i \in 1 .. n \/ i = n + 1 \/ (i - (n + 1) \in 1 .. e /\ n + 1 + (i - (n + 1)) = i)
        BY <1>1
    <2>2. \A i \in 1 .. n : i # n + 1
        BY <1>1
    <2>3. \A i \in 1 .. Len(part) : i - (n + 1) \in 1 .. e => i # n + 1
        BY <1>1
    <2> QED
        BY <1>1, <2>1, <2>2, <2>3, LettersAreNoDots
<1>3. Dots(part) = {n + 1}
    <2>1. n + 1 \in 1 .. Len(part)
        BY <1>1
    <2> QED
        BY <1>2, <2>1 DEF Dots
<1> DEFINE dot == CHOOSE d \in Dots(part) : TRUE
<1>4. dot = n + 1 /\ Dots(part) # {}
    BY <1>3
<1>10. /\ NameOf(part) = IF Dots(part) = {} THEN part ELSE SubSeq(part, 1, dot - 1)
       /\ ExtOf(part) = IF Dots(part) = {} THEN <<>> ELSE SubSeq(part, dot + 1, Len(part))
    BY Zenon DEF NameOf, ExtOf
<1> HIDE DEF dot
<1>5. NameOf(part) = name
    <2>1. NameOf(part) = SubSeq(part, 1, dot - 1)
        BY <1>4, <1>10, Zenon
    <2>2. SubSeq(part, 1, n) = [i \in 1 .. n |-> part[i]]
        BY <1>1
    <2>3. name = [i \in 1 .. n |-> name[i]]
        BY DEF n
    <2>4. dot - 1 = n
        BY <1>1, <1>4
    <2> QED
        BY <1>1, <2>1, <2>2, <2>3, <2>4, Zenon
<1>6. ExtOf(part) = ext
    <2>1. ExtOf(part) = SubSeq(part, n + 1 + 1, Len(part))
        BY <1>4, <1>10, Zenon
    <2>2. SubSeq(part, n + 1 + 1, Len(part)) = [i \in 1 .. e |-> part[n + 1 + i]]
        <3>1. SubSeq(part, n + 1 + 1, Len(part)) =
                  [i \in 1 .. (Len(part) - (n + 1 + 1) + 1) |-> part[i + (n + 1 + 1) - 1]]
            BY <1>1
        <3>2. Len(part) - (n + 1 + 1) + 1 = e
            BY <1>1
        <3>3. \A i \in 1 .. e : i + (n + 1 + 1) - 1 = n + 1 + i
            BY <1>1
        <3> QED
            BY <3>1, <3>2, <3>3, Zenon
    <2>3. ext = [i \in 1 .. e |-> ext[i]]
        BY DEF e
    <2> QED
        BY <1>1, <2>1, <2>2, <2>3, Zenon
<1>7. part # DotDot.name
    <2> SUFFICES ASSUME part = <<DOT, DOT>> PROVE FALSE
        BY DEF DotDot
    <2>1. \A s : s = <<DOT, DOT>> =>
              1 \in 1 .. Len(s) /\ 2 \in 1 .. Len(s) /\ s[1] = DOT /\ s[2] = DOT
        OBVIOUS
    <2>2. 1 \in 1 .. Len(part) /\ 2 \in 1 .. Len(part) /\ part[1] = DOT /\ part[2] = DOT
        BY <2>1, Zenon
    <2>3. 1 = n + 1 /\ 2 = n + 1
        BY <1>2, <2>2, Zenon
    <2> QED
        BY <1>1, <2>3
<1>8. ToSet(part) \subseteq Letters \cup {DOT}
    BY <1>1 DEF ToSet
<1>9. Cardinality(Dots(part)) <= 1
    <2>1. Cardinality({n + 1}) = 1
        BY FS_Singleton
    <2>2. Cardinality(Dots(part)) = 1
        BY <1>3, <2>1, Zenon
    <2> QED
        BY <2>2
<1> QED
    BY <1>1, <1>3, <1>5, <1>6, <1>7, <1>8, <1>9 DEF n, e

\* What path_to_dir_stack is made for: parts with one dot at most, and "..".
Plain(part) == Cardinality(Dots(part)) <= 1 \/ part = DotDot.name

\* Other parts have their dots in one place.
LEMMA OneDot ==
    ASSUME NEW part \in Words, Plain(part), part # DotDot.name,
           NEW i \in Dots(part), NEW j \in Dots(part)
    PROVE  i = j
<1>1. IsFiniteSet(Dots(part))
    <2>1. Len(part) \in Nat
        BY DEF Words
    <2>2. Dots(part) \subseteq 1 .. Len(part)
        BY DEF Dots
    <2>3. IsFiniteSet(1 .. Len(part))
        BY <2>1, FS_Interval
    <2> QED
        BY <2>2, <2>3, FS_Subset
<1>2. Cardinality(Dots(part)) <= 1
    BY DEF Plain
<1> SUFFICES ASSUME i # j PROVE FALSE
    OBVIOUS
<1>3. {i, j} \subseteq Dots(part)
    OBVIOUS
<1>4. Cardinality({i, j}) = 2
    <2>1. IsFiniteSet({i}) /\ Cardinality({i}) = 1
        BY FS_Singleton
    <2>2. Cardinality({i} \cup {j}) = 2
        BY <2>1, FS_AddElement
    <2>3. {i} \cup {j} = {i, j}
        OBVIOUS
    <2> QED
        BY <2>2, <2>3
<1>5. Cardinality({i, j}) <= Cardinality(Dots(part))
    BY <1>1, <1>3, FS_Subset
<1>6. Cardinality(Dots(part)) \in Nat
    BY <1>1, FS_CardinalityType
<1> QED
    BY <1>2, <1>4, <1>5, <1>6

\* A part that begins with what was read of it.
Begins(part, read) ==
    Len(read) <= Len(part) /\ \A i \in 1 .. Len(read) : part[i] = read[i]

\* Appending to a sequence, element by element.
LEMMA AppendIs ==
    ASSUME NEW S, NEW s \in Seq(S), NEW e \in S
    PROVE  /\ Append(s, e) \in Seq(S) /\ Len(s) \in Nat
           /\ Len(Append(s, e)) = Len(s) + 1
           /\ Append(s, e)[Len(s) + 1] = e
           /\ \A i \in 1 .. Len(s) : Append(s, e)[i] = s[i] /\ s[i] \in S
OBVIOUS

\* A character of another kind spoils a part.
LEMMA NotOfLetters ==
    ASSUME NEW part \in Words, NEW i \in 1 .. Len(part), part[i] \notin Letters \cup {DOT}
    PROVE  ~IsComponent(part)
<1>1. part # DotDot.name
    <2> SUFFICES ASSUME part = <<DOT, DOT>> PROVE FALSE
        BY DEF DotDot
    <2>1. \A s : s = <<DOT, DOT>> => \A k \in 1 .. Len(s) : s[k] = DOT
        OBVIOUS
    <2>2. part[i] = DOT
        BY <2>1
    <2> QED
        BY <2>2
<1>2. part[i] \in ToSet(part)
    <2>1. i \in DOMAIN part
        BY DEF Words
    <2> QED
        BY <2>1 DEF ToSet
<1> QED
    BY <1>1, <1>2 DEF IsComponent

\* A part that has a letter is not "..".
LEMMA LetterIsNotUp ==
    ASSUME NEW part, NEW i \in 1 .. Len(part), part[i] \in Letters
    PROVE  part # DotDot.name
<1> SUFFICES ASSUME part = <<DOT, DOT>> PROVE FALSE
    BY DEF DotDot
<1>1. \A s : s = <<DOT, DOT>> => \A k \in 1 .. Len(s) : s[k] = DOT
    OBVIOUS
<1>2. part[i] = DOT
    BY <1>1
<1> QED
    BY <1>2, LettersAreNoDots

\* One letter more than a name has spoils a part, whether an extension follows or not.
LEMMA NameTooLong ==
    ASSUME NEW part \in Words, NEW name \in Seq(Letters), NEW char \in Letters,
           Len(name) = DIR_NAME_LENGTH, Begins(part, Append(name, char))
    PROVE  ~IsComponent(part)
<1> DEFINE n == Len(name)
           read == Append(name, char)
           dot == CHOOSE d \in Dots(part) : TRUE
<1>1. /\ n \in Nat /\ Len(read) = n + 1 /\ \A i \in 1 .. (n + 1) : read[i] \in Letters
    <2>1. \A i \in 1 .. (Len(name) + 1) : i \in 1 .. Len(name) \/ i = Len(name) + 1
        OBVIOUS
    <2> QED
        BY <2>1, AppendIs
<1> HIDE DEF read
<1>2. /\ n + 1 <= Len(part) /\ \A i \in 1 .. (n + 1) : part[i] \in Letters
      /\ Len(part) \in Nat
    BY <1>1 DEF Begins, read, Words
<1>3. part # DotDot.name
    <2>1. 1 \in 1 .. Len(part) /\ part[1] \in Letters
        BY <1>1, <1>2
    <2> QED
        BY <2>1, LetterIsNotUp
<1>4. Len(NameOf(part)) > n
    <2>1. CASE Dots(part) = {}
        BY <1>1, <1>2, <2>1 DEF NameOf
    <2>2. CASE Dots(part) # {}
        <3>1. dot \in Dots(part)
            BY <2>2
        <3>2. NameOf(part) = SubSeq(part, 1, dot - 1)
            BY <2>2, Zenon DEF NameOf
        <3> HIDE DEF dot
        <3>3. dot \in 1 .. Len(part) /\ part[dot] = DOT
            BY <3>1 DEF Dots
        <3>4. dot \notin 1 .. (n + 1)
            BY <1>2, <3>3, LettersAreNoDots
        <3>5. dot - 1 > n /\ dot - 1 \in 0 .. Len(part)
            BY <1>1, <3>3, <3>4
        <3>6. part \in Seq(Characters)
            BY DEF Words
        <3>7. Len(SubSeq(part, 1, dot - 1)) = dot - 1
            BY <3>5, <3>6
        <3> QED
            BY <3>2, <3>5, <3>7
    <2> QED
        BY <2>1, <2>2
<1>5. Len(NameOf(part)) \notin 1 .. DIR_NAME_LENGTH
    BY <1>1, <1>4
<1> QED
    BY <1>3, <1>5 DEF IsComponent

\* One letter more than an extension has spoils a part.
LEMMA ExtTooLong ==
    ASSUME NEW part \in Words, Plain(part), NEW name \in Seq(Letters), NEW ext \in Seq(Letters),
           NEW char \in Letters, Len(ext) = DIR_EXT_LENGTH,
           Begins(part, name \o <<DOT>> \o Append(ext, char))
    PROVE  ~IsComponent(part)
<1> DEFINE n == Len(name)
           e == Len(ext)
           more == Append(ext, char)
           read == name \o <<DOT>> \o more
           dot == CHOOSE d \in Dots(part) : TRUE
<1>1. more \in Seq(Letters) /\ Len(more) = e + 1 /\ e \in Nat /\ n \in Nat
    BY AppendIs
<1> HIDE DEF more, read
<1>2. /\ Len(read) = n + 1 + (e + 1) /\ Dots(read) = {n + 1}
      /\ read \in Seq(Letters \cup {DOT})
    <2>1. read = name \o <<DOT>> \o more
        BY DEF read
    <2>2. /\ Len(read) = Len(name) + 1 + Len(more) /\ Dots(read) = {Len(name) + 1}
          /\ read \in Seq(Letters \cup {DOT})
        BY <1>1, <2>1, DottedComponent
    <2> QED
        BY <1>1, <2>2
<1>3. n + 1 + (e + 1) <= Len(part) /\ \A i \in 1 .. (n + 1 + (e + 1)) : part[i] = read[i]
    BY <1>2 DEF Begins, read, more
<1>4. Len(part) \in Nat /\ part \in Seq(Characters)
    BY DEF Words
<1>5. n + 1 \in Dots(part)
    <2>1. n + 1 \in Dots(read)
        BY <1>2
    <2>2. read[n + 1] = DOT /\ n + 1 \in 1 .. (n + 1 + (e + 1)) /\ n + 1 \in 1 .. Len(part)
        BY <1>1, <1>3, <1>4, <2>1 DEF Dots
    <2> QED
        BY <1>3, <2>2 DEF Dots
<1>6. part # DotDot.name
    <2> DEFINE last == n + 1 + (e + 1)
    <2>1. last \in 1 .. Len(part) /\ last \in 1 .. Len(read) /\ last # n + 1
        BY <1>1, <1>2, <1>3, <1>4
    <2>2. last \notin Dots(read)
        BY <1>2, <2>1
    <2>3. read[last] # DOT
        BY <2>1, <2>2 DEF Dots
    <2>4. read[last] \in Letters
        <3>1. read[last] \in Letters \cup {DOT}
            BY <1>2, <2>1
        <3> QED
            BY <2>3, <3>1
    <2>5. part[last] \in Letters
        BY <1>2, <1>3, <2>1, <2>4
    <2> HIDE DEF last
    <2> QED
        BY <2>1, <2>5, LetterIsNotUp
<1>7. \A d \in Dots(part) : d = n + 1
    BY <1>5, <1>6, OneDot
<1>8. dot = n + 1 /\ Dots(part) # {}
    BY <1>5, <1>7
<1>9. ExtOf(part) = SubSeq(part, dot + 1, Len(part))
    <2>1. Dots(part) # {}
        BY <1>8
    <2> QED
        BY <2>1, Zenon DEF ExtOf
<1> HIDE DEF dot
<1>10. Len(ExtOf(part)) = Len(part) - (n + 1)
    BY <1>1, <1>3, <1>4, <1>8, <1>9
<1>11. Len(ExtOf(part)) > DIR_EXT_LENGTH
    BY <1>1, <1>3, <1>4, <1>10
<1>12. Len(ExtOf(part)) \notin 1 .. DIR_EXT_LENGTH
    BY <1>11, <1>1
<1> QED
    BY <1>6, <1>8, <1>12 DEF IsComponent

\* Two dots make a part "..", of which nothing else was read.
LEMMA TwoDots ==
    ASSUME NEW part \in Words, Plain(part), NEW name \in Seq(Letters), NEW ext \in Seq(Letters),
           Begins(part, Append(name \o <<DOT>> \o ext, DOT))
    PROVE  /\ part = <<DOT, DOT>> /\ name = <<>>
           /\ part = Append(name \o <<DOT>> \o ext, DOT)
<1> DEFINE n == Len(name)
           e == Len(ext)
           read == name \o <<DOT>> \o ext
           more == Append(read, DOT)
<1>1. e \in Nat /\ n \in Nat /\ Len(part) \in Nat
    BY DEF Words
<1> HIDE DEF read
<1>2. /\ Len(read) = n + 1 + e /\ Dots(read) = {n + 1} /\ read \in Seq(Letters \cup {DOT})
    BY DottedComponent DEF read
<1>3. /\ Len(more) = n + 1 + e + 1 /\ more[n + 1 + e + 1] = DOT
      /\ \A i \in 1 .. (n + 1 + e) : more[i] = read[i]
      /\ more \in Seq(Letters \cup {DOT})
    BY <1>2, AppendIs
<1> HIDE DEF more
<1>4. n + 1 + e + 1 <= Len(part) /\ \A i \in 1 .. (n + 1 + e + 1) : part[i] = more[i]
    BY <1>3 DEF Begins, more, read
<1>5. n + 1 \in Dots(part) /\ n + 1 + e + 1 \in Dots(part)
    <2>1. n + 1 \in Dots(read)
        BY <1>2
    <2>2. read[n + 1] = DOT /\ n + 1 \in 1 .. (n + 1 + e) /\ n + 1 \in 1 .. (n + 1 + e + 1)
        BY <1>1, <2>1 DEF Dots
    <2>3. /\ n + 1 \in 1 .. Len(part) /\ n + 1 + e + 1 \in 1 .. Len(part)
          /\ n + 1 + e + 1 \in 1 .. (n + 1 + e + 1)
        BY <1>1, <1>4
    <2>4. part[n + 1] = DOT /\ part[n + 1 + e + 1] = DOT
        BY <1>3, <1>4, <2>2, <2>3
    <2> QED
        BY <2>3, <2>4 DEF Dots
<1>6. part = DotDot.name
    <2> SUFFICES ASSUME part # DotDot.name PROVE FALSE
        OBVIOUS
    <2>1. n + 1 = n + 1 + e + 1
        BY <1>5, OneDot
    <2> QED
        BY <1>1, <2>1
<1>7. part = <<DOT, DOT>>
    BY <1>6 DEF DotDot
<1>8. Len(part) = 2
    BY <1>7
<1>9. n = 0 /\ e = 0 /\ Len(more) = 2
    BY <1>1, <1>3, <1>4, <1>8
<1>10. more = <<DOT, DOT>>
    <2>1. more[1] = part[1] /\ more[2] = part[2] /\ part[1] = DOT /\ part[2] = DOT
        <3>1. 1 \in 1 .. (n + 1 + e + 1) /\ 2 \in 1 .. (n + 1 + e + 1)
            BY <1>9
        <3> QED
            BY <1>4, <1>7, <3>1
    <2> QED
        BY <1>3, <1>9, <2>1
<1>11. name = <<>>
    BY <1>9, EmptySeq
<1> QED
    BY <1>7, <1>10, <1>11 DEF more, read

-----------------------------------------------------------------------------
(* The scan of a component *)

Names == {s \in Seq(Letters) : Len(s) <= DIR_NAME_LENGTH}
Exts == {s \in Seq(Letters) : Len(s) <= DIR_EXT_LENGTH}
Components == [name : Seq(Letters \cup {DOT}), ext : Seq(Letters)]

Scans == [stack : Seq(Components), name : Names, ext : Exts, inExt : BOOLEAN,
          skip : Nat, end : BOOLEAN, code : 0 .. 6]

\* What was read of a component is what the scan has of it.
Reading(read, scan) ==
    IF scan.inExt THEN read = scan.name \o <<DOT>> \o scan.ext
    ELSE read = scan.name /\ scan.ext = <<>>

\* The scan is between components.
Between(scan) == scan.name = <<>> /\ scan.ext = <<>> /\ scan.inExt = FALSE

\* A scan and what it is made of.
LEMMA ScanIs ==
    ASSUME NEW scan \in Scans
    PROVE  /\ scan.stack \in Seq(Components) /\ scan.name \in Names /\ scan.ext \in Exts
           /\ scan.inExt \in BOOLEAN /\ scan.skip \in Nat /\ scan.end \in BOOLEAN
           /\ scan.code \in 0 .. 6
           /\ scan.name \in Seq(Letters) /\ scan.ext \in Seq(Letters)
           /\ Len(scan.name) \in Nat /\ Len(scan.name) <= DIR_NAME_LENGTH
           /\ Len(scan.ext) \in Nat /\ Len(scan.ext) <= DIR_EXT_LENGTH
<1>1. /\ scan.stack \in Seq(Components) /\ scan.name \in Names /\ scan.ext \in Exts
      /\ scan.inExt \in BOOLEAN /\ scan.skip \in Nat /\ scan.end \in BOOLEAN
      /\ scan.code \in 0 .. 6
    BY DEF Scans
<1> QED
    BY <1>1 DEF Names, Exts

LEMMA EmptyIsNameAndExt == <<>> \in Names /\ <<>> \in Exts
<1>1. <<>> \in Seq(Letters) /\ Len(<<>>) = 0
    OBVIOUS
<1> QED
    BY <1>1, CommandLineAssumption DEF Names, Exts

\* What differs in a scan that has an error.
LEMMA ErrorIsScan ==
    ASSUME NEW scan \in Scans, NEW code \in 1 .. 6, NEW new, new = [scan EXCEPT !.code = code]
    PROVE  /\ new \in Scans /\ new.code = code /\ new.skip = scan.skip
           /\ new.end = scan.end
<1>1. code \in 0 .. 6
    OBVIOUS
<1> QED
    BY <1>1 DEF Scans

\* A scan that goes on to the next component.
LEMMA NextIsScan ==
    ASSUME NEW scan \in Scans
    PROVE  /\ NextComponent(scan) \in Scans /\ Between(NextComponent(scan))
           /\ NextComponent(scan).stack = scan.stack /\ NextComponent(scan).skip = scan.skip
           /\ NextComponent(scan).end = scan.end /\ NextComponent(scan).code = scan.code
<1>1. NextComponent(scan) = [scan EXCEPT !.name = <<>>, !.ext = <<>>, !.inExt = FALSE]
    BY DEF NextComponent
<1> QED
    BY <1>1, EmptyIsNameAndExt DEF Scans, Between

\* A letter is added, or spoils the part.
LEMMA LetterIsRead ==
    ASSUME NEW scan \in Scans, scan.code = 0, NEW read, Reading(read, scan),
           NEW char \in Characters, char # DOT, NEW part \in Words, Plain(part),
           Begins(part, Append(read, char)), NEW new, new = AddLetter(scan, char)
    PROVE  /\ new \in Scans /\ new.skip = scan.skip /\ new.end = scan.end
           /\ \/ /\ new.code = 0 /\ Reading(Append(read, char), new)
                 /\ new.stack = scan.stack
              \/ new.code # 0 /\ ~IsComponent(part)
<1> DEFINE name == scan.name
           ext == scan.ext
<1>1. /\ name \in Seq(Letters) /\ ext \in Seq(Letters)
      /\ Len(name) \in Nat /\ Len(name) <= DIR_NAME_LENGTH
      /\ Len(ext) \in Nat /\ Len(ext) <= DIR_EXT_LENGTH
      /\ scan.inExt \in BOOLEAN
    BY ScanIs
<1>2. read \in Seq(Letters \cup {DOT})
    <2>1. scan.inExt => read = name \o <<DOT>> \o ext
        BY DEF Reading
    <2>2. ~scan.inExt => read = name
        BY DEF Reading
    <2>3. name \in Seq(Letters \cup {DOT})
        BY <1>1
    <2> QED
        BY <1>1, <2>1, <2>2, <2>3, DottedComponent
<1> HIDE DEF name, ext
<1>3. CASE char \notin Letters
    <2> DEFINE code == IF scan.inExt THEN INVALID_EXTENSION ELSE INVALID_NAME
    <2>1. new = [scan EXCEPT !.code = code]
        BY <1>3 DEF AddLetter
    <2>2. code \in 1 .. 6
        BY DEF INVALID_EXTENSION, INVALID_NAME
    <2>3. ~IsComponent(part)
        <3> DEFINE more == Append(read, char)
                   k == Len(read) + 1
        <3>1. Len(more) = k /\ more[k] = char /\ k \in 1 .. k
            <4>1. read \in Seq(Letters \cup {DOT, char}) /\ char \in Letters \cup {DOT, char}
                BY <1>2
            <4> QED
                BY <4>1, AppendIs
        <3> HIDE DEF more, k
        <3>2. k \in Nat /\ k >= 1
            BY <1>2 DEF k
        <3>3. Len(part) \in Nat
            BY DEF Words
        <3>4. k <= Len(part) /\ part[k] = char
            BY <3>1 DEF Begins, more
        <3>5. k \in 1 .. Len(part) /\ part[k] \notin Letters \cup {DOT}
            BY <1>3, <3>2, <3>3, <3>4
        <3> QED
            BY <3>5, NotOfLetters
    <2> HIDE DEF code
    <2>4. new \in Scans /\ new.code = code /\ new.skip = scan.skip /\ new.end = scan.end
        BY <2>1, <2>2, ErrorIsScan
    <2> QED
        BY <2>2, <2>3, <2>4
<1>4. CASE char \in Letters /\ ~scan.inExt
    <2>0. read = name /\ ext = <<>>
        BY <1>4 DEF Reading, name, ext
    <2>1. CASE Len(name) < DIR_NAME_LENGTH
        <3> DEFINE longer == Append(name, char)
        <3>1. new = [scan EXCEPT !.name = longer]
            BY <1>4, <2>1 DEF AddLetter, name
        <3>2. longer \in Names
            <4>1. longer \in Seq(Letters) /\ Len(longer) = Len(name) + 1
                BY <1>1, <1>4
            <4>2. Len(longer) <= DIR_NAME_LENGTH
                BY <1>1, <2>1, <4>1, CommandLineAssumption
            <4> QED
                BY <4>1, <4>2 DEF Names
        <3>3. longer = Append(read, char)
            BY <2>0
        <3> HIDE DEF longer
        <3>4. /\ new \in Scans /\ new.skip = scan.skip /\ new.end = scan.end
              /\ new.code = 0 /\ new.stack = scan.stack
              /\ new.name = longer /\ new.ext = scan.ext /\ new.inExt = scan.inExt
            BY <3>1, <3>2 DEF Scans
        <3>5. Reading(longer, new)
            BY <1>4, <2>0, <3>4 DEF Reading, ext
        <3> QED
            BY <3>3, <3>4, <3>5
    <2>2. CASE ~(Len(name) < DIR_NAME_LENGTH)
        <3>1. new = [scan EXCEPT !.code = TOO_LONG_FILENAME]
            BY <1>4, <2>2 DEF AddLetter, name
        <3>2. TOO_LONG_FILENAME \in 1 .. 6
            BY DEF TOO_LONG_FILENAME
        <3>3. Len(name) = DIR_NAME_LENGTH
            BY <1>1, <2>2, CommandLineAssumption
        <3>4. ~IsComponent(part)
            BY <1>1, <1>4, <2>0, <3>3, NameTooLong
        <3>5. /\ new \in Scans /\ new.code = TOO_LONG_FILENAME
              /\ new.skip = scan.skip /\ new.end = scan.end
            BY <3>1, <3>2, ErrorIsScan
        <3> QED
            BY <3>2, <3>4, <3>5
    <2> QED
        BY <2>1, <2>2
<1>5. CASE char \in Letters /\ scan.inExt
    <2>0. read = name \o <<DOT>> \o ext
        BY <1>5 DEF Reading, name, ext
    <2> DEFINE longer == Append(ext, char)
    <2>1. Append(read, char) = name \o <<DOT>> \o longer
        <3>1. name \o <<DOT>> \in Seq(Letters \cup {DOT}) /\ ext \in Seq(Letters \cup {DOT})
              /\ char \in Letters \cup {DOT}
            BY <1>1, <1>5
        <3> DEFINE front == name \o <<DOT>>
        <3> HIDE DEF front
        <3>2. \A s, t \in Seq(Letters \cup {DOT}), c \in Letters \cup {DOT} :
                  Append(s \o t, c) = s \o Append(t, c)
            OBVIOUS
        <3>3. Append(front \o ext, char) = front \o Append(ext, char)
            BY <3>1, <3>2, Zenon DEF front
        <3> QED
            BY <2>0, <3>3, Zenon DEF front
    <2>2. CASE Len(ext) < DIR_EXT_LENGTH
        <3>1. new = [scan EXCEPT !.ext = longer]
            BY <1>5, <2>2 DEF AddLetter, ext
        <3>2. longer \in Exts
            <4>1. longer \in Seq(Letters) /\ Len(longer) = Len(ext) + 1
                BY <1>1, <1>5
            <4>2. Len(longer) <= DIR_EXT_LENGTH
                BY <1>1, <2>2, <4>1, CommandLineAssumption
            <4> QED
                BY <4>1, <4>2 DEF Exts
        <3> HIDE DEF longer
        <3>4. /\ new \in Scans /\ new.skip = scan.skip /\ new.end = scan.end
              /\ new.code = 0 /\ new.stack = scan.stack
              /\ new.name = scan.name /\ new.ext = longer /\ new.inExt = scan.inExt
            BY <3>1, <3>2 DEF Scans
        <3>5. Reading(Append(read, char), new)
            BY <1>5, <2>1, <3>4 DEF Reading, name
        <3> QED
            BY <3>4, <3>5
    <2>3. CASE ~(Len(ext) < DIR_EXT_LENGTH)
        <3>1. new = [scan EXCEPT !.code = TOO_LONG_EXTENSION]
            BY <1>5, <2>3 DEF AddLetter, ext
        <3>2. TOO_LONG_EXTENSION \in 1 .. 6
            BY DEF TOO_LONG_EXTENSION
        <3>3. Len(ext) = DIR_EXT_LENGTH
            BY <1>1, <2>3, CommandLineAssumption
        <3>4. ~IsComponent(part)
            BY <1>1, <1>5, <2>1, <3>3, ExtTooLong
        <3>5. /\ new \in Scans /\ new.code = TOO_LONG_EXTENSION
              /\ new.skip = scan.skip /\ new.end = scan.end
            BY <3>1, <3>2, ErrorIsScan
        <3> QED
            BY <3>2, <3>4, <3>5
    <2> QED
        BY <2>2, <2>3
<1> QED
    BY <1>1, <1>3, <1>4, <1>5

\* The end of a component: it is pushed, or was none.
LEMMA ComponentIsRead ==
    ASSUME NEW scan \in Scans, scan.code = 0, NEW part, Reading(part, scan), part # <<>>,
           NEW new, new = EndComponent(scan)
    PROVE  /\ new \in Scans /\ new.skip = scan.skip /\ new.end = scan.end
           /\ \/ /\ new.code = 0 /\ Between(new) /\ IsComponent(part)
                 /\ new.stack = Append(scan.stack, Component(part))
              \/ new.code # 0 /\ ~IsComponent(part)
<1> DEFINE name == scan.name
           ext == scan.ext
<1>1. /\ name \in Seq(Letters) /\ ext \in Seq(Letters)
      /\ Len(name) \in Nat /\ Len(name) <= DIR_NAME_LENGTH
      /\ Len(ext) \in Nat /\ Len(ext) <= DIR_EXT_LENGTH
      /\ scan.inExt \in BOOLEAN
    BY ScanIs
<1>2. IF scan.inExt THEN part = name \o <<DOT>> \o ext ELSE part = name /\ ext = <<>>
    BY DEF Reading
<1> HIDE DEF name, ext
<1>3. /\ NameOf(part) = name /\ ExtOf(part) = ext /\ part # DotDot.name
      /\ Cardinality(Dots(part)) <= 1 /\ ToSet(part) \subseteq Letters \cup {DOT}
      /\ Dots(part) = {} <=> ~scan.inExt
    <2>1. CASE scan.inExt
        <3>1. part = name \o <<DOT>> \o ext
            BY <1>2, <2>1
        <3>2. Dots(part) = {Len(name) + 1}
            BY <1>1, <3>1, DottedComponent
        <3> QED
            BY <1>1, <2>1, <3>1, <3>2, DottedComponent
    <2>2. CASE ~scan.inExt
        <3>1. part = name /\ ext = <<>>
            BY <1>2, <2>2
        <3> QED
            BY <1>1, <2>2, <3>1, PlainComponent
    <2> QED
        BY <1>1, <2>1, <2>2
<1>4. IsComponent(part) <=>
          /\ Len(name) \in 1 .. DIR_NAME_LENGTH
          /\ Len(ext) \in (IF scan.inExt THEN 1 .. DIR_EXT_LENGTH ELSE {0})
    <2>1. IsComponent(part) <=>
              /\ Len(NameOf(part)) \in 1 .. DIR_NAME_LENGTH
              /\ Len(ExtOf(part)) \in
                     (IF Dots(part) = {} THEN {0} ELSE 1 .. DIR_EXT_LENGTH)
        BY <1>3 DEF IsComponent
    <2>2. (IF Dots(part) = {} THEN {0} ELSE 1 .. DIR_EXT_LENGTH) =
              (IF scan.inExt THEN 1 .. DIR_EXT_LENGTH ELSE {0})
        BY <1>3
    <2> QED
        BY <1>3, <2>1, <2>2, Zenon
<1>5. Component(part) = [name |-> name, ext |-> ext]
    BY <1>3 DEF Component
<1>6. (Len(name) = 0 <=> name = <<>>) /\ (Len(ext) = 0 <=> ext = <<>>)
    BY <1>1, EmptySeq
<1>7. CASE scan.inExt /\ ext = <<>>
    <2>1. new = [scan EXCEPT !.code = EXTENSION_EMPTY]
        BY <1>7 DEF EndComponent, ext
    <2>2. EXTENSION_EMPTY \in 1 .. 6
        BY DEF EXTENSION_EMPTY
    <2>3. ~IsComponent(part)
        BY <1>4, <1>6, <1>7
    <2>4. /\ new \in Scans /\ new.code = EXTENSION_EMPTY
          /\ new.skip = scan.skip /\ new.end = scan.end
        BY <2>1, <2>2, ErrorIsScan
    <2> QED
        BY <2>2, <2>3, <2>4
<1>8. CASE ~(scan.inExt /\ ext = <<>>) /\ name # <<>>
    <2> DEFINE next == NextComponent(scan)
               stack == Append(scan.stack, Component(part))
    <2>1. new = [next EXCEPT !.stack = Append(@, [name |-> name, ext |-> ext])]
        BY <1>8 DEF EndComponent, name, ext
    <2>2. /\ next \in Scans /\ Between(next)
          /\ next.stack = scan.stack /\ next.skip = scan.skip
          /\ next.end = scan.end /\ next.code = scan.code
        BY NextIsScan
    <2>3. stack \in Seq(Components)
        <3>1. Component(part) \in Components
            <4>1. name \in Seq(Letters \cup {DOT})
                BY <1>1
            <4> QED
                BY <1>1, <1>5, <4>1 DEF Components
        <3>2. scan.stack \in Seq(Components)
            BY ScanIs
        <3> QED
            BY <3>1, <3>2
    <2> HIDE DEF next
    <2>4. new = [next EXCEPT !.stack = stack]
        BY <1>5, <2>1, <2>2
    <2> HIDE DEF stack
    <2>5. /\ new \in Scans /\ new.stack = stack /\ new.skip = next.skip
          /\ new.end = next.end /\ new.code = next.code
          /\ new.name = next.name /\ new.ext = next.ext /\ new.inExt = next.inExt
        BY <2>2, <2>3, <2>4 DEF Scans
    <2>6. Between(new)
        BY <2>2, <2>5 DEF Between
    <2>7. IsComponent(part)
        <3>1. Len(name) \in 1 .. DIR_NAME_LENGTH
            BY <1>1, <1>6, <1>8, CommandLineAssumption
        <3>2. scan.inExt => Len(ext) \in 1 .. DIR_EXT_LENGTH
            BY <1>1, <1>6, <1>8, CommandLineAssumption
        <3>3. ~scan.inExt => Len(ext) = 0
            BY <1>2, <1>6
        <3> QED
            BY <1>1, <1>4, <3>1, <3>2, <3>3
    <2> QED
        BY <2>2, <2>5, <2>6, <2>7 DEF stack
<1>9. CASE ~(scan.inExt /\ ext = <<>>) /\ name = <<>>
    <2>1. ext # <<>>
        BY <1>2, <1>9
    <2>2. new = [scan EXCEPT !.code = FILENAME_EMPTY]
        BY <1>9, <2>1 DEF EndComponent, name, ext
    <2>3. FILENAME_EMPTY \in 1 .. 6
        BY DEF FILENAME_EMPTY
    <2>4. ~IsComponent(part)
        BY <1>4, <1>6, <1>9
    <2>5. /\ new \in Scans /\ new.code = FILENAME_EMPTY
          /\ new.skip = scan.skip /\ new.end = scan.end
        BY <2>2, <2>3, ErrorIsScan
    <2> QED
        BY <2>3, <2>4, <2>5
<1> QED
    BY <1>7, <1>8, <1>9

\* A first dot begins the extension; a second is that of "..".
LEMMA DotIsRead ==
    ASSUME NEW scan \in Scans, scan.code = 0, NEW read, Reading(read, scan),
           NEW part \in Words, Plain(part), Begins(part, Append(read, DOT))
    PROVE  \/ /\ scan.inExt /\ scan.name = <<>>
              /\ part = <<DOT, DOT>> /\ Append(read, DOT) = part
           \/ /\ ~(scan.inExt /\ scan.name = <<>>)
              /\ LET new == [scan EXCEPT !.inExt = TRUE]
                 IN  /\ new \in Scans /\ new.skip = scan.skip /\ new.end = scan.end
                     /\ new.code = 0 /\ new.stack = scan.stack
                     /\ Reading(Append(read, DOT), new)
<1> DEFINE name == scan.name
           ext == scan.ext
           new == [scan EXCEPT !.inExt = TRUE]
<1>1. /\ name \in Seq(Letters) /\ ext \in Seq(Letters) /\ scan.inExt \in BOOLEAN
    BY ScanIs
<1>2. IF scan.inExt THEN read = name \o <<DOT>> \o ext ELSE read = name /\ ext = <<>>
    BY DEF Reading
<1>3. CASE scan.inExt
    <2>1. read = name \o <<DOT>> \o ext
        BY <1>2, <1>3
    <2> HIDE DEF name, ext
    <2>2. part = <<DOT, DOT>> /\ name = <<>> /\ Append(read, DOT) = part
        BY <1>1, <2>1, TwoDots
    <2> QED
        BY <1>3, <2>2 DEF name
<1>4. CASE ~scan.inExt
    <2>1. /\ new \in Scans /\ new.skip = scan.skip /\ new.end = scan.end
          /\ new.code = 0 /\ new.stack = scan.stack
          /\ new.name = name /\ new.ext = ext /\ new.inExt = TRUE
        BY DEF Scans
    <2>2. read = name /\ ext = <<>>
        BY <1>2, <1>4
    <2>3. Append(name, DOT) = name \o <<DOT>> \o <<>>
        <3>1. name \in Seq(Letters \cup {DOT})
            BY <1>1
        <3>2. \A s \in Seq(Letters \cup {DOT}) : Append(s, DOT) = s \o <<DOT>> \o <<>>
            OBVIOUS
        <3> QED
            BY <3>1, <3>2, Zenon
    <2> HIDE DEF new, name, ext
    <2>4. Reading(Append(read, DOT), new)
        BY <2>1, <2>2, <2>3 DEF Reading
    <2> QED
        BY <1>4, <2>1, <2>4 DEF new
<1> QED
    BY <1>1, <1>3, <1>4

\* A ".." is pushed, and the character after it skipped.
LEMMA UpIsRead ==
    ASSUME NEW scan \in Scans, scan.code = 0, NEW i \in Nat, NEW next \in {FWSLASH, NULL_CHAR},
           NEW new, new = EndDotDot(scan, i, next)
    PROVE  /\ new \in Scans /\ new.skip = i + 1 /\ new.end = scan.end /\ new.code = 0
           /\ Between(new)
           /\ IsComponent(<<DOT, DOT>>)
           /\ new.stack = Append(scan.stack, Component(<<DOT, DOT>>))
<1> DEFINE blank == NextComponent(scan)
           stack == Append(scan.stack, DotDot)
           skip == i + 1
<1>1. new = [blank EXCEPT !.stack = Append(@, DotDot), !.skip = skip]
    BY DEF EndDotDot
<1>2. /\ blank \in Scans /\ Between(blank)
      /\ blank.stack = scan.stack /\ blank.skip = scan.skip
      /\ blank.end = scan.end /\ blank.code = scan.code
    BY NextIsScan
<1>3. stack \in Seq(Components) /\ skip \in Nat
    <2>1. DotDot \in Components
        <3>1. <<DOT, DOT>> \in Seq(Letters \cup {DOT}) /\ <<>> \in Seq(Letters)
            OBVIOUS
        <3> QED
            BY <3>1 DEF DotDot, Components
    <2>2. scan.stack \in Seq(Components)
        BY ScanIs
    <2> QED
        BY <2>1, <2>2
<1> HIDE DEF blank, skip
<1>4. new = [blank EXCEPT !.stack = stack, !.skip = skip]
    BY <1>1, <1>2
<1> HIDE DEF stack
<1>5. /\ new \in Scans /\ new.stack = stack /\ new.skip = skip
      /\ new.end = blank.end /\ new.code = blank.code
      /\ new.name = blank.name /\ new.ext = blank.ext /\ new.inExt = blank.inExt
    BY <1>2, <1>3, <1>4 DEF Scans
<1>6. Between(new)
    BY <1>2, <1>5 DEF Between
<1>7. IsComponent(<<DOT, DOT>>) /\ Component(<<DOT, DOT>>) = DotDot
    BY DEF IsComponent, Component, DotDot
<1> QED
    BY <1>2, <1>5, <1>6, <1>7 DEF stack, skip

\* Between components a further end changes nothing.
LEMMA NothingIsRead ==
    ASSUME NEW scan \in Scans, Between(scan), NEW new, new = EndComponent(scan)
    PROVE  /\ new \in Scans /\ new.skip = scan.skip /\ new.end = scan.end
           /\ new.code = scan.code /\ new.stack = scan.stack /\ Between(new)
<1>1. new = NextComponent(scan)
    BY DEF EndComponent, Between
<1> QED
    BY <1>1, NextIsScan

\* A scan that has ended, or not yet.
LEMMA EndIsScan ==
    ASSUME NEW scan \in Scans, NEW end \in BOOLEAN, NEW new, new = [scan EXCEPT !.end = end]
    PROVE  /\ new \in Scans /\ new.skip = scan.skip /\ new.end = end
           /\ new.code = scan.code /\ new.stack = scan.stack
           /\ Between(scan) => Between(new)
BY DEF Scans, Between

\* What a character makes of a scan is a scan.
LEMMA ScanCharType ==
    ASSUME NEW text, NEW start, NEW scan \in Scans, NEW i \in Nat
    PROVE  ScanChar(text, start, scan, i) \in Scans
<1> DEFINE char == text[i]
<1>1. EndComponent(scan) \in Scans
    <2>1. CASE scan.inExt /\ scan.ext = <<>>
        <3>1. EndComponent(scan) = [scan EXCEPT !.code = EXTENSION_EMPTY]
            BY <2>1 DEF EndComponent
        <3>2. EXTENSION_EMPTY \in 1 .. 6
            BY DEF EXTENSION_EMPTY
        <3> QED
            BY <3>1, <3>2, ErrorIsScan
    <2>2. CASE ~(scan.inExt /\ scan.ext = <<>>) /\ scan.name # <<>>
        <3> DEFINE blank == NextComponent(scan)
                   new == [name |-> scan.name, ext |-> scan.ext]
        <3>1. EndComponent(scan) = [blank EXCEPT !.stack = Append(@, new)]
            BY <2>2 DEF EndComponent
        <3>2. blank \in Scans /\ blank.stack \in Seq(Components)
            BY NextIsScan, ScanIs
        <3>3. new \in Components
            <4>1. scan.name \in Seq(Letters \cup {DOT}) /\ scan.ext \in Seq(Letters)
                BY ScanIs
            <4> QED
                BY <4>1 DEF Components
        <3> HIDE DEF blank, new
        <3>4. Append(blank.stack, new) \in Seq(Components)
            BY <3>2, <3>3
        <3> QED
            BY <3>1, <3>2, <3>4 DEF Scans
    <2>3. CASE ~(scan.inExt /\ scan.ext = <<>>) /\ scan.name = <<>> /\ scan.ext # <<>>
        <3>1. EndComponent(scan) = [scan EXCEPT !.code = FILENAME_EMPTY]
            BY <2>3 DEF EndComponent
        <3>2. FILENAME_EMPTY \in 1 .. 6
            BY DEF FILENAME_EMPTY
        <3> QED
            BY <3>1, <3>2, ErrorIsScan
    <2>4. CASE ~(scan.inExt /\ scan.ext = <<>>) /\ scan.name = <<>> /\ scan.ext = <<>>
        <3>1. EndComponent(scan) = NextComponent(scan)
            BY <2>4 DEF EndComponent
        <3> QED
            BY <3>1, NextIsScan
    <2> QED
        BY <2>1, <2>2, <2>3, <2>4
<1>2. [EndComponent(scan) EXCEPT !.end = char = NULL_CHAR] \in Scans
    <2> DEFINE end == char = NULL_CHAR
    <2>1. end \in BOOLEAN
        OBVIOUS
    <2> HIDE DEF end
    <2>2. [EndComponent(scan) EXCEPT !.end = end] \in Scans
        BY <1>1, <2>1, EndIsScan
    <2> QED
        BY <2>2 DEF end
<1>3. EndDotDot(scan, i, text[i + 1]) \in Scans
    <2> DEFINE next == text[i + 1]
    <2>1. CASE next \notin {FWSLASH, NULL_CHAR}
        <3>1. EndDotDot(scan, i, next) = [scan EXCEPT !.code = INVALID_NAME]
            BY <2>1 DEF EndDotDot
        <3>2. INVALID_NAME \in 1 .. 6
            BY DEF INVALID_NAME
        <3> QED
            BY <3>1, <3>2, ErrorIsScan
    <2>2. CASE next \in {FWSLASH, NULL_CHAR}
        <3> DEFINE blank == NextComponent(scan)
                   skip == i + 1
        <3>1. EndDotDot(scan, i, next) = [blank EXCEPT !.stack = Append(@, DotDot), !.skip = skip]
            BY <2>2 DEF EndDotDot
        <3>2. blank \in Scans /\ blank.stack \in Seq(Components) /\ skip \in Nat
            BY NextIsScan, ScanIs
        <3>3. DotDot \in Components
            <4>1. <<DOT, DOT>> \in Seq(Letters \cup {DOT}) /\ <<>> \in Seq(Letters)
                OBVIOUS
            <4> QED
                BY <4>1 DEF DotDot, Components
        <3> HIDE DEF blank, skip, next
        <3>4. Append(blank.stack, DotDot) \in Seq(Components)
            BY <3>2, <3>3
        <3>5. EndDotDot(scan, i, next) \in Scans
            BY <3>1, <3>2, <3>4 DEF Scans
        <3> QED
            BY <3>5 DEF next
    <2> QED
        BY <2>1, <2>2
<1>4. [scan EXCEPT !.inExt = TRUE] \in Scans
    BY DEF Scans
<1>5. AddLetter(scan, char) \in Scans
    <2> HIDE DEF char
    <2>0. /\ scan.name \in Seq(Letters) /\ scan.ext \in Seq(Letters)
          /\ Len(scan.name) \in Nat /\ Len(scan.ext) \in Nat
        BY ScanIs
    <2>1. CASE char \notin Letters
        <3> DEFINE code == IF scan.inExt THEN INVALID_EXTENSION ELSE INVALID_NAME
        <3>1. AddLetter(scan, char) = [scan EXCEPT !.code = code]
            BY <2>1 DEF AddLetter
        <3>2. code \in 1 .. 6
            BY DEF INVALID_EXTENSION, INVALID_NAME
        <3> HIDE DEF code
        <3> QED
            BY <3>1, <3>2, ErrorIsScan
    <2>2. CASE char \in Letters /\ ~scan.inExt /\ Len(scan.name) < DIR_NAME_LENGTH
        <3> DEFINE longer == Append(scan.name, char)
        <3>1. AddLetter(scan, char) = [scan EXCEPT !.name = longer]
            BY <2>2 DEF AddLetter
        <3>2. longer \in Names
            <4>1. longer \in Seq(Letters) /\ Len(longer) = Len(scan.name) + 1
                BY <2>0, <2>2
            <4>2. Len(longer) <= DIR_NAME_LENGTH
                BY <2>0, <2>2, <4>1, CommandLineAssumption
            <4> QED
                BY <4>1, <4>2 DEF Names
        <3> HIDE DEF longer
        <3> QED
            BY <3>1, <3>2 DEF Scans
    <2>3. CASE char \in Letters /\ ~scan.inExt /\ ~(Len(scan.name) < DIR_NAME_LENGTH)
        <3>1. AddLetter(scan, char) = [scan EXCEPT !.code = TOO_LONG_FILENAME]
            BY <2>3 DEF AddLetter
        <3>2. TOO_LONG_FILENAME \in 1 .. 6
            BY DEF TOO_LONG_FILENAME
        <3> QED
            BY <3>1, <3>2, ErrorIsScan
    <2>4. CASE char \in Letters /\ scan.inExt /\ Len(scan.ext) < DIR_EXT_LENGTH
        <3> DEFINE longer == Append(scan.ext, char)
        <3>1. AddLetter(scan, char) = [scan EXCEPT !.ext = longer]
            BY <2>4 DEF AddLetter
        <3>2. longer \in Exts
            <4>1. longer \in Seq(Letters) /\ Len(longer) = Len(scan.ext) + 1
                BY <2>0, <2>4
            <4>2. Len(longer) <= DIR_EXT_LENGTH
                BY <2>0, <2>4, <4>1, CommandLineAssumption
            <4> QED
                BY <4>1, <4>2 DEF Exts
        <3> HIDE DEF longer
        <3> QED
            BY <3>1, <3>2 DEF Scans
    <2>5. CASE char \in Letters /\ scan.inExt /\ ~(Len(scan.ext) < DIR_EXT_LENGTH)
        <3>1. AddLetter(scan, char) = [scan EXCEPT !.code = TOO_LONG_EXTENSION]
            BY <2>5 DEF AddLetter
        <3>2. TOO_LONG_EXTENSION \in 1 .. 6
            BY DEF TOO_LONG_EXTENSION
        <3> QED
            BY <3>1, <3>2, ErrorIsScan
    <2> QED
        BY <2>1, <2>2, <2>3, <2>4, <2>5
<1> QED
    BY <1>1, <1>2, <1>3, <1>4, <1>5 DEF ScanChar

-----------------------------------------------------------------------------
(* The scan of a path *)

ScanAll(text, start, places) ==
    LET take(scan, i) == ScanChar(text, start, scan, i)
    IN  FoldLeft(take, Scan, places)

ScanStep(text, start) == [scan \in Scans |-> [i \in Nat |-> ScanChar(text, start, scan, i)]]

LEMMA ScanType == Scan \in Scans
<1>1. <<>> \in Seq(Components) /\ 0 \in Nat /\ 0 \in 0 .. 6
    OBVIOUS
<1> QED
    BY <1>1, EmptyIsNameAndExt DEF Scan, Scans

\* A scan from the first of some positions to the last.
ScansPlaces(text, start, places, g) ==
    /\ g[0] = Scan
    /\ \A n \in 1 .. Len(places) : g[n] = ScanChar(text, start, g[n - 1], places[n])
    /\ ScanAll(text, start, places) = g[Len(places)]

\* There is one.
LEMMA PlacesAreScanned ==
    ASSUME NEW text, NEW start, NEW places \in Seq(Nat)
    PROVE  \E g \in [0 .. Len(places) -> Scans] : ScansPlaces(text, start, places, g)
<1> DEFINE N == Len(places)
           Iterates(f) ==
               f = [x \in SUBSET DOMAIN places |->
                       IF x = {} THEN Scan ELSE ScanChar(text, start, f[x \ {Max(x)}], places[Max(x)])]
           iter == CHOOSE f : Iterates(f)
<1>1. ScanAll(text, start, places) = iter[DOMAIN places]
    BY DEF ScanAll, FoldLeft, MapThenFoldSet
<1>2. DOMAIN places = 1 .. N /\ N \in Nat /\ places \in Seq(Nat)
    OBVIOUS
<1>3. ScanStep(text, start) \in [Scans -> [Nat -> Scans]] /\ Scan \in Scans
    <2>1. \A v \in Scans : [c \in Nat |-> ScanChar(text, start, v, c)] \in [Nat -> Scans]
        BY ScanCharType
    <2> QED
        BY <2>1, ScanType DEF ScanStep
<1>4. FoldTo(Scans, ScanStep(text, start), Scan, places, N)
    BY <1>2, <1>3, FoldExists
<1>5. PICK f \in [SUBSET (1 .. N) -> Scans] : FoldsSets(f, ScanStep(text, start), Scan, places, N)
    BY <1>4 DEF FoldTo
<1>6. Iterates(f)
    <2>1. ASSUME NEW x \in SUBSET (1 .. N)
          PROVE  f[x] = IF x = {} THEN Scan ELSE ScanChar(text, start, f[x \ {Max(x)}], places[Max(x)])
        <3>1. CASE x = {}
            BY <1>5, <3>1 DEF FoldsSets
        <3>2. CASE x # {}
            <4>1. Max(x) \in 1 .. N
                BY <1>2, <3>2, MaxIn
            <4>2. places[Max(x)] \in Nat /\ f[x \ {Max(x)}] \in Scans
                <5>1. x \ {Max(x)} \in SUBSET (1 .. N)
                    OBVIOUS
                <5> QED
                    BY <1>2, <4>1, <5>1
            <4>3. ScanStep(text, start)[f[x \ {Max(x)}]][places[Max(x)]] = ScanChar(text, start, f[x \ {Max(x)}], places[Max(x)])
                BY <4>2 DEF ScanStep
            <4> QED
                BY <1>5, <3>2, <4>3 DEF FoldsSets
        <3> QED
            BY <3>1, <3>2
    <2> HIDE DEF N
    <2>2. f = [x \in SUBSET (1 .. N) |-> f[x]]
        OBVIOUS
    <2> QED
        BY <1>2, <2>1, <2>2, Zenon
<1>7. Iterates(iter)
    <2> HIDE DEF Iterates
    <2> QED
        BY <1>6
<1>8. \A x \in SUBSET (1 .. N) :
          iter[x] = IF x = {} THEN Scan ELSE ScanChar(text, start, iter[x \ {Max(x)}], places[Max(x)])
    <2> HIDE DEF iter
    <2> QED
        BY <1>2, <1>7
<1> DEFINE g == [n \in 0 .. N |-> iter[1 .. n]]
<1> HIDE DEF iter
<1>9. g[0] = Scan
    <2>1. 1 .. 0 = {} /\ 0 \in 0 .. N
        OBVIOUS
    <2> QED
        BY <1>8, <2>1
<1>10. ASSUME NEW n \in 1 .. N PROVE g[n] = ScanChar(text, start, g[n - 1], places[n])
    <2>1. n \in 0 .. N /\ n - 1 \in 0 .. N
        BY <1>2
    <2>2. /\ 1 .. n \in SUBSET (1 .. N) /\ 1 .. n # {}
          /\ Max(1 .. n) = n
          /\ (1 .. n) \ {n} = 1 .. (n - 1)
        BY <1>2, LastPosition
    <2>3. iter[1 .. n] = ScanChar(text, start, iter[1 .. (n - 1)], places[n])
        BY <1>8, <2>2
    <2> QED
        BY <2>1, <2>3
<1>11. \A n \in 0 .. N : g[n] \in Scans
    <2> DEFINE Typed == {n \in 0 .. N : g[n] \in Scans}
    <2> HIDE DEF g
    <2>1. 0 \in Typed
        BY <1>3, <1>9
    <2>2. ASSUME NEW n \in 0 .. (N - 1), n \in Typed PROVE n + 1 \in Typed
        <3>1. n + 1 \in 1 .. N /\ n + 1 - 1 = n /\ places[n + 1] \in Nat
            BY <1>2
        <3>2. g[n + 1] = ScanChar(text, start, g[n], places[n + 1])
            BY <1>10, <3>1
        <3> QED
            BY <2>2, <3>1, <3>2, ScanCharType
    <2>3. \A n \in 0 .. N : n \in Typed
        <3> HIDE DEF Typed, N
        <3> QED
            BY <1>2, <2>1, <2>2, BoundedInduction
    <2> QED
        BY <2>3
<1>12. g \in [0 .. N -> Scans]
    BY <1>11
<1>13. ScanAll(text, start, places) = g[N]
    BY <1>1, <1>2
<1>14. ScansPlaces(text, start, places, g)
    <2> HIDE DEF g
    <2> QED
        BY <1>9, <1>10, <1>13 DEF ScansPlaces
<1> QED
    <2> HIDE DEF g
    <2> QED
        BY <1>12, <1>14

\* The text that is scanned, and from where.
PathText(path) == path \o <<NULL_CHAR, NULL_CHAR>>
PathStart(path) == IF PathText(path)[1] = DOT /\ PathText(path)[2] = FWSLASH THEN 3 ELSE 1

ScansPath(path, g) ==
    /\ g[0] = Scan
    /\ \A n \in 1 .. (Len(path) + 2) :
           g[n] = ScanChar(PathText(path), PathStart(path), g[n - 1], n)
    /\ path_to_dir_stack(path) = g[Len(path) + 2]

LEMMA PathIsScanned ==
    ASSUME NEW path \in Words
    PROVE  \E g \in [0 .. (Len(path) + 2) -> Scans] : ScansPath(path, g)
<1> DEFINE text == PathText(path)
           start == PathStart(path)
           N == Len(path) + 2
           places == [i \in 1 .. N |-> i]
<1>1. N \in Nat /\ Len(text) = N
    <2>1. \A s \in Seq(Characters \cup {NULL_CHAR}) :
              Len(s \o <<NULL_CHAR, NULL_CHAR>>) = Len(s) + 2 /\ Len(s) \in Nat
        OBVIOUS
    <2>2. path \in Seq(Characters \cup {NULL_CHAR})
        BY DEF Words
    <2> QED
        BY <2>1, <2>2 DEF PathText
<1>2. path_to_dir_stack(path) = ScanAll(text, start, [i \in 1 .. Len(text) |-> i])
    BY Zenon DEF path_to_dir_stack, ScanAll, PathText, PathStart
<1> HIDE DEF text, start, N
<1>3. /\ places \in Seq(Nat) /\ Len(places) = N
      /\ \A n \in 1 .. N : places[n] = n
    BY <1>1
<1>4. path_to_dir_stack(path) = ScanAll(text, start, places)
    BY <1>1, <1>2, Zenon
<1> HIDE DEF places
<1>5. PICK g \in [0 .. N -> Scans] : ScansPlaces(text, start, places, g)
    BY <1>3, PlacesAreScanned
<1>6. ScansPath(path, g)
    <2>1. /\ g[0] = Scan /\ path_to_dir_stack(path) = g[N]
          /\ \A n \in 1 .. N : g[n] = ScanChar(text, start, g[n - 1], n)
        BY <1>3, <1>4, <1>5 DEF ScansPlaces
    <2> QED
        BY <2>1, Zenon DEF ScansPath, N, text, start
<1>7. g \in [0 .. (Len(path) + 2) -> Scans]
    BY <1>5 DEF N
<1> QED
    BY <1>6, <1>7

-----------------------------------------------------------------------------
(* The parts of a path *)

\* The positions that the reference looks at.
SlashesOf(path) == {i \in DOMAIN path : path[i] = FWSLASH}
HereOf(path) == {i \in {1} : Len(path) > 1 /\ path[1] = DOT /\ path[2] = FWSLASH}
PathOpen(path) == DOMAIN path \ (SlashesOf(path) \cup HereOf(path))
PartsBegin(path) == Firsts(PathOpen(path))

\* How many parts begin in the first n characters.
PartCount(path, n) == Rank(PartsBegin(path), n)

\* What they have of the k-th part.
PartSoFar(path, n, k) == {i \in PathOpen(path) : i <= n /\ Rank(PartsBegin(path), i) = k}
Got(path, n, k) == Listed(path, PartSoFar(path, n, k))
Part(path, k) == Got(path, Len(path), k)

\* They are positions of the path.
LEMMA PartPositions ==
    ASSUME NEW path \in Words
    PROVE  /\ Len(path) \in Nat /\ DOMAIN path = 1 .. Len(path)
           /\ \A i \in PathOpen(path) : i \in 1 .. Len(path)
           /\ PathOpen(path) \in SUBSET (1 .. (Len(path) + 2))
           /\ PartsBegin(path) \in SUBSET (1 .. (Len(path) + 2))
           /\ \A n, k : PartSoFar(path, n, k) \in SUBSET (1 .. (Len(path) + 2))
           /\ PartCount(path, 0) = 0
           /\ \A n \in 0 .. (Len(path) + 2) : PartCount(path, n) \in Nat
<1>1. Len(path) \in Nat /\ DOMAIN path = 1 .. Len(path)
    BY DEF Words
<1>2. PathOpen(path) \subseteq DOMAIN path
    BY DEF PathOpen
<1>3. PartsBegin(path) \subseteq PathOpen(path)
    BY DEF PartsBegin, Firsts
<1>4. \A n, k : PartSoFar(path, n, k) \subseteq PathOpen(path)
    BY DEF PartSoFar
<1>5. \A i \in 1 .. Len(path) : i \in 1 .. (Len(path) + 2)
    BY <1>1
<1>6. PartsBegin(path) \in SUBSET (1 .. (Len(path) + 2))
    BY <1>1, <1>2, <1>3, <1>5
<1>7. Len(path) + 2 \in Nat
    BY <1>1
<1>8. /\ PartCount(path, 0) = 0
      /\ \A n \in 0 .. (Len(path) + 2) : PartCount(path, n) \in Nat
    <2>1. /\ Rank(PartsBegin(path), 0) = 0
          /\ \A n \in 0 .. (Len(path) + 2) : Rank(PartsBegin(path), n) \in Nat
        BY <1>6, <1>7, RankGrows
    <2> QED
        BY <2>1 DEF PartCount
<1> QED
    BY <1>1, <1>2, <1>4, <1>5, <1>6, <1>8

\* Parts that begin later count no less.
LEMMA PartCountMonotone ==
    ASSUME NEW path \in Words, NEW m \in 0 .. (Len(path) + 2), NEW n \in 0 .. (Len(path) + 2),
           m <= n
    PROVE  PartCount(path, m) <= PartCount(path, n)
<1>1. Len(path) + 2 \in Nat /\ PartsBegin(path) \in SUBSET (1 .. (Len(path) + 2))
    BY PartPositions
<1> QED
    BY <1>1, RankMonotone DEF PartCount

\* What the next character is to the parts.
LEMMA PartGrows ==
    ASSUME NEW path \in Words, NEW n \in 0 .. (Len(path) + 1)
    PROVE  /\ PartCount(path, n + 1) = PartCount(path, n) +
                  IF n + 1 \in PathOpen(path) /\ n \notin PathOpen(path) THEN 1 ELSE 0
           /\ \A k : Got(path, n + 1, k) =
                  IF n + 1 \in PathOpen(path) /\ PartCount(path, n + 1) = k
                  THEN Append(Got(path, n, k), path[n + 1])
                  ELSE Got(path, n, k)
<1> DEFINE N == Len(path) + 2
<1>1. /\ N \in Nat /\ Len(path) \in Nat /\ PartsBegin(path) \in SUBSET (1 .. N)
      /\ n \in 0 .. (N - 1) /\ n + 1 \in 1 .. N /\ n + 1 - 1 = n
      /\ \A i \in PathOpen(path) : i \in 1 .. Len(path)
      /\ \A k : PartSoFar(path, n, k) \in SUBSET (1 .. N)
    BY PartPositions
<1> HIDE DEF N
<1>2. n + 1 \in PartsBegin(path) <=> n + 1 \in PathOpen(path) /\ n \notin PathOpen(path)
    BY <1>1 DEF PartsBegin, Firsts
<1>3. Rank(PartsBegin(path), n + 1) =
          Rank(PartsBegin(path), n) + IF n + 1 \in PartsBegin(path) THEN 1 ELSE 0
    BY <1>1, RankNext
<1>4. \A i \in PathOpen(path) : i \in Nat /\ (i <= n + 1 <=> i <= n \/ i = n + 1)
    BY <1>1
<1>5. ~(n + 1 <= n)
    BY <1>1
<1>6. ASSUME NEW k
      PROVE  Got(path, n + 1, k) =
                 IF n + 1 \in PathOpen(path) /\ PartCount(path, n + 1) = k
                 THEN Append(Got(path, n, k), path[n + 1])
                 ELSE Got(path, n, k)
    <2>1. CASE n + 1 \in PathOpen(path) /\ PartCount(path, n + 1) = k
        <3>1. PartSoFar(path, n + 1, k) = PartSoFar(path, n, k) \cup {n + 1}
            BY <1>4, <1>5, <2>1 DEF PartSoFar, PartCount
        <3>2. \A i \in PartSoFar(path, n, k) : i < n + 1
            BY <1>1, <1>4 DEF PartSoFar
        <3>3. PartSoFar(path, n, k) \in SUBSET (1 .. N)
            BY <1>1
        <3>4. Listed(path, PartSoFar(path, n, k) \cup {n + 1}) =
                  Append(Listed(path, PartSoFar(path, n, k)), path[n + 1])
            BY <1>1, <3>2, <3>3, ListedGrows
        <3> QED
            BY <2>1, <3>1, <3>4, Zenon DEF Got
    <2>2. CASE ~(n + 1 \in PathOpen(path) /\ PartCount(path, n + 1) = k)
        <3>1. PartSoFar(path, n + 1, k) = PartSoFar(path, n, k)
            BY <1>4, <1>5, <2>2 DEF PartSoFar, PartCount
        <3> QED
            BY <2>2, <3>1, Zenon DEF Got
    <2> QED
        BY <2>1, <2>2
<1> QED
    BY <1>2, <1>3, <1>6 DEF PartCount

\* Of a part that has not begun nothing was read.
LEMMA PartNotBegun ==
    ASSUME NEW path \in Words, NEW n \in 0 .. (Len(path) + 2), NEW k \in Nat,
           k > PartCount(path, n)
    PROVE  Got(path, n, k) = <<>>
<1>1. /\ Len(path) \in Nat /\ \A i \in PathOpen(path) : i \in 1 .. Len(path)
      /\ PartCount(path, n) \in Nat
    BY PartPositions
<1>2. ASSUME NEW i \in PartSoFar(path, n, k) PROVE FALSE
    <2>1. i \in 0 .. (Len(path) + 2) /\ i <= n /\ PartCount(path, i) = k
        BY <1>1 DEF PartSoFar, PartCount
    <2>2. PartCount(path, i) <= PartCount(path, n)
        BY <2>1, PartCountMonotone
    <2> QED
        BY <1>1, <2>1, <2>2
<1>3. PartSoFar(path, n, k) = {}
    BY <1>2
<1> QED
    BY <1>3, NothingListed DEF Got

\* What was read of a part is text.
LEMMA GotType ==
    ASSUME NEW path \in Words, NEW k \in Nat \ {0}
    PROVE  \A n \in 0 .. (Len(path) + 2) : Got(path, n, k) \in Words
<1> DEFINE N == Len(path) + 2
           Typed == {n \in 0 .. N : Got(path, n, k) \in Words}
<1>1. /\ N \in Nat /\ Len(path) \in Nat /\ path \in Seq(Characters)
      /\ \A i \in PathOpen(path) : i \in 1 .. Len(path)
    BY PartPositions DEF Words
<1>2. 0 \in Typed
    <2>1. 0 \in 0 .. N /\ k > PartCount(path, 0) /\ k \in Nat
        BY <1>1, PartPositions
    <2>2. Got(path, 0, k) = <<>>
        BY <2>1, PartNotBegun
    <2>3. <<>> \in Words
        BY DEF Words
    <2> QED
        BY <2>1, <2>2, <2>3
<1>3. ASSUME NEW n \in 0 .. (N - 1), n \in Typed PROVE n + 1 \in Typed
    <2>1. n \in 0 .. (Len(path) + 1) /\ n + 1 \in 0 .. N
        BY <1>1
    <2>2. Got(path, n + 1, k) =
              IF n + 1 \in PathOpen(path) /\ PartCount(path, n + 1) = k
              THEN Append(Got(path, n, k), path[n + 1]) ELSE Got(path, n, k)
        BY <2>1, PartGrows
    <2>3. n + 1 \in PathOpen(path) => path[n + 1] \in Characters
        BY <1>1
    <2>4. Got(path, n, k) \in Seq(Characters)
        BY <1>3 DEF Words
    <2>6. path[n + 1] \in Characters => Append(Got(path, n, k), path[n + 1]) \in Seq(Characters)
        BY <2>4, AppendIs
    <2>5. Got(path, n + 1, k) \in Seq(Characters)
        BY <2>2, <2>3, <2>4, <2>6, Zenon
    <2> QED
        BY <2>1, <2>5 DEF Words
<1>4. \A n \in 0 .. N : n \in Typed
    <2> HIDE DEF Typed, N
    <2> QED
        BY <1>1, <1>2, <1>3, BoundedInduction
<1> QED
    BY <1>4

\* A part begins with what was read of it.
LEMMA PartBegins ==
    ASSUME NEW path \in Words, NEW k \in Nat \ {0}, NEW m \in 0 .. Len(path)
    PROVE  Begins(Part(path, k), Got(path, m, k))
<1> DEFINE L == Len(path)
           Read(n) == Got(path, n, k)
           Longer == {n \in 0 .. L : n >= m => Begins(Read(n), Read(m))}
<1>1. /\ L \in Nat /\ \A i \in PathOpen(path) : i \in 1 .. L
      /\ path \in Seq(Characters)
    BY PartPositions DEF Words
<1>2. \A n \in 0 .. L : Read(n) \in Seq(Characters) /\ Len(Read(n)) \in Nat
    <2>1. \A n \in 0 .. L : n \in 0 .. (Len(path) + 2)
        BY <1>1
    <2>2. \A n \in 0 .. L : Read(n) \in Seq(Characters)
        BY <2>1, GotType DEF Words
    <2> HIDE DEF Read
    <2> QED
        BY <2>2
<1>3. ASSUME NEW n \in 0 .. (L - 1)
      PROVE  \/ Read(n + 1) = Read(n)
             \/ /\ Len(Read(n + 1)) = Len(Read(n)) + 1
                /\ \A i \in 1 .. Len(Read(n)) : Read(n + 1)[i] = Read(n)[i]
    <2>1. n \in 0 .. (Len(path) + 1) /\ n \in 0 .. L
        BY <1>1
    <2>2. Read(n + 1) =
              IF n + 1 \in PathOpen(path) /\ PartCount(path, n + 1) = k
              THEN Append(Read(n), path[n + 1]) ELSE Read(n)
        BY <2>1, PartGrows
    <2>3. n + 1 \in PathOpen(path) => path[n + 1] \in Characters
        BY <1>1
    <2>4. Read(n) \in Seq(Characters)
        BY <1>2, <2>1
    <2> HIDE DEF Read
    <2>5. CASE Read(n + 1) = Append(Read(n), path[n + 1]) /\ path[n + 1] \in Characters
        BY <2>4, <2>5, AppendIs
    <2> QED
        BY <2>2, <2>3, <2>5
<1> HIDE DEF Read
<1>4. \A n \in 0 .. L : Begins(Read(n), Read(n))
    BY <1>2 DEF Begins
<1>5. 0 \in Longer
    <2>1. 0 >= m => m = 0
        BY <1>1
    <2> QED
        BY <1>1, <1>4, <2>1
<1>6. ASSUME NEW n \in 0 .. (L - 1), n \in Longer PROVE n + 1 \in Longer
    <2>1. n \in 0 .. L /\ n + 1 \in 0 .. L /\ m \in 0 .. L
        BY <1>1
    <2>2. CASE n >= m
        <3>1. Begins(Read(n), Read(m))
            BY <1>6, <2>2
        <3>2. Len(Read(n)) \in Nat /\ Len(Read(m)) \in Nat
            BY <1>2, <2>1
        <3>3. Begins(Read(n + 1), Read(m))
            BY <1>3, <3>1, <3>2 DEF Begins
        <3> QED
            BY <2>1, <3>3
    <2>3. CASE n + 1 = m
        BY <1>4, <2>1, <2>3
    <2>4. CASE ~(n + 1 >= m)
        BY <2>1, <2>4
    <2> QED
        BY <1>1, <2>1, <2>2, <2>3, <2>4
<1>7. Begins(Read(L), Read(m))
    <2>1. L \in 0 .. L /\ L >= m
        BY <1>1
    <2> HIDE DEF Longer, L
    <2>2. \A n \in 0 .. L : n \in Longer
        BY <1>1, <1>5, <1>6, BoundedInduction
    <2> QED
        BY <2>1, <2>2 DEF Longer
<1> QED
    BY <1>7 DEF Part, Read

\* In a part, it has begun and something was read of it.
LEMMA InPart ==
    ASSUME NEW path \in Words, NEW n \in PathOpen(path)
    PROVE  /\ PartCount(path, n) \in Nat \ {0}
           /\ Got(path, n, PartCount(path, n)) # <<>>
<1> DEFINE L == Len(path)
           Begun == {m \in 0 .. L : m \in PathOpen(path) => PartCount(path, m) >= 1}
<1>1. /\ L \in Nat /\ \A i \in PathOpen(path) : i \in 1 .. L
      /\ \A m \in 0 .. (L + 2) : PartCount(path, m) \in Nat
    BY PartPositions
<1>2. 0 \in Begun
    BY <1>1
<1>3. ASSUME NEW m \in 0 .. (L - 1), m \in Begun PROVE m + 1 \in Begun
    <2>1. m \in 0 .. (Len(path) + 1) /\ m + 1 \in 0 .. L /\ m \in 0 .. (L + 2)
        BY <1>1
    <2>2. PartCount(path, m + 1) = PartCount(path, m) +
              IF m + 1 \in PathOpen(path) /\ m \notin PathOpen(path) THEN 1 ELSE 0
        BY <2>1, PartGrows
    <2>3. PartCount(path, m) \in Nat
        BY <1>1, <2>1
    <2> QED
        BY <1>3, <2>1, <2>2, <2>3
<1>4. PartCount(path, n) >= 1 /\ PartCount(path, n) \in Nat
    <2>1. n \in 0 .. L /\ n \in 0 .. (L + 2)
        BY <1>1
    <2>2. PartCount(path, n) \in Nat
        BY <1>1, <2>1
    <2> HIDE DEF Begun, L
    <2>3. \A m \in 0 .. L : m \in Begun
        BY <1>1, <1>2, <1>3, BoundedInduction
    <2> QED
        BY <2>1, <2>2, <2>3 DEF Begun
<1>5. Got(path, n, PartCount(path, n)) # <<>>
    <2> DEFINE k == PartCount(path, n)
    <2>1. n - 1 \in 0 .. (Len(path) + 1) /\ n - 1 + 1 = n /\ n - 1 \in 0 .. (Len(path) + 2)
        BY <1>1
    <2>2. Got(path, n - 1 + 1, k) =
              IF n - 1 + 1 \in PathOpen(path) /\ PartCount(path, n - 1 + 1) = k
              THEN Append(Got(path, n - 1, k), path[n - 1 + 1]) ELSE Got(path, n - 1, k)
        BY <2>1, PartGrows
    <2>3. Got(path, n, k) = Append(Got(path, n - 1, k), path[n])
        BY <2>1, <2>2
    <2>4. Got(path, n - 1, k) \in Words /\ path[n] \in Characters
        <3>1. k \in Nat \ {0}
            BY <1>4
        <3>2. Got(path, n - 1, k) \in Words
            BY <2>1, <3>1, GotType
        <3> QED
            BY <1>1, <3>2 DEF Words
    <2>5. \A s \in Seq(Characters), c \in Characters : Append(s, c) # <<>>
        <3> SUFFICES ASSUME NEW s \in Seq(Characters), NEW c \in Characters
                     PROVE Append(s, c) # <<>>
            OBVIOUS
        <3>1. Len(Append(s, c)) = Len(s) + 1 /\ Len(s) \in Nat
            BY AppendIs
        <3>2. Len(<<>>) = 0
            OBVIOUS
        <3> QED
            BY <3>1, <3>2
    <2> HIDE DEF k
    <2>6. Got(path, n, k) # <<>>
        BY <2>3, <2>4, <2>5, Zenon DEF Words
    <2> QED
        BY <2>6 DEF k
<1> QED
    BY <1>4, <1>5

\* At its end it was read whole.
LEMMA PartIsWhole ==
    ASSUME NEW path \in Words, NEW n \in PathOpen(path), n + 1 \notin PathOpen(path)
    PROVE  Got(path, n, PartCount(path, n)) = Part(path, PartCount(path, n))
<1> DEFINE L == Len(path)
           k == PartCount(path, n)
           Past == {m \in 0 .. L : m > n =>
                       /\ PartCount(path, m) >= k
                       /\ m \in PathOpen(path) => PartCount(path, m) > k}
<1>1. /\ L \in Nat /\ \A i \in PathOpen(path) : i \in 1 .. L
      /\ \A m \in 0 .. (L + 2) : PartCount(path, m) \in Nat
    BY PartPositions
<1>2. n \in 1 .. L /\ k \in Nat
    BY <1>1, InPart
<1> HIDE DEF k
<1>3. 0 \in Past
    BY <1>1, <1>2
<1>4. ASSUME NEW m \in 0 .. (L - 1), m \in Past PROVE m + 1 \in Past
    <2>1. /\ m \in 0 .. (Len(path) + 1) /\ m + 1 \in 0 .. L
          /\ m \in 0 .. (L + 2) /\ m + 1 \in 0 .. (L + 2)
        BY <1>1
    <2>2. PartCount(path, m + 1) = PartCount(path, m) +
              IF m + 1 \in PathOpen(path) /\ m \notin PathOpen(path) THEN 1 ELSE 0
        BY <2>1, PartGrows
    <2>3. PartCount(path, m) \in Nat
        BY <1>1, <2>1
    <2>4. CASE m > n
        BY <1>2, <1>4, <2>1, <2>2, <2>3, <2>4
    <2>5. CASE m = n
        BY <1>2, <2>1, <2>2, <2>3, <2>5 DEF k
    <2>6. CASE m < n
        <3>1. ~(m + 1 > n)
            BY <1>2, <2>6
        <3> QED
            BY <2>1, <3>1
    <2> QED
        BY <1>2, <2>4, <2>5, <2>6
<1>5. \A m \in 0 .. L : m \in Past
    <2> HIDE DEF Past, L
    <2> QED
        BY <1>1, <1>3, <1>4, BoundedInduction
<1>6. PartSoFar(path, L, k) = PartSoFar(path, n, k)
    <2>1. \A i \in PathOpen(path) : i \in 0 .. L /\ i <= L /\ (i <= n \/ i > n)
        BY <1>1, <1>2
    <2>2. \A i \in PathOpen(path) : i > n => PartCount(path, i) # k
        BY <1>1, <1>2, <1>5, <2>1
    <2>3. \A i \in PathOpen(path) : i <= L /\ PartCount(path, i) = k <=>
                                    i <= n /\ PartCount(path, i) = k
        BY <2>1, <2>2
    <2> QED
        BY <2>3 DEF PartSoFar, PartCount
<1> QED
    BY <1>6, Zenon DEF Part, Got, k

\* The parts of a path, as Parts lists them.
LEMMA PartsAre ==
    ASSUME NEW path \in Words
    PROVE  /\ PartCount(path, Len(path)) \in Nat
           /\ Parts(path) = [k \in 1 .. PartCount(path, Len(path)) |-> Part(path, k)]
<1> DEFINE L == Len(path)
           count == PartCount(path, L)
           Of(k) == {i \in PathOpen(path) \cap DOMAIN path : Rank(PartsBegin(path), i) = k}
<1>1. /\ L \in Nat /\ DOMAIN path = 1 .. L
      /\ \A i \in PathOpen(path) : i \in 1 .. L
      /\ PartCount(path, L) \in Nat
    BY PartPositions
<1>2. count = Cardinality(PartsBegin(path))
    <2>1. PartsBegin(path) \subseteq PathOpen(path)
        BY DEF PartsBegin, Firsts
    <2>2. PartsBegin(path) \in SUBSET (1 .. L)
        BY <1>1, <2>1
    <2> QED
        BY <1>1, <2>2, RankGrows DEF PartCount
<1>3. Parts(path) = [k \in 1 .. Cardinality(PartsBegin(path)) |-> Listed(path, Of(k))]
    BY Zenon DEF Parts, Pieces, SlashesOf, HereOf, PathOpen, PartsBegin
<1>4. \A k : Of(k) = PartSoFar(path, L, k)
    <2>1. \A i \in PathOpen(path) : i <= L /\ i \in DOMAIN path
        BY <1>1
    <2> QED
        BY <2>1 DEF PartSoFar
<1> HIDE DEF Of, count
<1>5. \A k : Listed(path, Of(k)) = Part(path, k)
    BY <1>4, Zenon DEF Part, Got
<1>6. Parts(path) = [k \in 1 .. count |-> Part(path, k)]
    BY <1>2, <1>3, <1>5, Zenon
<1> QED
    BY <1>1, <1>6 DEF count

\* What a text is at the positions of a path and at the zeroes after it.
LEMMA TextOfPath ==
    ASSUME NEW path \in Words, NEW m \in 1 .. (Len(path) + 2)
    PROVE  LET text == PathText(path) start == PathStart(path)
           IN  /\ m \in PathOpen(path) =>
                      /\ m >= start /\ m <= Len(path)
                      /\ text[m] = path[m] /\ text[m] \in Characters
                      /\ text[m] \notin {FWSLASH, NULL_CHAR}
               /\ m \notin PathOpen(path) /\ m >= start => text[m] \in {FWSLASH, NULL_CHAR}
               /\ text[m] = NULL_CHAR => m > Len(path)
               /\ start \in {1, 3} /\ start <= Len(path) + 1
<1> DEFINE text == PathText(path)
           L == Len(path)
<1>1. L \in Nat /\ DOMAIN path = 1 .. L /\ path \in Seq(Characters)
    BY DEF Words
<1>2. /\ \A i \in 1 .. L : text[i] = path[i] /\ path[i] \in Characters
      /\ text[L + 1] = NULL_CHAR /\ text[L + 2] = NULL_CHAR
    <2>1. \A s \in Seq(Characters \cup {NULL_CHAR}) :
              /\ \A i \in 1 .. Len(s) : (s \o <<NULL_CHAR, NULL_CHAR>>)[i] = s[i]
              /\ (s \o <<NULL_CHAR, NULL_CHAR>>)[Len(s) + 1] = NULL_CHAR
              /\ (s \o <<NULL_CHAR, NULL_CHAR>>)[Len(s) + 2] = NULL_CHAR
        OBVIOUS
    <2>2. path \in Seq(Characters \cup {NULL_CHAR})
        BY <1>1
    <2>3. \A i \in 1 .. L : path[i] \in Characters
        BY <1>1
    <2> QED
        BY <2>1, <2>2, <2>3, Zenon DEF PathText
<1> HIDE DEF text, L
<1>3. NULL_CHAR \notin Characters /\ FWSLASH # NULL_CHAR /\ DOT # NULL_CHAR /\ DOT # FWSLASH
    BY CommandLineAssumption DEF Characters, DOT, FWSLASH, NULL_CHAR, Space, Quote, Minus
<1>4. m \in 1 .. L \/ m = L + 1 \/ m = L + 2
    BY <1>1 DEF L
<1>5. PathStart(path) = IF text[1] = DOT /\ text[2] = FWSLASH THEN 3 ELSE 1
    BY DEF PathStart, text
<1>6. /\ PathStart(path) = 3 => L >= 2 /\ path[1] = DOT /\ path[2] = FWSLASH
      /\ PathStart(path) = 1 => ~(L > 1 /\ path[1] = DOT /\ path[2] = FWSLASH)
      /\ PathStart(path) \in {1, 3}
    <2>1. L = 0 => text[1] = NULL_CHAR
        BY <1>2
    <2>2. L = 1 => text[2] = NULL_CHAR
        BY <1>2
    <2>3. L >= 1 => 1 \in 1 .. L
        BY <1>1
    <2>4. L >= 2 => 2 \in 1 .. L
        BY <1>1
    <2>5. L = 0 \/ L = 1 \/ L >= 2
        BY <1>1
    <2> QED
        BY <1>1, <1>2, <1>3, <1>5, <2>1, <2>2, <2>3, <2>4, <2>5
<1>7. \A i : i \in HereOf(path) <=> i = 1 /\ PathStart(path) = 3
    BY <1>1, <1>6 DEF HereOf, L
<1>8. \A i : i \in PathOpen(path) <=>
                 i \in 1 .. L /\ path[i] # FWSLASH /\ ~(i = 1 /\ PathStart(path) = 3)
    BY <1>1, <1>7 DEF PathOpen, SlashesOf
<1>9. m \in PathOpen(path) =>
          /\ m >= PathStart(path) /\ m <= L
          /\ text[m] = path[m] /\ text[m] \in Characters
          /\ text[m] \notin {FWSLASH, NULL_CHAR}
    <2> SUFFICES ASSUME m \in PathOpen(path)
                 PROVE  /\ m >= PathStart(path) /\ m <= L
                        /\ text[m] = path[m] /\ text[m] \in Characters
                        /\ text[m] \notin {FWSLASH, NULL_CHAR}
        OBVIOUS
    <2>1. m \in 1 .. L /\ path[m] # FWSLASH /\ ~(m = 1 /\ PathStart(path) = 3)
        BY <1>8
    <2>2. m >= PathStart(path)
        BY <1>1, <1>6, <2>1
    <2> QED
        BY <1>1, <1>2, <1>3, <2>1, <2>2
<1>10. m \notin PathOpen(path) /\ m >= PathStart(path) => text[m] \in {FWSLASH, NULL_CHAR}
    <2>1. CASE m \in 1 .. L
        BY <1>2, <1>8, <2>1
    <2>2. CASE m = L + 1 \/ m = L + 2
        BY <1>2, <2>2
    <2> QED
        BY <1>4, <2>1, <2>2
<1>11. text[m] = NULL_CHAR => m > L
    <2>1. m \in 1 .. L => text[m] # NULL_CHAR
        BY <1>2, <1>3
    <2> QED
        BY <1>1, <1>4, <2>1
<1>12. PathStart(path) <= L + 1
    BY <1>1, <1>6
<1> QED
    BY <1>6, <1>9, <1>10, <1>11, <1>12 DEF text, L

\* The first parts are components, and these are on the stack.
Pushed(path, scan, count) ==
    /\ \A k \in 1 .. count : IsComponent(Part(path, k))
    /\ scan.stack = [k \in 1 .. count |-> Component(Part(path, k))]

\* One more is pushed.
LEMMA PushOne ==
    ASSUME NEW path, NEW scan \in Scans, NEW count \in Nat \ {0},
           Pushed(path, scan, count - 1), IsComponent(Part(path, count)),
           NEW new \in Scans, new.stack = Append(scan.stack, Component(Part(path, count)))
    PROVE  Pushed(path, new, count)
<1> DEFINE last == Component(Part(path, count))
           old == scan.stack
           S == Components \cup {last}
<1>1. old = [k \in 1 .. (count - 1) |-> Component(Part(path, k))]
    BY DEF Pushed
<1>2. old \in Seq(S) /\ last \in S /\ new.stack \in Seq(Components)
    BY ScanIs
<1>3. Len(old) = count - 1
    <2>1. \A s : s = [k \in 1 .. (count - 1) |-> Component(Part(path, k))] =>
                     Len(s) = count - 1
        OBVIOUS
    <2> QED
        BY <1>1, <2>1
<1> HIDE DEF last, old, S
<1>4. /\ Len(new.stack) = count /\ new.stack[count] = last
      /\ \A i \in 1 .. (count - 1) : new.stack[i] = old[i]
    <2>1. new.stack = Append(old, last)
        BY DEF old, last
    <2>2. /\ Len(Append(old, last)) = Len(old) + 1
          /\ Append(old, last)[Len(old) + 1] = last
          /\ \A i \in 1 .. Len(old) : Append(old, last)[i] = old[i]
        BY <1>2, AppendIs
    <2>3. Len(old) + 1 = count
        BY <1>3
    <2> QED
        BY <1>3, <2>1, <2>2, <2>3
<1>5. \A k \in 1 .. count : k \in 1 .. (count - 1) \/ k = count
    OBVIOUS
<1>6. \A k \in 1 .. count : new.stack[k] = Component(Part(path, k))
    <2>1. \A k \in 1 .. (count - 1) : old[k] = Component(Part(path, k))
        BY <1>1
    <2> QED
        BY <1>4, <1>5, <2>1 DEF last
<1>7. new.stack = [k \in 1 .. count |-> new.stack[k]]
    BY <1>2, <1>4
<1>8. new.stack = [k \in 1 .. count |-> Component(Part(path, k))]
    BY <1>6, <1>7, Zenon
<1>9. \A k \in 1 .. count : IsComponent(Part(path, k))
    BY <1>5 DEF Pushed
<1> QED
    BY <1>8, <1>9 DEF Pushed

\* A path whose parts path_to_dir_stack is made for.
PlainPath(path) == \A k \in 1 .. PartCount(path, Len(path)) : Plain(Part(path, k))

\* A part was found that is no component.
Failed(path, scan) ==
    /\ scan.code # 0
    /\ \E k \in 1 .. PartCount(path, Len(path)) : ~IsComponent(Part(path, k))

\* All that has begun is pushed.
Rests(path, n, scan) ==
    /\ n \notin PathOpen(path)
    /\ scan.code = 0 /\ Between(scan) /\ Pushed(path, scan, PartCount(path, n))
    /\ scan.skip <= n

\* A part is being read.
Reads(path, n, scan) ==
    /\ n \in PathOpen(path)
    /\ scan.code = 0 /\ Reading(Got(path, n, PartCount(path, n)), scan)
    /\ Pushed(path, scan, PartCount(path, n) - 1)
    /\ scan.skip <= n

\* A ".." was pushed as its second dot was read.
Skips(path, n, scan) ==
    /\ n \in PathOpen(path) /\ n + 1 \notin PathOpen(path)
    /\ scan.code = 0 /\ Between(scan) /\ Pushed(path, scan, PartCount(path, n))
    /\ scan.skip = n + 1

\* What a scan knows of a path after n characters.
PathRead(path, n, scan) ==
    /\ scan.end => n > Len(path)
    /\ Failed(path, scan) \/ Rests(path, n, scan) \/ Reads(path, n, scan)
          \/ Skips(path, n, scan)

\* The next character of a part is read.
LEMMA CharacterOfPart ==
    ASSUME NEW path \in Words, PlainPath(path), NEW n \in 0 .. (Len(path) + 1),
           n + 1 \in PathOpen(path), NEW scan \in Scans, scan.code = 0, scan.skip <= n,
           Reading(Got(path, n, PartCount(path, n + 1)), scan),
           Pushed(path, scan, PartCount(path, n + 1) - 1), scan.end = FALSE,
           NEW new, new = ScanChar(PathText(path), PathStart(path), scan, n + 1)
    PROVE  PathRead(path, n + 1, new)
<1> DEFINE L == Len(path)
           m == n + 1
           c == PartCount(path, m)
           read == Got(path, n, c)
           char == path[m]
           part == Part(path, c)
           text == PathText(path)
           last == PartCount(path, L)
<1>1. L \in Nat /\ n \in Nat /\ m \in 1 .. (L + 2) /\ m \in 0 .. (L + 2)
    BY PartPositions
<1>2. /\ m \in PathOpen(path) /\ m >= PathStart(path) /\ m <= L
      /\ text[m] = char /\ char \in Characters
      /\ char \notin {FWSLASH, NULL_CHAR}
    BY <1>1, TextOfPath
<1>3. PathStart(path) \in {1, 3}
    BY <1>1, TextOfPath
<1>4. c \in Nat \ {0} /\ last \in Nat /\ c <= last
    <2>1. c \in Nat \ {0}
        BY InPart
    <2>2. L \in 0 .. (L + 2) /\ m \in 0 .. (L + 2) /\ m <= L
        BY <1>1, <1>2
    <2>3. c <= last
        BY <2>2, PartCountMonotone
    <2>4. last \in Nat
        BY <2>2, PartPositions
    <2> QED
        BY <2>1, <2>3, <2>4
<1>5. part \in Words /\ Plain(part)
    <2>1. c \in 1 .. last
        BY <1>4
    <2>2. L \in 0 .. (L + 2)
        BY <1>1
    <2>3. part \in Words
        BY <1>4, <2>2, GotType DEF Part
    <2> QED
        BY <2>1, <2>3 DEF PlainPath
<1>6. Got(path, m, c) = Append(read, char)
    BY PartGrows
<1>7. Begins(part, Append(read, char))
    <2>1. m \in 0 .. L
        BY <1>1, <1>2
    <2>2. Begins(part, Got(path, m, c))
        BY <1>4, <2>1, PartBegins
    <2> QED
        BY <1>6, <2>2
<1>8. Reading(read, scan) /\ Pushed(path, scan, c - 1)
    OBVIOUS
<1> HIDE DEF c, read, char, part, last
<1>9. ~(scan.end \/ scan.code # 0 \/ m < PathStart(path) \/ m = scan.skip)
    <2>1. scan.skip \in Nat
        BY ScanIs
    <2> QED
        BY <1>1, <1>2, <1>3, <2>1
<1>10. CASE char # DOT
    <2>1. new = AddLetter(scan, char)
        BY <1>2, <1>9, <1>10 DEF ScanChar, text
    <2>2. /\ new \in Scans /\ new.skip = scan.skip /\ new.end = scan.end
          /\ \/ /\ new.code = 0 /\ Reading(Append(read, char), new)
                /\ new.stack = scan.stack
             \/ new.code # 0 /\ ~IsComponent(part)
        BY <1>2, <1>5, <1>7, <1>8, <1>10, <2>1, LetterIsRead
    <2>3. CASE new.code = 0 /\ Reading(Append(read, char), new) /\ new.stack = scan.stack
        <3>1. Pushed(path, new, c - 1)
            BY <1>8, <2>3 DEF Pushed
        <3>2. new.skip <= m
            <4>1. scan.skip \in Nat
                BY ScanIs
            <4> QED
                BY <1>1, <2>2, <4>1
        <3>3. Reads(path, m, new)
            BY <1>2, <1>6, <2>3, <3>1, <3>2 DEF Reads, c
        <3> QED
            BY <2>2, <3>3 DEF PathRead
    <2>4. CASE new.code # 0 /\ ~IsComponent(part)
        <3>1. c \in 1 .. last
            BY <1>4
        <3>2. Failed(path, new)
            BY <2>4, <3>1 DEF Failed, part, last
        <3> QED
            BY <2>2, <3>2 DEF PathRead
    <2> QED
        BY <2>2, <2>3, <2>4
<1>11. CASE char = DOT
    <2>1. FWSLASH # DOT /\ NULL_CHAR # DOT
        BY DEF FWSLASH, NULL_CHAR, DOT
    <2>2. new = IF scan.inExt /\ scan.name = <<>>
                THEN EndDotDot(scan, m, text[m + 1])
                ELSE [scan EXCEPT !.inExt = TRUE]
        BY <1>2, <1>9, <1>11, <2>1 DEF ScanChar, text
    <2>3. CASE scan.inExt /\ scan.name = <<>>
        <3>1. part = <<DOT, DOT>> /\ Append(read, DOT) = part
            BY <1>5, <1>7, <1>8, <1>11, <2>3, DotIsRead
        <3>2. m + 1 \notin PathOpen(path)
            <4> SUFFICES ASSUME m + 1 \in PathOpen(path) PROVE FALSE
                OBVIOUS
            <4>1. m + 1 \in 1 .. L /\ m \in 0 .. (L + 1) /\ m + 1 \in 0 .. L
                BY <1>1, PartPositions
            <4>2. PartCount(path, m + 1) = c
                BY <1>2, <1>4, <4>1, PartGrows DEF c
            <4>3. Got(path, m + 1, c) = Append(Got(path, m, c), path[m + 1])
                BY <4>1, <4>2, PartGrows
            <4>4. Got(path, m, c) = part
                BY <1>6, <1>11, <3>1
            <4>5. Begins(part, Append(part, path[m + 1]))
                BY <1>4, <4>1, <4>3, <4>4, PartBegins DEF part
            <4>6. path[m + 1] \in Characters
                BY <4>1 DEF Words
            <4>7. part \in Seq(Characters)
                BY <1>5 DEF Words
            <4>8. Len(Append(part, path[m + 1])) = Len(part) + 1 /\ Len(part) \in Nat
                BY <4>6, <4>7, AppendIs
            <4>9. Len(Append(part, path[m + 1])) <= Len(part)
                BY <4>5 DEF Begins
            <4> QED
                BY <4>8, <4>9
        <3>3. text[m + 1] \in {FWSLASH, NULL_CHAR}
            <4>1. m + 1 \in 1 .. (L + 2) /\ m + 1 >= PathStart(path)
                BY <1>1, <1>2, <1>3
            <4> QED
                BY <3>2, <4>1, TextOfPath DEF text
        <3>4. /\ new \in Scans /\ new.skip = m + 1 /\ new.end = scan.end /\ new.code = 0
              /\ Between(new)
              /\ IsComponent(<<DOT, DOT>>)
              /\ new.stack = Append(scan.stack, Component(<<DOT, DOT>>))
            <4> DEFINE next == text[m + 1]
            <4>1. new = EndDotDot(scan, m, next)
                BY <2>2, <2>3
            <4>2. m \in Nat /\ next \in {FWSLASH, NULL_CHAR}
                BY <1>1, <3>3
            <4> HIDE DEF m, next
            <4> QED
                BY <4>1, <4>2, UpIsRead, Zenon
        <3>5. Pushed(path, new, c)
            BY <1>4, <1>8, <3>1, <3>4, PushOne DEF part
        <3>6. Skips(path, m, new)
            BY <1>2, <3>2, <3>4, <3>5 DEF Skips, c
        <3> QED
            BY <3>4, <3>6 DEF PathRead
    <2>4. CASE ~(scan.inExt /\ scan.name = <<>>)
        <3>1. /\ new \in Scans /\ new.skip = scan.skip /\ new.end = scan.end
              /\ new.code = 0 /\ new.stack = scan.stack
              /\ Reading(Append(read, DOT), new)
            <4>1. new = [scan EXCEPT !.inExt = TRUE]
                BY <2>2, <2>4
            <4> QED
                BY <1>5, <1>7, <1>8, <1>11, <2>4, <4>1, DotIsRead
        <3>2. Pushed(path, new, c - 1)
            BY <1>8, <3>1 DEF Pushed
        <3>3. new.skip <= m
            <4>1. scan.skip \in Nat
                BY ScanIs
            <4> QED
                BY <1>1, <3>1, <4>1
        <3>4. Reads(path, m, new)
            BY <1>2, <1>6, <1>11, <3>1, <3>2, <3>3 DEF Reads, c
        <3> QED
            BY <3>1, <3>4 DEF PathRead
    <2> QED
        BY <2>3, <2>4
<1> QED
    BY <1>10, <1>11

\* A slash or the end of the path is read.
LEMMA EndOfPart ==
    ASSUME NEW path \in Words, PlainPath(path), NEW n \in 0 .. (Len(path) + 1),
           n + 1 \notin PathOpen(path), n + 1 >= PathStart(path),
           NEW scan \in Scans, scan.end = FALSE, Rests(path, n, scan) \/ Reads(path, n, scan),
           NEW new, new = ScanChar(PathText(path), PathStart(path), scan, n + 1)
    PROVE  PathRead(path, n + 1, new)
<1> DEFINE L == Len(path)
           m == n + 1
           c == PartCount(path, n)
           part == Part(path, c)
           text == PathText(path)
           last == PartCount(path, L)
           isEnd == (text[m] = NULL_CHAR)
           ended == EndComponent(scan)
<1>1. L \in Nat /\ n \in Nat /\ m \in 1 .. (L + 2) /\ PathStart(path) \in {1, 3}
    <2>1. L \in Nat /\ n \in Nat /\ m \in 1 .. (L + 2)
        BY PartPositions
    <2> QED
        BY <2>1, TextOfPath
<1>2. text[m] \in {FWSLASH, NULL_CHAR} /\ (isEnd => m > L)
    BY <1>1, TextOfPath
<1>3. PartCount(path, m) = c
    <2>1. c \in Nat
        BY <1>1, PartPositions
    <2> QED
        BY <2>1, PartGrows
<1>4. scan.code = 0 /\ scan.skip <= n /\ scan.skip \in Nat
    BY ScanIs DEF Rests, Reads
<1>5. ~(scan.end \/ scan.code # 0 \/ m < PathStart(path) \/ m = scan.skip)
    BY <1>1, <1>4
<1>6. new = [ended EXCEPT !.end = isEnd]
    <2>1. FWSLASH # DOT /\ NULL_CHAR # DOT
        BY DEF FWSLASH, NULL_CHAR, DOT
    <2> QED
        BY <1>2, <1>5, <2>1 DEF ScanChar
<1> HIDE DEF isEnd, ended
<1>7. isEnd \in BOOLEAN
    BY DEF isEnd
<1>8. ASSUME ended \in Scans, ended.skip = scan.skip
      PROVE  /\ new \in Scans /\ new.skip <= m /\ (new.end => m > L)
             /\ new.code = ended.code /\ new.stack = ended.stack
             /\ Between(ended) => Between(new)
    <2>1. /\ new \in Scans /\ new.skip = ended.skip /\ new.end = isEnd
          /\ new.code = ended.code /\ new.stack = ended.stack
          /\ Between(ended) => Between(new)
        BY <1>6, <1>7, <1>8, EndIsScan
    <2>2. new.skip <= m
        BY <1>1, <1>4, <1>8, <2>1
    <2> QED
        BY <1>2, <2>1, <2>2
<1>9. CASE Rests(path, n, scan)
    <2>1. Between(scan) /\ Pushed(path, scan, c)
        BY <1>9 DEF Rests
    <2>2. /\ ended \in Scans /\ ended.skip = scan.skip
          /\ ended.code = scan.code /\ ended.stack = scan.stack /\ Between(ended)
        BY <2>1, NothingIsRead DEF ended
    <2>3. Pushed(path, new, c)
        BY <1>8, <2>1, <2>2 DEF Pushed
    <2> HIDE DEF c
    <2>4. Rests(path, m, new)
        BY <1>3, <1>4, <1>8, <2>2, <2>3 DEF Rests
    <2> QED
        BY <1>8, <2>2, <2>4 DEF PathRead
<1>10. CASE Reads(path, n, scan)
    <2>1. /\ n \in PathOpen(path) /\ Pushed(path, scan, c - 1)
          /\ Reading(Got(path, n, c), scan)
        BY <1>10 DEF Reads
    <2>2. c \in Nat \ {0} /\ Got(path, n, c) # <<>> /\ Got(path, n, c) = part
        BY <2>1, InPart, PartIsWhole
    <2> HIDE DEF c, part
    <2>3. /\ ended \in Scans /\ ended.skip = scan.skip
          /\ \/ /\ ended.code = 0 /\ Between(ended) /\ IsComponent(part)
                /\ ended.stack = Append(scan.stack, Component(part))
             \/ ended.code # 0 /\ ~IsComponent(part)
        BY <1>4, <2>1, <2>2, ComponentIsRead DEF ended
    <2>4. CASE /\ ended.code = 0 /\ Between(ended) /\ IsComponent(part)
               /\ ended.stack = Append(scan.stack, Component(part))
        <3>1. new \in Scans /\ new.stack = Append(scan.stack, Component(part))
            BY <1>8, <2>3, <2>4
        <3>2. Pushed(path, new, c)
            BY <2>1, <2>2, <2>4, <3>1, PushOne DEF part
        <3>3. Rests(path, m, new)
            BY <1>3, <1>8, <2>3, <2>4, <3>2 DEF Rests
        <3> QED
            BY <1>8, <2>3, <3>3 DEF PathRead
    <2>5. CASE ended.code # 0 /\ ~IsComponent(part)
        <3>1. c \in 1 .. last
            <4>1. n \in 0 .. (L + 2) /\ L \in 0 .. (L + 2) /\ n <= L
                BY <1>1, <2>1, PartPositions
            <4>2. c <= last /\ last \in Nat
                BY <4>1, PartCountMonotone, PartPositions DEF c
            <4> QED
                BY <2>2, <4>2
        <3>2. Failed(path, new)
            BY <1>8, <2>3, <2>5, <3>1 DEF Failed, part
        <3> QED
            BY <1>8, <2>3, <3>2 DEF PathRead
    <2> QED
        BY <2>3, <2>4, <2>5
<1> QED
    BY <1>9, <1>10

\* What a scan knows of a path it knows after one more character.
LEMMA PathReadGrows ==
    ASSUME NEW path \in Words, PlainPath(path), NEW n \in 0 .. (Len(path) + 1),
           NEW scan \in Scans, PathRead(path, n, scan),
           NEW new, new = ScanChar(PathText(path), PathStart(path), scan, n + 1)
    PROVE  PathRead(path, n + 1, new)
<1> DEFINE L == Len(path)
           m == n + 1
<1>1. L \in Nat /\ n \in Nat /\ m \in 1 .. (L + 2) /\ \A i \in PathOpen(path) : i <= L
    BY PartPositions
<1>2. /\ m \in PathOpen(path) => m >= PathStart(path)
      /\ PathStart(path) \in {1, 3} /\ scan.skip \in Nat /\ scan.end \in BOOLEAN
    <2>1. m \in PathOpen(path) => m >= PathStart(path)
        BY <1>1, TextOfPath
    <2>2. PathStart(path) \in {1, 3}
        BY <1>1, TextOfPath
    <2> QED
        BY <2>1, <2>2, ScanIs
<1>3. PartCount(path, n) \in Nat /\ n \in 0 .. (L + 2)
    BY <1>1, PartPositions
<1>4. m \notin PathOpen(path) => PartCount(path, m) = PartCount(path, n)
    BY <1>3, PartGrows
<1>5. m \in PathOpen(path) =>
          PartCount(path, m) = PartCount(path, n) + IF n \in PathOpen(path) THEN 0 ELSE 1
    BY <1>3, PartGrows
<1>6. CASE Failed(path, scan)
    <2>1. new = scan
        BY <1>6 DEF ScanChar, Failed
    <2> QED
        BY <1>1, <1>6, <2>1 DEF PathRead
<1>7. CASE Skips(path, n, scan)
    <2>1. m \notin PathOpen(path) /\ scan.skip = m
        BY <1>7 DEF Skips
    <2>2. new = scan
        BY <2>1 DEF ScanChar
    <2>3. Rests(path, m, scan)
        BY <1>1, <1>4, <1>7, <2>1 DEF Rests, Skips
    <2> QED
        BY <1>1, <2>2, <2>3 DEF PathRead
<1>8. CASE scan.end /\ (Rests(path, n, scan) \/ Reads(path, n, scan))
    <2>1. n > L
        BY <1>8 DEF PathRead
    <2>2. n \notin PathOpen(path) /\ m \notin PathOpen(path)
        BY <1>1, <2>1
    <2>3. new = scan
        BY <1>8 DEF ScanChar
    <2>4. Rests(path, n, scan)
        BY <1>8, <2>2 DEF Reads
    <2>5. Rests(path, m, scan)
        BY <1>1, <1>2, <1>4, <2>2, <2>4 DEF Rests
    <2> QED
        BY <1>1, <2>1, <2>3, <2>5 DEF PathRead
<1>9. CASE m < PathStart(path) /\ (Rests(path, n, scan) \/ Reads(path, n, scan))
    <2>1. m \notin PathOpen(path)
        BY <1>1, <1>2, <1>9
    <2>2. n \notin PathOpen(path)
        <3> SUFFICES ASSUME n \in PathOpen(path) PROVE FALSE
            OBVIOUS
        <3>1. n \in 1 .. (L + 2)
            BY PartPositions
        <3>2. n >= PathStart(path)
            BY <3>1, TextOfPath
        <3> QED
            BY <1>1, <1>2, <1>9, <3>2
    <2>3. new = scan
        BY <1>9 DEF ScanChar
    <2>4. Rests(path, n, scan)
        BY <1>9, <2>2 DEF Reads
    <2>5. Rests(path, m, scan)
        BY <1>1, <1>2, <1>4, <2>1, <2>4 DEF Rests
    <2> QED
        BY <1>1, <2>3, <2>5 DEF PathRead
<1>10. CASE /\ scan.end = FALSE /\ m >= PathStart(path) /\ m \notin PathOpen(path)
            /\ Rests(path, n, scan) \/ Reads(path, n, scan)
    BY <1>10, EndOfPart
<1>11. CASE /\ scan.end = FALSE /\ m >= PathStart(path) /\ m \in PathOpen(path)
            /\ Rests(path, n, scan) \/ Reads(path, n, scan)
    <2> DEFINE c == PartCount(path, m)
    <2>1. /\ scan.code = 0 /\ scan.skip <= n
          /\ Reading(Got(path, n, c), scan) /\ Pushed(path, scan, c - 1)
        <3>1. CASE Rests(path, n, scan)
            <4>1. n \notin PathOpen(path) /\ Between(scan)
                  /\ Pushed(path, scan, PartCount(path, n))
                  /\ scan.code = 0 /\ scan.skip <= n
                BY <3>1 DEF Rests
            <4>2. c = PartCount(path, n) + 1
                BY <1>5, <1>11, <4>1
            <4>3. c \in Nat /\ c > PartCount(path, n) /\ c - 1 = PartCount(path, n)
                BY <1>3, <4>2
            <4>4. Got(path, n, c) = <<>>
                BY <1>3, <4>3, PartNotBegun
            <4>5. Reading(<<>>, scan)
                BY <4>1 DEF Reading, Between
            <4> QED
                BY <4>1, <4>3, <4>4, <4>5
        <3>2. CASE Reads(path, n, scan)
            <4>1. n \in PathOpen(path) /\ Reading(Got(path, n, PartCount(path, n)), scan)
                  /\ Pushed(path, scan, PartCount(path, n) - 1)
                  /\ scan.code = 0 /\ scan.skip <= n
                BY <3>2 DEF Reads
            <4>2. c = PartCount(path, n)
                BY <1>3, <1>5, <1>11, <4>1
            <4> QED
                BY <4>1, <4>2
        <3> QED
            BY <1>11, <3>1, <3>2
    <2> QED
        BY <1>11, <2>1, CharacterOfPart
<1>12. m < PathStart(path) \/ m >= PathStart(path)
    BY <1>1, <1>2
<1> QED
    BY <1>2, <1>6, <1>7, <1>8, <1>9, <1>10, <1>11, <1>12 DEF PathRead

\* At the end all parts are pushed, or one of them is no component.
LEMMA PathIsRead ==
    ASSUME NEW path \in Words, PlainPath(path)
    PROVE  LET scan == path_to_dir_stack(path)
           IN  \/ Failed(path, scan)
               \/ scan.code = 0 /\ Pushed(path, scan, PartCount(path, Len(path)))
<1> DEFINE L == Len(path)
           N == L + 2
           text == PathText(path)
           start == PathStart(path)
<1>1. PICK g \in [0 .. N -> Scans] : ScansPath(path, g)
    BY PathIsScanned
<1>2. /\ L \in Nat /\ N \in Nat /\ \A i \in PathOpen(path) : i \in 1 .. L
      /\ PartCount(path, 0) = 0
    BY PartPositions
<1> DEFINE Known == {n \in 0 .. N : PathRead(path, n, g[n])}
<1>3. 0 \in Known
    <2>1. g[0] = Scan /\ 0 \in 0 .. N /\ 0 \notin PathOpen(path)
        BY <1>1, <1>2 DEF ScansPath
    <2>2. Between(Scan) /\ Scan.code = 0 /\ Scan.skip = 0 /\ Scan.end = FALSE
        BY DEF Between, Scan
    <2>3. Pushed(path, Scan, 0)
        <3>1. \A s : s = [k \in 1 .. 0 |-> Component(Part(path, k))] => s = <<>>
            OBVIOUS
        <3>2. Scan.stack = [k \in 1 .. 0 |-> Component(Part(path, k))]
            BY <3>1 DEF Scan
        <3>3. \A k \in 1 .. 0 : IsComponent(Part(path, k))
            OBVIOUS
        <3> QED
            BY <3>2, <3>3 DEF Pushed
    <2>4. Rests(path, 0, Scan)
        BY <1>2, <2>1, <2>2, <2>3 DEF Rests
    <2> QED
        BY <2>1, <2>2, <2>4 DEF PathRead
<1>4. ASSUME NEW n \in 0 .. (N - 1), n \in Known PROVE n + 1 \in Known
    <2>1. /\ n + 1 \in 1 .. N /\ n + 1 - 1 = n /\ n \in 0 .. N /\ n + 1 \in 0 .. N
          /\ n \in 0 .. (L + 1)
        BY <1>2
    <2>2. g[n + 1] = ScanChar(text, start, g[n], n + 1)
        BY <1>1, <2>1 DEF ScansPath
    <2>3. g[n] \in Scans
        BY <2>1
    <2>4. PathRead(path, n, g[n])
        BY <1>4
    <2>5. PathRead(path, n + 1, ScanChar(text, start, g[n], n + 1))
        BY <2>1, <2>3, <2>4, PathReadGrows
    <2> QED
        BY <2>1, <2>2, <2>5
<1>5. PathRead(path, N, g[N])
    <2>1. N \in 0 .. N
        BY <1>2
    <2> HIDE DEF Known, N
    <2>2. \A n \in 0 .. N : n \in Known
        BY <1>2, <1>3, <1>4, BoundedInduction
    <2> QED
        BY <2>1, <2>2 DEF Known
<1>6. path_to_dir_stack(path) = g[N]
    BY <1>1 DEF ScansPath
<1>7. N \notin PathOpen(path) /\ PartCount(path, N) = PartCount(path, L)
    <2>1. L \in 0 .. (L + 1) /\ L + 1 \in 0 .. (L + 1) /\ L \in 0 .. (L + 2)
          /\ L + 1 \in 0 .. (L + 2) /\ L + 1 + 1 = N
        BY <1>2
    <2>2. L + 1 \notin PathOpen(path) /\ N \notin PathOpen(path)
        BY <1>2
    <2>3. PartCount(path, L) \in Nat /\ PartCount(path, L + 1) \in Nat
        BY <2>1, PartPositions
    <2>4. PartCount(path, L + 1) = PartCount(path, L)
        BY <2>1, <2>2, <2>3, PartGrows
    <2>5. PartCount(path, L + 1 + 1) = PartCount(path, L + 1)
        BY <2>1, <2>2, <2>3, PartGrows
    <2> QED
        BY <2>1, <2>2, <2>4, <2>5
<1> QED
    BY <1>5, <1>6, <1>7 DEF PathRead, Rests, Reads, Skips

-----------------------------------------------------------------------------
(* What holds of every line that is typed *)

\* A line is made of the characters there are.
LEMMA LineIsText == Spec => [](line \in Words)
<1>1. Init => line \in Words
    BY DEF Init, Words
<1>2. line \in Words /\ [Type]_line => (line \in Words)'
    BY DEF Type, Words
<1> QED
    BY <1>1, <1>2, PTL DEF Spec

\* Every path that is typed, but for those with a part of several dots, is accepted
\* exactly when each of its parts is a component, and then these are on the stack
\* in order, however many slashes are in between: nothing is left over from one
\* part for the next (path_to_dir_stack).
THEOREM PathsOfEveryLine == Spec => []PathIsParsed
<1>1. ASSUME line \in Words PROVE PathIsParsed
    <2> DEFINE parts == Parts(line)
               scan == path_to_dir_stack(line)
               count == PartCount(line, Len(line))
    <2>1. count \in Nat /\ parts = [k \in 1 .. count |-> Part(line, k)]
        BY <1>1, PartsAre
    <2> HIDE DEF parts, count
    <2>2. /\ Len(parts) = count /\ DOMAIN parts = 1 .. count
          /\ \A k \in 1 .. count : parts[k] = Part(line, k)
        BY <2>1
    <2>3. ToSet(parts) = {Part(line, k) : k \in 1 .. count}
        BY <2>2, Zenon DEF ToSet
    <2> SUFFICES ASSUME \A part \in ToSet(parts) :
                            Cardinality(Dots(part)) <= 1 \/ part = DotDot.name
                 PROVE  /\ scan.code = 0 <=> \A part \in ToSet(parts) : IsComponent(part)
                        /\ scan.code = 0 =>
                              scan.stack = [k \in 1 .. Len(parts) |-> Component(parts[k])]
        BY Zenon DEF PathIsParsed, parts
    <2>4. PlainPath(line)
        BY <2>3 DEF PlainPath, Plain, count
    <2>5. \/ Failed(line, scan)
          \/ scan.code = 0 /\ Pushed(line, scan, count)
        BY <1>1, <2>4, PathIsRead DEF count
    <2> HIDE DEF scan
    <2>6. CASE Failed(line, scan)
        BY <2>3, <2>6 DEF Failed, count
    <2>7. CASE scan.code = 0 /\ Pushed(line, scan, count)
        <3>1. \A part \in ToSet(parts) : IsComponent(part)
            BY <2>3, <2>7 DEF Pushed
        <3>2. \A k \in 1 .. count : Component(parts[k]) = Component(Part(line, k))
            BY <2>2, Zenon
        <3>3. [k \in 1 .. count |-> Component(parts[k])] =
                  [k \in 1 .. count |-> Component(Part(line, k))]
            BY <3>2, Zenon
        <3>4. scan.stack = [k \in 1 .. Len(parts) |-> Component(parts[k])]
            BY <2>2, <2>7, <3>3, Zenon DEF Pushed
        <3> QED
            BY <2>7, <3>1, <3>4
    <2> QED
        BY <2>5, <2>6, <2>7
<1> QED
    BY <1>1, LineIsText, PTL

\* The arguments of every line are the words that were typed, with what was
\* quoted in one word and however many spaces are between them (extract_args).
THEOREM ArgumentsOfEveryLine == Spec => []WordsAreArguments
<1>1. ASSUME line \in Words PROVE WordsAreArguments
    <2>1. \A k \in 1 .. MAX_LINE : k \in Nat \ {0}
        BY CommandLineAssumption
    <2> QED
        BY <1>1, <2>1, ArgumentsAreWords DEF WordsAreArguments
<1> QED
    BY <1>1, LineIsText, PTL

\* A kill that names a slot kills that slot, and one that does not name a number
\* kills none, whatever else is on the line (handle_kill).
THEOREM KillsOfEveryLine == Spec => []KillsTheNumberTyped
<1>1. ASSUME line \in Words PROVE KillsTheNumberTyped
    <2> DEFINE word == Argument(Cut(line), 2)
    <2>1. word \in Words /\ Argument(extract_args(line), 2) = word
        BY <1>1, ArgumentsAreWords
    <2> HIDE DEF word
    <2>2. handle_kill(extract_args(line)) =
              IF str_to_positive_int(word).code # 0 THEN {}
              ELSE {str_to_positive_int(word).num % 256}
        BY <2>1 DEF handle_kill
    <2>3. CASE IsNumber(word)
        <3>1. /\ NumberOf(word) \in Nat
              /\ NumberOf(word) < UINT64 =>
                     str_to_positive_int(word) = [code |-> 0, num |-> NumberOf(word)]
            BY <2>1, <2>3, NumberIsRead
        <3>2. NumberOf(word) < 256 => NumberOf(word) < UINT64
            BY <3>1, CommandLineAssumption DEF PIT_FREQUENCY
        <3>3. NumberOf(word) < 256 =>
                  handle_kill(extract_args(line)) = {NumberOf(word) % 256}
            BY <2>2, <3>1, <3>2
        <3>4. NumberOf(word) < 256 => NumberOf(word) % 256 = NumberOf(word)
            BY <3>1
        <3> QED
            BY <2>3, <3>3, <3>4 DEF KillsTheNumberTyped, word
    <2>4. CASE ~IsNumber(word)
        <3>1. str_to_positive_int(word).code # 0
            BY <2>1, <2>4, NoNumberIsRead
        <3> QED
            BY <2>2, <2>4, <3>1 DEF KillsTheNumberTyped, word
    <2> QED
        BY <2>3, <2>4
<1> QED
    BY <1>1, LineIsText, PTL

\* A sound from 19 Hz upwards sets the counter that comes nearest to it from
\* above, although its bytes are sent one by one (handle_sound, play_sound).
THEOREM TonesOfEveryLine == Spec => []PlaysTheToneTyped
<1>1. ASSUME line \in Words PROVE PlaysTheToneTyped
    <2> DEFINE word == Argument(Cut(line), 2)
               typed == NumberOf(word)
    <2>1. word \in Words /\ Argument(extract_args(line), 2) = word
        BY <1>1, ArgumentsAreWords
    <2> HIDE DEF word
    <2>2. ASSUME IsNumber(word), typed \in 19 .. PIT_FREQUENCY
          PROVE  \E counter \in handle_sound(extract_args(line)) :
                     /\ counter * typed <= PIT_FREQUENCY
                     /\ (counter + 1) * typed > PIT_FREQUENCY
        <3>1. typed < UINT32 /\ typed < UINT64 /\ typed \in Nat /\ typed # 0
            BY <2>2, CommandLineAssumption, TimerIsFast
        <3>2. str_to_positive_int(word) = [code |-> 0, num |-> typed]
            BY <2>1, <2>2, <3>1, NumberIsRead
        <3> HIDE DEF typed
        <3>3. typed % UINT32 = typed
            BY <3>1, CommandLineAssumption
        <3>4. handle_sound(extract_args(line)) = {play_sound(typed)}
            BY <2>1, <3>1, <3>2, <3>3 DEF handle_sound
        <3>5. /\ play_sound(typed) * typed <= PIT_FREQUENCY
              /\ (play_sound(typed) + 1) * typed > PIT_FREQUENCY
            BY <2>2, CounterIsNearest
        <3> QED
            BY <3>4, <3>5
    <2> QED
        BY <2>2, Zenon DEF PlaysTheToneTyped, word
<1> QED
    BY <1>1, LineIsText, PTL

=============================================================================
