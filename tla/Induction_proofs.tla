-------------------------- MODULE Induction_proofs ---------------------------
(***************************************************************************)
(* What the proofs about walks along chains and about folds rest on:       *)
(* induction for a set of numbers, and that the fold of SequencesExt has a *)
(* value and goes through a sequence from its first element to its last.   *)
(* That fold iterates over sets of positions and takes the greatest of a   *)
(* set last.  A lemma cannot have an operator for a parameter, so a step   *)
(* of a fold is a function here, from values to functions of elements.     *)
(***************************************************************************)
EXTENDS SequencesExt, SequenceTheorems, FiniteSetTheorems, TLAPS

\* A set of numbers that is not empty has a least.
LEMMA HasLeast ==
    ASSUME NEW S \in SUBSET Nat, S # {}
    PROVE  \E i \in S : \A j \in S : i <= j
<1> DEFINE Below(i) == 0 .. (i - 1)
           T == {Below(i) : i \in S}
<1>1. T \subseteq FiniteSubsetsOf(Nat)
    <2>1. \A i \in S : IsFiniteSet(Below(i)) /\ Below(i) \subseteq Nat
        BY FS_Interval
    <2> QED
        BY <2>1, Zenon DEF FiniteSubsetsOf
<1>2. T # {}
    OBVIOUS
<1>3. \E x \in T : \A y \in T : <<y, x>> \notin StrictSubsetOrdering(Nat)
    <2> HIDE DEF T
    <2> QED
        BY <1>1, <1>2, FS_StrictSubsetOrderingWellFounded, WFMin
<1>4. PICK i \in S :
          \A j \in S : <<Below(j), Below(i)>> \notin StrictSubsetOrdering(Nat)
    BY <1>3, Zenon
<1>5. \A j \in S : i <= j
    <2> SUFFICES ASSUME NEW j \in S, j < i PROVE FALSE
        OBVIOUS
    <2>1. Below(j) \subseteq Below(i) /\ Below(j) # Below(i)
        <3>1. j \in Below(i) /\ j \notin Below(j)
            OBVIOUS
        <3> QED
            BY <3>1
    <2>2. Below(j) \in SUBSET Nat /\ Below(i) \in SUBSET Nat
        OBVIOUS
    <2> HIDE DEF Below
    <2>3. <<Below(j), Below(i)>> \in StrictSubsetOrdering(Nat)
        BY <2>1, <2>2 DEF StrictSubsetOrdering
    <2> QED
        BY <1>4, <2>3
<1> QED
    BY <1>5

\* Induction up to a bound, for a set of numbers.
LEMMA BoundedInduction ==
    ASSUME NEW N \in Nat, NEW S, 0 \in S,
           \A n \in 0 .. (N - 1) : n \in S => n + 1 \in S
    PROVE  \A n \in 0 .. N : n \in S
<1> DEFINE Bad == {n \in 0 .. N : n \notin S}
<1> SUFFICES ASSUME Bad # {} PROVE FALSE
    OBVIOUS
<1>1. Bad \in SUBSET Nat
    OBVIOUS
<1>2. PICK n \in Bad : \A k \in Bad : n <= k
    <2> HIDE DEF Bad
    <2> QED
        BY <1>1, HasLeast
<1>3. n # 0 /\ n \in 0 .. N
    OBVIOUS
<1>4. n - 1 \in 0 .. (N - 1) /\ n - 1 \in 0 .. N /\ ~(n <= n - 1)
    BY <1>3
<1>5. n - 1 \notin Bad
    BY <1>2, <1>4
<1>6. n - 1 \in S
    BY <1>4, <1>5
<1>7. n - 1 + 1 = n
    BY <1>3
<1> QED
    BY <1>4, <1>6, <1>7

-----------------------------------------------------------------------------
(* Folds *)

\* A fold over the first n elements of a sequence, on all sets of their positions.
FoldsSets(fold, step, base, seq, n) ==
    \A x \in SUBSET (1 .. n) :
        fold[x] = IF x = {} THEN base ELSE step[fold[x \ {Max(x)}]][seq[Max(x)]]

\* A number that bounds a set it is in is its greatest.
LEMMA MaxIs ==
    ASSUME NEW S \in SUBSET Nat, NEW m \in S, \A y \in S : m >= y
    PROVE  Max(S) = m
<1>1. \A k \in S : (\A y \in S : k >= y) => k = m
    OBVIOUS
<1> QED
    BY <1>1 DEF Max

\* A set of positions that is not empty has a greatest.
LEMMA MaxIn ==
    ASSUME NEW N \in Nat, NEW S \in SUBSET (1 .. N), S # {}
    PROVE  Max(S) \in S
<1> DEFINE Bounds == {k \in Nat : \A y \in S : k >= y}
<1>1. N \in Bounds /\ Bounds \in SUBSET Nat
    OBVIOUS
<1>2. PICK k \in Bounds : \A j \in Bounds : k <= j
    <2> HIDE DEF Bounds
    <2> QED
        BY <1>1, HasLeast
<1>3. k \in S
    <2> SUFFICES ASSUME k \notin S PROVE FALSE
        OBVIOUS
    <2>1. PICK y \in S : TRUE
        OBVIOUS
    <2>2. k \in Nat /\ y \in Nat /\ k >= y /\ k # y
        OBVIOUS
    <2>3. k - 1 \in Nat /\ \A z \in S : k - 1 >= z
        BY <2>2
    <2>4. k - 1 \in Bounds /\ ~(k <= k - 1)
        BY <2>2, <2>3
    <2> QED
        BY <1>2, <2>4
<1>4. S \in SUBSET Nat /\ \A y \in S : k >= y
    OBVIOUS
<1> QED
    BY <1>3, <1>4, MaxIs

\* A fold with values in V.
FoldTo(V, step, base, seq, n) ==
    \E fold \in [SUBSET (1 .. n) -> V] : FoldsSets(fold, step, base, seq, n)

\* There is such a function.
LEMMA FoldExists ==
    ASSUME NEW V, NEW C, NEW step \in [V -> [C -> V]], NEW base \in V, NEW seq \in Seq(C)
    PROVE  FoldTo(V, step, base, seq, Len(seq))
<1> DEFINE N == Len(seq)
           Exists == {n \in 0 .. N : FoldTo(V, step, base, seq, n)}
<1>1. N \in Nat
    OBVIOUS
<1>2. 0 \in Exists
    <2> DEFINE fold == [x \in SUBSET (1 .. 0) |-> base]
    <2>1. \A x \in SUBSET (1 .. 0) : x = {}
        OBVIOUS
    <2>2. fold \in [SUBSET (1 .. 0) -> V] /\ FoldsSets(fold, step, base, seq, 0)
        BY <2>1 DEF FoldsSets
    <2>3. FoldTo(V, step, base, seq, 0)
        BY <2>2 DEF FoldTo
    <2> QED
        BY <1>1, <2>3
<1>3. ASSUME NEW n \in 0 .. (N - 1), n \in Exists PROVE n + 1 \in Exists
    <2>1. PICK old \in [SUBSET (1 .. n) -> V] : FoldsSets(old, step, base, seq, n)
        BY <1>3 DEF FoldTo
    <2> DEFINE new == [x \in SUBSET (1 .. (n + 1)) |->
                          IF n + 1 \in x THEN step[old[x \ {n + 1}]][seq[n + 1]] ELSE old[x]]
    <2>2. seq[n + 1] \in C /\ n \in Nat
        BY <1>1
    <2>3. \A x \in SUBSET (1 .. (n + 1)) :
              /\ x \ {n + 1} \in SUBSET (1 .. n)
              /\ n + 1 \notin x => x \in SUBSET (1 .. n)
        <3>1. \A m \in 1 .. (n + 1) : m # n + 1 => m \in 1 .. n
            BY <2>2
        <3> QED
            BY <3>1, Zenon
    <2>4. new \in [SUBSET (1 .. (n + 1)) -> V]
        <3>1. ASSUME NEW x \in SUBSET (1 .. (n + 1)) PROVE new[x] \in V
            <4>1. CASE n + 1 \in x
                <5>1. old[x \ {n + 1}] \in V
                    BY <2>3
                <5>2. step[old[x \ {n + 1}]] \in [C -> V]
                    BY <5>1
                <5> QED
                    BY <2>2, <4>1, <5>2
            <4>2. CASE n + 1 \notin x
                BY <2>3, <4>2
            <4> QED
                BY <4>1, <4>2
        <3> QED
            BY <3>1
    <2>5. \A x \in SUBSET (1 .. n) : x \in SUBSET (1 .. (n + 1)) /\ new[x] = old[x]
        BY <2>2
    <2>6. ASSUME NEW x \in SUBSET (1 .. (n + 1))
          PROVE  new[x] = IF x = {} THEN base ELSE step[new[x \ {Max(x)}]][seq[Max(x)]]
        <3>1. CASE n + 1 \in x
            <4>1. x \in SUBSET Nat /\ \A y \in x : n + 1 >= y
                BY <2>2
            <4>2. Max(x) = n + 1
                BY <3>1, <4>1, MaxIs
            <4>3. new[x \ {n + 1}] = old[x \ {n + 1}]
                BY <2>3, <2>5, <3>1
            <4> QED
                BY <3>1, <4>2, <4>3
        <3>2. CASE n + 1 \notin x
            <4>1. x \in SUBSET (1 .. n) /\ x \ {Max(x)} \in SUBSET (1 .. n)
                BY <2>3, <3>2
            <4>2. new[x] = old[x] /\ new[x \ {Max(x)}] = old[x \ {Max(x)}]
                BY <2>5, <4>1
            <4> QED
                BY <2>1, <4>1, <4>2 DEF FoldsSets
        <3> QED
            BY <3>1, <3>2
    <2> HIDE DEF new
    <2>7. FoldsSets(new, step, base, seq, n + 1)
        BY <2>6 DEF FoldsSets
    <2>8. n + 1 \in 0 .. N
        BY <1>1
    <2> QED
        BY <2>4, <2>7, <2>8 DEF FoldTo
<1>4. \A n \in 0 .. N : n \in Exists
    <2> HIDE DEF Exists, N
    <2> QED
        BY <1>1, <1>2, <1>3, BoundedInduction
<1>5. N \in 0 .. N
    BY <1>1
<1> QED
    BY <1>4, <1>5

\* It goes through the sequence in order: the last of the first n positions is n.
LEMMA LastPosition ==
    ASSUME NEW N \in Nat, NEW n \in 1 .. N
    PROVE  /\ 1 .. n \in SUBSET (1 .. N) /\ 1 .. n # {}
           /\ Max(1 .. n) = n
           /\ (1 .. n) \ {n} = 1 .. (n - 1)
<1>1. 1 .. n \in SUBSET Nat /\ n \in 1 .. n /\ \A y \in 1 .. n : n >= y
    OBVIOUS
<1>2. Max(1 .. n) = n
    BY <1>1, MaxIs
<1> QED
    BY <1>2

=============================================================================
